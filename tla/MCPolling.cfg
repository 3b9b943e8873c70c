\* A job for OTTO and Kaufland, two workers, two attempts, one fault.
SPECIFICATION PollingSpec
CONSTANTS
  Targets <- BothMarkets
  Workers = 2
  Ops = {"publish", "deactivate", "delete"}
  MaxAttempts = 2
  MaxFaults = 1
INVARIANTS PollingConsistent
PROPERTIES WaitingEnds
CHECK_DEADLOCK FALSE
