\* Three jobs race on one Kaufland listing, which supports every operation.
SPECIFICATION Spec
CONSTANTS
  Jobs = {j1, j2, j3}
  Workers = {w1, w2}
  Targets <- OneTarget
  Requestable <- VisibilityOps
  BrokerMayFail = FALSE
  None = None
SYMMETRY Symmetry
INVARIANTS TypeOK NoSecondCall AttemptUndisturbed Agreement
PROPERTIES FinishedStaysFinished ImplementsLedger
CHECK_DEADLOCK FALSE
