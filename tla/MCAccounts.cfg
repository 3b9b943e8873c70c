\* One account with two listings, four requests, one fault.
SPECIFICATION Spec
CONSTANTS
  MaxAttempts = 2
  MaxEvents = 4
  Listings = {OTTO, Kaufland}
  MaxRetries = 2
  MaxFaults = 1
INVARIANTS CodesOk  
 
CHECK_DEADLOCK FALSE
