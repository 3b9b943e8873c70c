SPECIFICATION Spec
CONSTANTS
  n1 = n1
  d1 = d1
  d2 = d2
  w1 = w1
  w2 = w2
  None = None
  Notes <- OneNote
  Devices <- TwoDevices
  Workers <- TwoWorkers
  MaxAttempts = 2
  MaxFaults = 2
INVARIANTS TypeOK NoNeedlessRepeat
PROPERTIES FinalStays Settles
CHECK_DEADLOCK FALSE
