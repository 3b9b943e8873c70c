\* The broker may fail; no request runs longer than the record lives.
SPECIFICATION FairSpec
CONSTANTS
  r1 = r1
  r2 = r2
  r3 = r3
  Requests <- ThreeRequests
  Payload <- TwoPayloads
  MayOutliveTtl = FALSE
  None = None
INVARIANTS Consistent ReplayFaithful
PROPERTIES KeyComesFree
CHECK_DEADLOCK FALSE
