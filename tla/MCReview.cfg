\* One product, a PATCH or DELETE overlapping every other operation.
SPECIFICATION Spec
CONSTANTS
  p1 = p1
  p2 = p2
  m1 = m1
  r1 = r1
  r2 = r2
  jv1 = jv1
  jv2 = jv2
  xl1 = xl1
  xl2 = xl2
  None = None
  Products <- OneProduct
  Managers = {m1}
  Requests <- OneRequest
  AccountOf <- OnePair
  Catalogs = {"old", "new"}
  FirstCatalog = "old"
  Listed = {}
  MaxRevision = 3
INVARIANTS TypeOK ApprovedHasEans
PROPERTIES StaleDecisionFails ArchivedIsFinal
CHECK_DEADLOCK FALSE
