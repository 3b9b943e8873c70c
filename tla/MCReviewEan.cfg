\* Two products share two pairs of codes; account jv is published on.
SPECIFICATION Spec
CONSTANTS
  p1 = p1
  p2 = p2
  m1 = m1
  r1 = r1
  r2 = r2
  jv1 = jv1
  jv2 = jv2
  xl1 = xl1
  xl2 = xl2
  None = None
  Products <- TwoProducts
  Managers = {m1}
  Requests = {}
  AccountOf <- TwoPairs
  Catalogs = {"old"}
  FirstCatalog = "old"
  Listed = {"jv"}
  MaxRevision = 2
SYMMETRY Interchangeable
INVARIANTS NoSharedEan OneCodePerAccount
PROPERTIES SpentForever
CHECK_DEADLOCK FALSE
