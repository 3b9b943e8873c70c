\* Two sales of one product on two channels, two imports, two manager requests.
SPECIFICATION Spec
CONSTANTS
  None = None
  Lines = {l1, l2}
  Channels = {c1, c2}
  Importers = {i1, i2}
  Managers = {m1, m2}
  Prices = {"low", "high"}
  FirstPrice = "low"
  FirstStock = 1
  MaxClicks = 2
  MaxFaults = 1
INVARIANTS Consistent StockAgrees
PROPERTIES SalesTold
CHECK_DEADLOCK FALSE
