\* Two generations for one product on two channels, two managers, two workers.
SPECIFICATION Spec
CONSTANTS
  Empty = Empty
  Gens = {g1, g2}
  Channels = {otto, kaufland}
  Otto = {otto}
  Kaufland = {kaufland}
  Snapshots = {{"composition"}}
  Selections = {{otto, kaufland}}
  Patches = {{"text"}}
  Workers = {w1, w2}
  Managers = {m1, m2}
  MaxEvents = 3
INVARIANTS Consistent
PROPERTIES FinishedStays  RunningEnds
CHECK_DEADLOCK FALSE
