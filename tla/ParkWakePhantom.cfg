CONSTANTS
  g1 = g1
  g2 = g2
  c1 = c1
  c2 = c2
  None = None
  Goroutines = {g1, g2}
  Cells = {c1, c2}
  Idx = {0, 1}
  MaxOps = 2
  MaxAborts = 0
  PollerWaits = TRUE
SPECIFICATION Spec
INVARIANTS GoreadySafe
CHECK_DEADLOCK FALSE
