CONSTANTS
  g1 = g1
  g2 = g2
  None = None
  Goroutines = {g1, g2}
  Capacity = 2
  TailMod = 4
  Recycles = FALSE
SPECIFICATION Spec
PROPERTIES ReleaseReturnsBuffer
CHECK_DEADLOCK FALSE
