CONSTANTS
  g1 = g1
  g2 = g2
  g3 = g3
  None = None
  Goroutines = {g1, g2, g3}
  Capacity = 2
  TailMod = 4
  Recycles = TRUE
SYMMETRY Symmetry
SPECIFICATION Spec
CONSTRAINT Orderly
INVARIANTS TypeOK BuffersConserved
PROPERTIES WritesUnseen EofReplenished
CHECK_DEADLOCK FALSE
