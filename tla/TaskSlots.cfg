CONSTANTS
  c1 = c1
  c2 = c2
  None = None
  Cells = {c1, c2}
  Words = 2
  WordBits = 2
  FallbackSize = 2
  MaxAdds = 7
SPECIFICATION CallSpec
INVARIANTS TypeOK GetReturnsIssued NoSlotLost LedgerBalances
PROPERTIES NeverReissued SpillOnlyWhenFull AddTakesReleased
CHECK_DEADLOCK FALSE
