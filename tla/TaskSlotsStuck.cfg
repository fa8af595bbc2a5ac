CONSTANTS
  c1 = c1
  None = None
  Cells = {c1}
  Words = 2
  WordBits = 2
  FallbackSize = 2
  MaxAdds = 7
SPECIFICATION CallSpec
PROPERTIES AddCompletes
CHECK_DEADLOCK FALSE
