SPECIFICATION Spec
CONSTANTS
  WordBits = 7
  size = 44
  Sizes = {8, 12, 120}
INVARIANT
  InsideBuffer
CHECK_DEADLOCK FALSE
