SPECIFICATION Spec
CONSTANTS
  WordBits = 8
  Values <- MCValues
  Widths = {0, 2, 4}
  NullValues = {0}
  MaxItems = 2
INVARIANT PrintsAsPrintf
CHECK_DEADLOCK FALSE
