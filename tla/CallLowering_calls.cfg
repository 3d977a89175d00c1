SPECIFICATION Spec
CONSTANTS
  a = a
  b = b
  c = c
  x = x
  Outside = Outside
  Names = {a, b, c, x}
  Files = {1, 2}
  MaxDepth = 6
  Programs <- Small
INVARIANTS
  NearOnce
  ReturnsRight
  NothingMissing
CHECK_DEADLOCK FALSE
