SPECIFICATION Spec
CONSTANTS
  x = x
  y = y
  Var = {x, y}
  Entry = 0
  Wanted <- TwoWaysOnly
  Bound <- Bounds
  None = None
INVARIANT AllReported
CHECK_DEADLOCK FALSE
