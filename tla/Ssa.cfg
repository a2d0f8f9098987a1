SPECIFICATION Spec
CONSTANTS
  x = x
  y = y
  Var = {x, y}
  Entry = 0
  Wanted <- AllGraphs
  Bound <- Bounds
  None = None
INVARIANTS UseRight NoFalseReport ArgsInPlace SwitchGivesNone ReadEnds
CHECK_DEADLOCK FALSE
