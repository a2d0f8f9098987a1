SPECIFICATION FairSpec
CONSTANTS
  div = div
  io = io
  own = own
  fatal = fatal
  t1 = t1
  t2 = t2
  empty = empty
  Code = {div, io, own, fatal}
  Fatal = {fatal}
  NOMEM = fatal
  STACK = fatal
  IO = io
  Pos = {0, 1}
  InstPos = {1}
  Msg = {t1, t2, empty}
  Empty = empty
  Text <- MCText
  Raises <- WordedRaise
  Nil = Nil
  MaxDepth = 3
  MaxSteps = 4
  MaxInt = 0
  NoPar = NoPar
  None = None
INVARIANTS TypeOK NothingLeft ParSlots
PROPERTIES FatalStops RunEnds Implements
