SPECIFICATION Spec
CONSTANTS
  s1 = s1
  s2 = s2
  s3 = s3
  b1 = b1
  b2 = b2
  c1 = c1
  r1 = r1
  Val = {s1, s2, s3}
  Block = {b1, b2}
  Const = {c1}
  Reg = {r1}
  MaxDepth = 1
  SizeOf <- MCSizeOf
  MaxSize = 2
  Budget = 3
  Word64 = 16
  InitStr = TRUE
  Nil = Nil
  TrapMsg = TrapMsg
  NoPar = NoPar
PROPERTY NomemPastBudget
