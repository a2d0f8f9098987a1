SPECIFICATION FairSpec
CONSTANTS
  a = a
  nl = nl
  Byte = {a, nl}
  Newline = nl
  Mode = {0, 1, 2}
  FilesMax = 2
  FilesBuf = 2
  Content <- MCContent
  Data <- MCData
  MaxOpens = 3
  MaxCalls = 4
  MaxLen = 2
  MaxSize = 3
INVARIANTS TypeOK NothingLost WrittenWhenFull NothingSkipped
PROPERTIES EndMet EndFinal HandleOnce CallEnds
CHECK_DEADLOCK FALSE
