SPECIFICATION Spec
CONSTANTS
  s1 = s1
  s2 = s2
  None = None
  Base <- MCBase
  SizeOf <- MCSizeOf
  Prio <- MCPrio
  WordSize = 2
  Low = 1
  Str = {s1}
  Const = Const
  Bytes <- MCBytes
  Glob = 2
  Slots <- MCSlots
  Block = {14}
  CStr = {18}
  SlotType <- MCSlotType
  Other = Other
  Ptr = {2, 3, 4, 12, 14}
  Word = {2, 4, 12, 14}
  Len = {0, 2, 4}
  Elem = {2}
  Types <- MCTypes
  MaxOwed = 1
INVARIANT Tracked
INVARIANT CountsSay
INVARIANT HoldsRight
