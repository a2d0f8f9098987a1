SPECIFICATION Spec
CONSTANTS
    FirstCap = 4
    HashOf <- MCHashOf
    MaxU32 = 255
    Payload = 3
    NumBits = 10
    Families <- MCFamilies
    Starts <- MCStarts
INVARIANT HandledRight
INVARIANT OneThing
INVARIANT ReadsBack
INVARIANT Damaged
CHECK_DEADLOCK FALSE
