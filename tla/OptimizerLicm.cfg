SPECIFICATION Spec
CONSTANTS
  InlineMax = 6
  InlineGrow = 8
  Fuel = 24
  FactBits = 3
  ProofDepth = 3
  ProofNodes = 8
  Programs <- Backwards
INVARIANT WellFormed
CHECK_DEADLOCK FALSE
