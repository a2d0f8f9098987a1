\* Every family of programs; the limits of inline are small enough to be met.
SPECIFICATION Spec
CONSTANTS
  InlineMax = 6
  InlineGrow = 8
  Fuel = 24
  FactBits = 3
  ProofDepth = 3
  ProofNodes = 8
  Programs <- Small
INVARIANT WellFormed
INVARIANT SameMeaning
INVARIANT CfgKept
INVARIANT DominanceIsOfRuns
INVARIANT NothingUnused
INVARIANT SameEitherWay
CHECK_DEADLOCK FALSE
