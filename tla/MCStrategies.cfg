SPECIFICATION Spec
CONSTANTS
  KeyCount = 3
  MaxWeight = 4
  Lists <- FullList
  MaxReweighs = 2
  MaxCalls = 7
INVARIANTS Proportional Smooth Cycles AlwaysPicks
