SPECIFICATION FairOrderSpec
CONSTANTS
  h1 = h1 n1 = n1 n2 = n2 l1 = l1 l2 = l2 w1 = w1 w2 = w2
  None = None
  Items <- MCItems
  Workers <- MCWorkers
  Priority <- MCPriority
  CreatedAt <- MCCreatedAt
  MaxSize = 2
  Preempt = TRUE
INVARIANTS
  TypeOK SizeBound NoLostWakeup NothingStranded OnePlace
  BoundedInversion
PROPERTIES PreemptionImproves ShutdownCompletes BestItemServed
CHECK_DEADLOCK FALSE
