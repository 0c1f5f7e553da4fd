SPECIFICATION Spec
CONSTANTS
  h1 = h1 h2 = h2 n1 = n1 n2 = n2 l1 = l1 l2 = l2 l3 = l3 w1 = w1
  None = None
  Items <- MCItems
  Workers <- MCWorkers
  Priority <- MCPriority
  CreatedAt <- MCCreatedAt
  MaxSize = 6
  Preempt = TRUE
SYMMETRY Symmetry
INVARIANT HeapWellFormed
PROPERTY ImplementsQueue
CHECK_DEADLOCK FALSE
