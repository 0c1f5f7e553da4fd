SPECIFICATION ServiceSpec
CONSTANTS
  r1 = r1 r2 = r2 w1 = w1 w2 = w2
  None = None
  Items <- TwoRequests
  Workers <- TwoWorkers
  Priority <- MCPriority
  CreatedAt <- MCCreatedAt
  MaxSize = 1
  Preempt = TRUE
  Keys = {k1}
  ConcurrentLimit <- TwoSlots
  AttemptLimits = {1, 2}
  DBFails = TRUE
  CanStop = TRUE
  MaxCalls = 3
  NoIdem = NoIdem
  Submissions <- MCSubmissions
SYMMETRY WorkerSymmetry
INVARIANTS ServiceTypeOK OneOwner ProcessedOnce ResultIsTrue
PROPERTIES KeepsQueueContract FinishedIsFinal
CHECK_DEADLOCK FALSE
