SPECIFICATION CrashSpec
CONSTANTS
  r1 = r1 r2 = r2 w1 = w1 w2 = w2
  None = None
  Items <- TwoRequests
  Workers <- TwoWorkers
  Priority <- MCPriority
  CreatedAt <- MCCreatedAt
  MaxSize = 1
  Preempt = FALSE
  Keys = {k1}
  ConcurrentLimit <- OneSlot
  AttemptLimits = {1, 2}
  DBFails = FALSE
  CanStop = FALSE
  MaxCalls = 3
  NoIdem = NoIdem
  Submissions <- MCSubmissions
  MaxCrashes = 1
SYMMETRY WorkerSymmetry
INVARIANT NothingLostInCrash
CHECK_DEADLOCK FALSE
