SPECIFICATION FairCrashSpec
CONSTANTS
  r1 = r1 r2 = r2 w1 = w1 w2 = w2
  None = None
  Items <- TwoRequests
  Workers <- TwoWorkers
  Priority <- MCPriority
  CreatedAt <- MCCreatedAt
  MaxSize = 2
  Preempt = FALSE
  Keys = {k1}
  ConcurrentLimit <- OneSlot
  AttemptLimits = {2, 3}
  DBFails = FALSE
  CanStop = FALSE
  MaxCalls = 4
  NoIdem = NoIdem
  Submissions <- MCSubmissions
  MaxCrashes = 1
INVARIANT TrueAcrossCrashes
PROPERTY AcceptedIsFinished
CHECK_DEADLOCK FALSE
