SPECIFICATION Spec
CONSTANTS
  k1 = k1 k2 = k2 k3 = k3 w1 = w1 w2 = w2
  NoKey = NoKey
  Keys <- TwoKeys
  Workers <- MCWorkers
  Windows <- Minute
  ConcurrentLimit <- OneSlot
  RateLimit <- Grants
  MayPickNone = FALSE
SYMMETRY Symmetry
PROPERTY TriesEveryKey
