SPECIFICATION FairSpec
CONSTANTS
  w1 = w1 w2 = w2
  Workers <- TwoWorkers
  Threshold = 2
  MaxFailures = 3
INVARIANTS TypeOK CountMatchesState
PROPERTIES FailedProbeReopens OpenIsLeft
