SPECIFICATION FairHotReloadSpec
CONSTANTS
  p1 = p1 p2 = p2 rr = rr wrr = wrr other = other
  Processes <- TwoProcesses
  Migrations <- MCMigrations
  Version <- MCVersion
  Releases <- MCReleases
  NoProcess = NoProcess
  MaxFaults = 1
  Server = p1
  Settings <- MCSettings
  Strategy = "strategy"
  Kind <- MCKind
  ValidStrategies <- Strategies
  NoText = NoText
  NaN = NaN
  Default <- MCDefault
  Seeded <- MCSeeded
  Seed = "seed"
  Environments <- MCEnvironments
  Bodies <- MCBodies
  MaxPuts = 2
INVARIANTS HotReloadTypeOK AppliedOnce UpMeansMigrated HotIsSane
PROPERTIES PredecessorsFirst AdminValueSurvives ConfigConverges
