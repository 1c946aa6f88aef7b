\* Restarts and failure handling make progress when module calls return.
SPECIFICATION FairSpec
CONSTANTS
  Module = {1, 2}
  NoModule = 0
  Deps <- PairDeps
  StartRank <- ResolvedRank
  RegRank <- Ascending
  Configurable = {1}
  MaxRestarts = 1
  RestartEnabled = TRUE
  QueueCap = 3
  EarlyReports = FALSE
  Overrun = FALSE
  BootSignal = FALSE
  CommitFails = FALSE
  MaxFaults = 3
  MaxReloads = 0
PROPERTY Recovers
