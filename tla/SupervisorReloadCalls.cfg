\* May a reload overlap two calls into one module?
SPECIFICATION Spec
CONSTANTS
  Module = {1, 2}
  NoModule = 0
  Deps <- PairDeps
  StartRank <- ResolvedRank
  RegRank <- Ascending
  Configurable = {1}
  MaxRestarts = 1
  RestartEnabled = TRUE
  QueueCap = 2
  EarlyReports = FALSE
  Overrun = FALSE
  BootSignal = FALSE
  CommitFails = FALSE
  MaxFaults = 2
  MaxReloads = 1
INVARIANT OneLifecycleCall
