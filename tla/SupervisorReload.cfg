\* Two modules, two faults and one reload at any moment, early reports.
SPECIFICATION Spec
CONSTANTS
  Module = {1, 2}
  NoModule = 0
  Deps <- PairDeps
  StartRank <- ResolvedRank
  RegRank <- Ascending
  Configurable = {1, 2}
  MaxRestarts = 1
  RestartEnabled = TRUE
  QueueCap = 2
  EarlyReports = TRUE
  Overrun = FALSE
  BootSignal = FALSE
  CommitFails = TRUE
  MaxFaults = 2
  MaxReloads = 1
INVARIANT RunningIsUp
INVARIANT ShutdownOrder
INVARIANT ReloadReconciles
