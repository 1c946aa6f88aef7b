\* A chain of three modules, three faults, no reload, calls within their deadlines.
SPECIFICATION Spec
CONSTANTS
  Module = {1, 2, 3}
  NoModule = 0
  Deps <- ChainDeps
  StartRank <- ResolvedRank
  RegRank <- Ascending
  Configurable = {1}
  MaxRestarts = 1
  RestartEnabled = TRUE
  QueueCap = 2
  EarlyReports = TRUE
  Overrun = FALSE
  BootSignal = FALSE
  CommitFails = FALSE
  MaxFaults = 3
  MaxReloads = 0
INVARIANT OneLifecycleCall
INVARIANT NothingLeaks
INVARIANT FaultsAreCharged
