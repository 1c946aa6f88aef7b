\* Every irregularity at once: a reload, calls that hang, overrun deadlines, early reports, a signal at boot.
SPECIFICATION HangingSpec
CONSTANTS
  Module = {1, 2}
  NoModule = 0
  Deps <- PairDeps
  StartRank <- ResolvedRank
  RegRank <- Ascending
  Configurable = {1}
  MaxRestarts = 1
  RestartEnabled = TRUE
  QueueCap = 2
  EarlyReports = TRUE
  Overrun = TRUE
  BootSignal = TRUE
  CommitFails = TRUE
  MaxFaults = 1
  MaxReloads = 1
INVARIANT TypeOK
INVARIANT LeaseOwned
PROPERTY ShutdownTerminates
