\* Bounds: two devices and two files of counters (host), one move of the host within a cycle
\* (topology), three births over two PIDs and a table of one (process), two containers, three cycles (container);
\* every set of manifests over four IDs with thirteen lists of dependencies (graph).
CHECK_DEADLOCK FALSE
SPECIFICATION ModulesSpec
CONSTANTS
  Device = {1, 2}
  Readers = {{"disk"}, {"network"}, {"cpu", "os"}, {"memory", "os"}, {"filesystem"}}
  HostSettings <- MCHostSettings
  Pressure = {1, 2}
  MaxInterval = 3
  MaxCount = 1
  MaxJiffies = 2
  MaxReloads = 2
  Pid = {1, 2}
  Socket <- MCSocket
  Iface <- MCIface
  Address = {1}
  TopologySettings <- MCTopologySettings
  MaxMoves = 1
  Radix = 100
  Pids = {3, 8}
  Names = {1, 2}
  MaxTracked = 1
  MaxProcesses = 2
  MaxExecutables = 1
  MaxEvents = 2
  MaxSeries = 1
  Retention = 1
  Include = {}
  Exclude = {}
  Guarded = {2}
  MaxBirths = 3
  MaxCycles = 3
  Container = {"c1", "c2"}
  RuntimeOf <- MCRuntime
  HostNetwork = {"c2"}
  MaxContainers = 1
  MaxWork = 3
  MaxRounds = 3
  Id = {1, 2, 3, 4}
  Lists <- MCLists
INVARIANT FiguresAreTrue
INVARIANT SourcesAreKept
INVARIANT EdgesAreProved
INVARIANT TableIsStable
INVARIANT ReportsAreTrue
INVARIANT ContainersAreReal
INVARIANT ResolveIsRight
PROPERTY TableIsBoundedWatch
