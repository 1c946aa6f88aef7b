\* A UTF-8 and a UTF-16 file, three lines, one rotation and one upset, windows that hold two lines and a byte;
\* two addresses, a queue and a connection table of one; five cells of a binary log.
SPECIFICATION Spec
CONSTANTS
  Files = {1, 2}
  Wide = {2}
  Crlf = {2}
  MaxBytesPerS = 7
  MaxBatch = 2
  MaxMultilineLines = 2
  DetectSamples = 1
  StartAtEnd = FALSE
  MaxLines = 3
  MaxRotations = 1
  MaxUpsets = 1
  Readers = {"loop"}
  Addresses = {"a", "b"}
  MaxQueue = 1
  SyslogBatch = 1
  MaxConns = 1
  MaxGen = 2
  MaxConnects = 2
  MaxMessages = 2
  MaxChanges = 2
  CursorBatch = 2
  EventBuffer = 3
  JournalBlock = 2
  Uids = {0, 1, 2, 3}
  LastlogCap = 3
  Archives = {1, 2, 3}
  ArchivesPerCycle = 1
  MaxCells = 5
  MaxCursorRotations = 1
  MaxLogins = 2
  MetricName = {"requests"}
  Tag = {0, 1, 2, 3}
  EmptyTag = 0
  Rendered <- MCRendered
  MaxTags = 2
  BufferLines = 2
  SeriesBound = 1
  Datagrams <- MCDatagrams
  MaxListens = 2
  MaxDatagrams = 2
  Address = {"p", "q"}
  QueueBound = {1, 2}
  MaxRequests = 2
  MaxServers = 2
CHECK_DEADLOCK FALSE
INVARIANT LinesBecomeRecords
INVARIANT ListenerAccountsForAll
INVARIANT CursorsKeepTheirPlace
INVARIANT IntakeIsTrue
PROPERTY CloseEnds
