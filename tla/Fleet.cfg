\* Store: four series for two places, a time of three windows, one host more than fits.
\* Prices: a catalog is old after two days, a failure forgiven after one; room for one region.
\* View: two tokens are as long as comm; a process with two names, an entity more than fits.
CHECK_DEADLOCK FALSE
SPECIFICATION FleetSpec
CONSTANTS
  Host = {h1, h2}
  Key = {"cpu", "container", "app", "proc"}
  Kind <- KindByName
  Hosts = 1
  SeriesPerHost = 2
  HistorySeries = 1
  HistorySeriesExtra = 1
  HistoryPoints = 2
  SeriesStaleAfter = 1
  Reports <- TwoBatches
  MaxTime = 2
  MaxBatches = 2
  Scenes <- MCScenes
  CommLen = 2
  StaleWindow = 1
  EntitiesCap = 3
  LogLines = 3
  SpanCount = 2
  UnitPoints = 3
  MaxCosted = 2
  MaxValue = 2
  LastTime = 2
  MaxLines = 7
  Region = {"r1", "r2"}
  UnsafeRegion = {"r2"}
  InstanceType = {"t1", "t2"}
  Column = {1, 2}
  Listings <- MCListings
  Leftovers <- MCLeftovers
  MaxAge = 2
  RetryAfter = 1
  MaxRegions = 1
  MaxRates = 2
  MaxPriceTime = 5
  MaxStarts = 2
INVARIANT RingsCounted
INVARIANT RowsAreThings
INVARIANT CostAddsUp
PROPERTY PlacesGoToTheLive
PROPERTY PriceColumnIsTrue
