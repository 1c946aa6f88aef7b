\* A batch of one item, three items; three entities, a budget of two events per cycle, a ring of three,
\* room in the exporter for both keys of each entity.
CHECK_DEADLOCK FALSE
SPECIFICATION AgentSpec
CONSTANTS
  MaxBatch = 1
  MaxAttempts = 2
  Payloads <- MCPayloads
  AgentAttrs <- MCAttrs
  MaxItems = 3
  Entity = {1, 2, 3}
  Rank <- Backwards
  Relation = {11}
  Ends <- FirstToLast
  MaxVersion = 2
  MaxEntities = 3
  MaxEventsPerCycle = 2
  MaxEvents = 3
  MaxInventoryEntities = 6
  MaxInventoryRelations = 1
  EntitiesPerHost = 3
  RelationsPerHost = 1
  ExporterKeepsUp = TRUE
  MaxChanges = 2
  MaxMishaps = 1
INVARIANT NothingIsInvented
INVARIANT ItemsArriveOrAreCounted
INVARIANT TableIsTrue
PROPERTY Converges
