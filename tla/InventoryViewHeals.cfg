\* Three entities, a budget of two events per cycle, a ring of three.
SPECIFICATION InventorySpec
CONSTANTS
  Entity = {1, 2, 3}
  Rank <- Backwards
  Relation = {11}
  Ends <- FirstToLast
  MaxVersion = 2
  MaxEntities = 3
  MaxEventsPerCycle = 2
  MaxEvents = 3
  MaxInventoryEntities = 3
  MaxInventoryRelations = 1
  EntitiesPerHost = 3
  RelationsPerHost = 1
  ExporterKeepsUp = TRUE
  MaxChanges = 1
  MaxMishaps = 0
PROPERTY ViewHeals
