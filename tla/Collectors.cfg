\* Each collector, started twice, with two versions of its settings; stopped for good, it rests.
\* Two modules of which one is required, five lifecycle steps.
CHECK_DEADLOCK FALSE
SPECIFICATION CallersSpec
CONSTANTS
  Kinds = {"process", "discovery", "host", "logs", "httpcheck", "container"}
  MaxStarts = 2
  MaxSweeps = 2
  MaxVersion = 1
  Monitored = {1, 2}
  Required = {1}
  MaxProbes = 2
  MaxMoves = 5
INVARIANT OverdueIsTold
PROPERTY HealthIsTold
PROPERTY SweepOwnsModule
PROPERTY CommitTakesEffect
