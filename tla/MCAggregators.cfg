SPECIFICATION MCSpec
CONSTANTS
  Station = {"s1", "s2"}
  Reading <- MCReading
  MaxBatch = 2
INVARIANTS
  AverageRight
PROPERTIES
  ImplementsAggregator
  QuitEnds
  GoroutinesEnd
CHECK_DEADLOCK FALSE
