SPECIFICATION JobFairSpec
CONSTANTS
  Worker = {w1, w2}
  NMap = 2
  NReduce = 2
  Emit <- MCEmit
  Part <- MCPart
  Absent = Absent
  MaxCrash = 1
  MaxLate = 1
INVARIANTS
  CountersExact
  OneTimer
  ReduceAfterMap
  ExitWhenDone
  OutputRight
PROPERTY
  JobEnds
CHECK_DEADLOCK FALSE
