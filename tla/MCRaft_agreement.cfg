SPECIFICATION MCSpec
CONSTANTS
  Server = {s1, s2, s3}
  Command = {c1, c2}
  Nil = Nil
  Prompt = TRUE
  LossyCrash = FALSE
  MaxElections = 2
  MaxLogLen = 3
  MaxCalls = 3
  MaxRestarts = 1
SYMMETRY Symmetry
CHECK_DEADLOCK FALSE
INVARIANTS
  ElectionSafety
  LogMatching
  StateMachineSafety
  LeaderCompleteness
  MatchIndexSound
PROPERTIES
  CommittedStays
