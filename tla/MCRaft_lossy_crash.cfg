SPECIFICATION Spec
CONSTANTS
  Server = {s1, s2, s3}
  Command = {c1}
  Nil = Nil
  Prompt = TRUE
  LossyCrash = TRUE
  MaxElections = 2
  MaxLogLen = 1
  MaxCalls = 20
  MaxRestarts = 1
SYMMETRY Symmetry
CHECK_DEADLOCK FALSE
INVARIANTS ElectionSafety
