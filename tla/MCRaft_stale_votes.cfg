SPECIFICATION Spec
CONSTANTS
  Server = {s1, s2, s3}
  Command = {c1}
  Nil = Nil
  Prompt = FALSE
  LossyCrash = FALSE
  MaxElections = 3
  MaxLogLen = 1
  MaxCalls = 6
  MaxRestarts = 0
SYMMETRY Symmetry
CHECK_DEADLOCK FALSE
INVARIANTS ElectionSafety
