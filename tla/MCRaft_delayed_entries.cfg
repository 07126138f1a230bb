SPECIFICATION Spec
CONSTANTS
  Server = {s1, s2, s3}
  Command = {c1, c2}
  Nil = Nil
  Prompt = FALSE
  LossyCrash = FALSE
  MaxElections = 2
  MaxLogLen = 2
  MaxCalls = 4
  MaxRestarts = 0
SYMMETRY Symmetry
CHECK_DEADLOCK FALSE
INVARIANTS StateMachineSafety
