SPECIFICATION Spec
CONSTANTS
  Server = {s1, s2}
  Command = {c1}
  Nil = Nil
  Prompt = FALSE
  LossyCrash = TRUE
  MaxElections = 2
  MaxLogLen = 3
  MaxCalls = 2
  MaxRestarts = 1
SYMMETRY Symmetry
CHECK_DEADLOCK FALSE
INVARIANTS
  TypeOK
  DummyKept
  LogTermsOrdered
  AppliedInOrder
PROPERTIES
  PromisesKept
