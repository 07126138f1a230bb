SPECIFICATION ReliableSpec
CONSTANTS
  Server = {s1, s2, s3}
  Command = {c1}
  Nil = Nil
  Prompt = TRUE
  LossyCrash = FALSE
  MaxElections = 2
  MaxLogLen = 1
  MaxCalls = 10
  MaxBlocked = 2
  MaxRestarts = 0
CHECK_DEADLOCK FALSE
PROPERTIES LeaderKeepsOffice
