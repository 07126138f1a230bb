SPECIFICATION TickerSpec
CONSTANTS
  Server = {s1, s2}
  Command = {c1}
  Nil = Nil
  Prompt = FALSE
  LossyCrash = TRUE
  MaxElections = 2
  MaxLogLen = 2
  MaxCalls = 1
  MaxBlocked = 1
  MaxRestarts = 1
CHECK_DEADLOCK FALSE
INVARIANTS TickerTypeOK
PROPERTIES HandlersReturn TimerSet
