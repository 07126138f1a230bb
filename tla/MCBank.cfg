SPECIFICATION FairSpec
CONSTANTS
  a1 = a1
  a2 = a2
  Account = {a1, a2}
  Client = {c1, c2, c3}
  Call <- MCCall
  Opening = {1}
  Nil = Nil
INVARIANTS
  NoLostUpdate
  Exclusive
  NoOverdraft
  StuckBehindFault
  BalancesExplained
  CompareCount
PROPERTY
  CallsReturn
CHECK_DEADLOCK FALSE
