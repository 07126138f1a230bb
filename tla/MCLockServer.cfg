SPECIFICATION FairSpec
CONSTANTS
  s1 = s1
  s2 = s2
  c1 = c1
  c2 = c2
  k = k
  None = None
  Server = {s1, s2}
  Clerk = {c1, c2}
  Key = {k}
  FirstLeader = s1
  Script <- MCScript
  Budget = 3
  MaxElections = 1
  MaxRestarts = 1
INVARIANTS
  StoresAgree
  OneHolder
  CallsFinish
PROPERTIES
  ImplementsLockService
  HandlersReturn
CHECK_DEADLOCK FALSE
