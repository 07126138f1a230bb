SPECIFICATION NetFairSpec
CONSTANTS
  e1 = e1
  NoName = NoName
  Rpc = {c1}
  End = {e1}
  Name = {n1, n2}
  EndOf <- MCEndOf
  MaxServers = 3
INVARIANTS
  ReplyFromTheLiving
PROPERTIES
  ImplementsAtMostOnce
  CallsReturn
  HandlersEnd
CHECK_DEADLOCK FALSE
