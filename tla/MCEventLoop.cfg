CONSTANTS
  Producers = {self, p1, p2}
  Self = self
  Node = {n1, n2, n3, n4}
  Null = Null
  MaxPush = 1
SPECIFICATION EventLoopFairSpec
INVARIANTS
  EventLoopTypeOK
  ExitLeavesOnlyNewTasks
  OwnCallsKeepOrder
  ExitFreesNodes
PROPERTY CloseEndsTheLoop
CHECK_DEADLOCK FALSE
