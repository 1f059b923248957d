CONSTANTS
  Producers = {p1, p2}
  Node = {n1, n2, n3}
  Null = Null
  MaxPush = 3
SPECIFICATION TaskQueueFairSpec
INVARIANTS
  NoLostWakeup
  SleepsOnlyWhenDone
PROPERTY EveryTaskIsTaken
