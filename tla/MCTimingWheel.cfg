CONSTANTS
  Entry = {e1}
  BucketSize = 5
  NWheel = 2
  Delays = {1, 4, 5, 6, 10}
  MaxTick = 36
  MaxInsert = 5
  ResetGap = 2
  TickMin = 1
  TickMax = 2
SPECIFICATION SpecIdle
INVARIANTS
  TypeOK
  EntryGoesWhenDue
PROPERTY ClosesTheIdle
CHECK_DEADLOCK FALSE
