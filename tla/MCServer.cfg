CONSTANTS
  Size = 3
  MaxClients = 2
SPECIFICATION FairSpec
INVARIANTS
  TypeOK
  DoneThreadsHaveStopped
  PoolIsSafeUnlessOvertaken
  NoEndlessJoin
  BacklogIsWatched
  WorkersOutliveTheServer
PROPERTIES
  SessionsAreKept
  ClientsAreServed
CHECK_DEADLOCK FALSE
