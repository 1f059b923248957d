CONSTANTS
  Timeouts = FALSE
  PausesReading = FALSE
  ClosesAtOnce = FALSE
  SendsWhenLost = FALSE
  MaxSend = 3
  MaxData = 2
SPECIFICATION FairSpec
INVARIANTS
  TypeOK
  UnsentIsWatched
  DeathFindsItClosed
  ControllerOutlivesItsEvents
PROPERTIES
  CloseFlushes
  CloseCompletes
  LivesAsASession
CHECK_DEADLOCK FALSE
