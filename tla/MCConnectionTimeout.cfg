CONSTANTS
  Timeouts = TRUE
  PausesReading = TRUE
  ClosesAtOnce = TRUE
  SendsWhenLost = TRUE
  MaxSend = 1
  MaxData = 1
SPECIFICATION FairSpec
PROPERTY EveryConnectionGoes
CHECK_DEADLOCK FALSE
