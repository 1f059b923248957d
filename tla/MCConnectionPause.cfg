CONSTANTS
  Timeouts = FALSE
  PausesReading = TRUE
  ClosesAtOnce = FALSE
  SendsWhenLost = FALSE
  MaxSend = 1
  MaxData = 1
SPECIFICATION Spec
INVARIANT ControllerOutlivesItsEvents
CHECK_DEADLOCK FALSE
