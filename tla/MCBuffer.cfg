CONSTANTS
  VecSize = 7
  MaxBytes = 20
SPECIFICATION Spec
INVARIANTS
  StreamIsKeptUnlessDamaged
  ReadvHasRoom
CHECK_DEADLOCK FALSE
