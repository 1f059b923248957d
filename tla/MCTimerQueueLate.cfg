CONSTANTS
  Timer = {t1, t2}
  None = None
  Delays = {1, 3}
  Intervals = {0, 2}
  Milli = 1
  MinArm = 1
  MaxStall = 1
SPECIFICATION Spec
SYMMETRY MCSymmetry
INVARIANT AlarmIsInTime
