SPECIFICATION Spec
CONSTANTS
  IP = {a, b, c}
  Rates = {0, 1, 4}
  Unit = 4
  TicksPerSec = 2
  SweepSizeTrigger = 2
  SweepInterval = 5
  MinSweepGap = 2
  MaxTracked = 2
  MaxTime = 6
INVARIANT WindowBound
PROPERTIES CeilingRefusalIsFresh RefinesIdeal
CHECK_DEADLOCK FALSE
