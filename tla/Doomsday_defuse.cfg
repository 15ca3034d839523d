SPECIFICATION Spec
CONSTANTS
  Callers = {c1}
  Duration = 2
  MaxTime = 7
PROPERTIES DefusedNeverExplodes
CHECK_DEADLOCK FALSE
