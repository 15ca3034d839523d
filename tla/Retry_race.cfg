SPECIFICATION Spec
CONSTANTS
  MaxDuration = 5
  MaxMillis = 5
  None = None
  Initials = {0, 2}
  MaxDelays = {1, None}
  MaxCalls = 2
  Timeout = 3
  Combinators = {"race"}
  MaxTime = 6
INVARIANTS FutureTimeoutReturnsCompleted
CHECK_DEADLOCK FALSE
