SPECIFICATION FairSpec
CONSTANTS
  MaxDuration = 5
  MaxMillis = 5
  None = None
  Initials = {0, 2}
  MaxDelays = {1, None}
  MaxCalls = 2
  Timeout = 3
  Combinators = {"none", "or", "race"}
  MaxTime = 6
INVARIANTS ResultSummarisesAttempts BackoffRespected ReadyResultBeatsTimeout
PROPERTIES TimeoutReturns RetryReturns
CHECK_DEADLOCK FALSE
