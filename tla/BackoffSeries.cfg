SPECIFICATION SeriesSpec
CONSTANTS
  MaxDuration = 40
  MaxMillis = 20
  None = None
  Initials = {0, 1, 2, 3, 5, 12}
  MaxDelays = {0, 1, 7, 30, 40, None}
  MaxCalls = 8
INVARIANTS DelayWithinMax DelaysFollowTheSeries
PROPERTIES DelaysNeverShrink
CHECK_DEADLOCK FALSE
