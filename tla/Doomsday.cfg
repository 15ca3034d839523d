SPECIFICATION FairSpec
CONSTANTS
  Callers = {c1, c2}
  Duration = 2
  MaxTime = 5
INVARIANTS ResetHolds
PROPERTIES NoEarlyExplosion DefusedAsleepStaysQuiet UnresetTimerExplodes DefusedLoopEnds
CHECK_DEADLOCK FALSE
