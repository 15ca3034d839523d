--------------------------- MODULE BackoffSeries ----------------------------
(***************************************************************************)
(* The sequence of delays that a strategy of Backoff hands out, call after  *)
(* call of next(), against the series its name promises.                    *)
(***************************************************************************)
EXTENDS Backoff

CONSTANTS Initials,    \* bound: initial delays tried
          MaxDelays,   \* bound: values of max_delay tried, None among them
          MaxCalls     \* bound: calls of next()

ASSUME SeriesAssumption ==
  /\ Initials \subseteq Durations /\ MaxDelays \subseteq Durations \cup {None}
  /\ MaxCalls \in Nat

VARIABLES initial,   \* the argument of the constructor
          strategy,  \* the iterator
          calls,     \* how often next() was called
          delay      \* what it returned last, None before the first call

seriesVars == <<initial, strategy, calls, delay>>

\* The fields of the iterator and its items stay within their widths.
SeriesTypeOK ==
  /\ initial \in Durations
  /\ strategy \in Strategies
  /\ calls \in 0 .. MaxCalls
  /\ delay \in Durations \cup {None}

SeriesInit ==
  /\ initial \in Initials
  /\ \E kind \in Kinds, max_delay \in MaxDelays :
       Valid(kind, initial, max_delay) /\ strategy = New(kind, initial, max_delay)
  /\ calls = 0 /\ delay = None

NextDelay ==
  /\ calls < MaxCalls
  /\ calls' = calls + 1
  /\ delay' = Delay(strategy)
  /\ strategy' = Advance(strategy)
  /\ UNCHANGED initial

SeriesSpec == SeriesInit /\ [][NextDelay]_seriesVars

---------------------------------------------------------------------------
\* No delay exceeds the max_delay the caller set.
DelayWithinMax == delay # None /\ strategy.max_delay # None => delay <= strategy.max_delay

\* Delays never shrink, overflow included: checked arithmetic saturates.
DelaysNeverShrink == [][delay # None => delay' >= delay]_seriesVars

\* The series: 1, 1, 2, 3, 5, ... times the initial delay, or its powers.
Fibonacci[n \in Nat] == IF n <= 1 THEN n ELSE Fibonacci[n - 1] + Fibonacci[n - 2]
Power[n \in Nat] == [b \in Durations |-> IF n = 0 THEN 1 ELSE b * Power[n - 1][b]]

Series(kind, first, n) ==
  CASE kind = "fixed" -> first
    [] kind = "fibonacci" -> Saturate(first * Fibonacci[n], MaxDuration)
    [] kind = "exponential" -> Saturate(Power[n][first], MaxMillis)

\* The n-th delay of the strategy, going by its name.
Reference(n) ==
  LET exact == Series(strategy.kind, initial, n)
  IN  IF strategy.max_delay # None /\ exact > strategy.max_delay THEN strategy.max_delay ELSE exact

\* The n-th delay is the n-th member of the series, cut off at max_delay and at
\* the largest representable value, although next() keeps only two numbers and
\* stops advancing at the cut-off.
DelaysFollowTheSeries == calls > 0 => delay = Reference(calls)
=============================================================================
