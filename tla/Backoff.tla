------------------------------ MODULE Backoff -------------------------------
(***************************************************************************)
(* The delay strategies of src/src/retry.rs: FixedDelay, FibonacciBackoff   *)
(* and ExponentialBackoff.  Each is an iterator that never ends; a strategy *)
(* is one record whose fields are those of the Rust struct of its kind.     *)
(***************************************************************************)
EXTENDS Integers

CONSTANTS MaxDuration,  \* Duration::MAX, in milliseconds
          MaxMillis,    \* u64::MAX, the width of ExponentialBackoff's counters
          None          \* Option::None

ASSUME BackoffAssumption ==
  /\ MaxMillis \in Nat \ {0} /\ MaxDuration \in Nat /\ MaxMillis <= MaxDuration
  /\ None \notin Int

Kinds == {"fixed", "fibonacci", "exponential"}
Durations == 0 .. MaxDuration
Strategies == [kind : Kinds, current : Durations, next : Durations, base_millis : 0 .. MaxMillis,
               max_delay : Durations \cup {None}]

\* FixedDelay::new, FibonacciBackoff::new, ExponentialBackoff::from_millis, max_delay.
New(kind, initial, max_delay) ==
  [kind |-> kind, current |-> initial, next |-> initial,
   base_millis |-> IF kind = "exponential" THEN initial ELSE 0, max_delay |-> max_delay]

\* FixedDelay has no max_delay, and ExponentialBackoff starts from a u64.
Valid(kind, initial, max_delay) ==
  /\ kind = "fixed" => max_delay = None
  /\ kind = "exponential" => initial <= MaxMillis

\* Mutant: the largest delay is forgotten.
CappedNever(s) == FALSE

Capped(s) == s.max_delay # None /\ s.current > s.max_delay

\* The item that next() returns.
Delay(s) == IF Capped(s) THEN s.max_delay ELSE s.current

\* Mutant: checked_add and checked_mul replaced by wrapping arithmetic.
SaturateWraps(n, max) == n % (max + 1)

\* checked_add, checked_mul: the largest value stands for an overflow.
Saturate(n, max) == IF n <= max THEN n ELSE max

\* Mutant: the sum replaces the current delay before it has been used.
AdvanceSkips(s) ==
  CASE s.kind = "fixed" -> s
    [] Capped(s) -> s
    [] s.kind = "fibonacci" /\ ~Capped(s) ->
         [s EXCEPT !.current = Saturate(s.current + s.next, MaxDuration), !.next = s.current]
    [] s.kind = "exponential" /\ ~Capped(s) ->
         [s EXCEPT !.current = Saturate(s.current * s.base_millis, MaxMillis)]

\* The strategy after next(); once the largest delay is passed it stands still.
Advance(s) ==
  CASE s.kind = "fixed" \/ Capped(s) -> s
    [] s.kind = "fibonacci" /\ ~Capped(s) ->
         [s EXCEPT !.current = s.next, !.next = Saturate(s.current + s.next, MaxDuration)]
    [] s.kind = "exponential" /\ ~Capped(s) ->
         [s EXCEPT !.current = Saturate(s.current * s.base_millis, MaxMillis)]
=============================================================================
