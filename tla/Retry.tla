------------------------------- MODULE Retry --------------------------------
(***************************************************************************)
(* retry_if of src/src/retry.rs run to its end, alone or under one of the   *)
(* two time limits of the crate: RetryExt::timeout (retry.rs), built on     *)
(* `or`, and future::timeout (future.rs), built on `race`.  A poll of these *)
(* polls retry_if and the timer one after the other; time passes and the    *)
(* future of an attempt becomes ready, or never does, between any two       *)
(* steps, and the executor may poll late or for nothing.                    *)
(***************************************************************************)
EXTENDS BackoffSeries, Sequences

CONSTANTS Timeout,      \* the time limit
          Combinators,  \* the wrappings to explore: a subset of {"none", "or", "race"}
          MaxTime       \* bound: the clock saturates, MaxTime stands for every later instant

Outcomes == {"ok", "retryable", "fatal"}

ASSUME RetryAssumption ==
  /\ Timeout \in Nat /\ MaxTime \in Nat /\ None \notin Outcomes
  /\ Combinators \subseteq {"none", "or", "race"}

VARIABLES clock, pc,
          combinator, deadline,    \* the time limit and its timer, None until first polled
          todo,                    \* what the running poll still has to poll, in order
          retries, left, wake,     \* items take() lets through and has left, the end of the sleep
          ready, readyAt,          \* outcome of the current attempt once it is there, and since when
          during,                  \* history: it came while a poll was running
          outcomes                 \* history: the outcomes retry_if has seen

limitVars == <<combinator, deadline>>
strategyVars == <<seriesVars, retries, left, wake>>
attemptVars == <<ready, readyAt, during, outcomes>>
vars == <<clock, pc, todo, limitVars, strategyVars, attemptVars>>

Time == 0 .. MaxTime
At(t) == IF t < MaxTime THEN t ELSE MaxTime
Returned == pc \in {"ok", "err", "timeout"}

Init ==
  /\ clock = 0 /\ pc = "attempt" /\ todo = << >> /\ during = FALSE
  /\ combinator \in Combinators /\ deadline = None
  /\ SeriesInit /\ retries \in 0 .. MaxCalls /\ left = retries
  /\ wake = 0 /\ ready = None /\ readyAt = 0 /\ outcomes = << >>

Tick ==
  /\ clock < MaxTime /\ ~Returned
  /\ clock' = clock + 1
  /\ UNCHANGED <<pc, todo, limitVars, strategyVars, attemptVars>>

\* The future that the factory made has its outcome; nobody has polled it yet.
Complete(o) ==
  /\ pc = "attempt" /\ ready = None
  /\ ready' = o /\ readyAt' = clock /\ during' = (todo # << >>)
  /\ UNCHANGED <<clock, pc, todo, limitVars, strategyVars, outcomes>>

---------------------------------------------------------------------------
\* Mutant: `or` picks an order at random, too.
PollOrdersAny ==
  IF combinator = "none" THEN {<<"future">>} ELSE {<<"future", "timer">>, <<"timer", "future">>}

\* `or` polls the timer after retry_if has answered Pending; `race` picks at
\* random, in every poll, which of the two it polls first.
PollOrders ==
  CASE combinator = "none" -> {<<"future">>}
    [] combinator = "or" -> {<<"future", "timer">>}
    [] combinator = "race" -> {<<"future", "timer">>, <<"timer", "future">>}

\* The executor polls the task, woken or not.
PollBegins(order) ==
  /\ ~Returned /\ todo = << >>
  /\ order \in PollOrders /\ todo' = order
  /\ during' = FALSE
  /\ UNCHANGED <<clock, pc, limitVars, strategyVars, ready, readyAt, outcomes>>

Polling(f) == todo # << >> /\ Head(todo) = f

\* The poll is Ready with a result, and what it has not polled is not polled again.
Return(result) == pc' = result /\ todo' = << >>

\* The attempt is polled and yields its outcome.
Yields(o) ==
  /\ Polling("future") /\ pc = "attempt" /\ ready = o
  /\ outcomes' = Append(outcomes, o)
  /\ ready' = None
  /\ UNCHANGED <<clock, limitVars, readyAt, during, retries>>

AttemptOk ==
  /\ Yields("ok") /\ Return("ok")
  /\ UNCHANGED <<seriesVars, left, wake>>

\* Mutant: the condition is not asked, and an error that must not be retried is.
AttemptFatalRetried ==
  /\ Yields("fatal") /\ left > 0
  /\ left' = left - 1 /\ wake' = clock /\ pc' = "sleep"
  /\ UNCHANGED <<todo, seriesVars>>

\* The condition refuses a retry.
AttemptFatal ==
  /\ Yields("fatal") /\ Return("err")
  /\ UNCHANGED <<seriesVars, left, wake>>

\* The strategy has another delay: sleep it off.
AttemptRetry ==
  /\ Yields("retryable") /\ left > 0
  /\ NextDelay /\ left' = left - 1
  /\ wake' = At(clock + delay')
  /\ pc' = "sleep"
  /\ UNCHANGED todo

\* The strategy is at its end: the last error is the result.
AttemptExhausted ==
  /\ Yields("retryable") /\ left = 0 /\ Return("err")
  /\ UNCHANGED <<seriesVars, left, wake>>

\* Mutant: the sleep is over at its very instant only.
ResumeOnTheDot ==
  /\ Polling("future") /\ pc = "sleep" /\ clock = wake
  /\ pc' = "attempt"
  /\ UNCHANGED <<clock, todo, limitVars, strategyVars, attemptVars>>

\* Mutant: the future of the sleep is made but not awaited.
ResumeAtOnce ==
  /\ Polling("future") /\ pc = "sleep"
  /\ pc' = "attempt"
  /\ UNCHANGED <<clock, todo, limitVars, strategyVars, attemptVars>>

\* The sleep is over: the factory makes a new future.
Resume ==
  /\ Polling("future") /\ pc = "sleep" /\ clock >= wake
  /\ pc' = "attempt"
  /\ UNCHANGED <<clock, todo, limitVars, strategyVars, attemptVars>>

\* Mutant: the Pending of one future is returned without polling the other.
FuturePendingReturns ==
  /\ Polling("future")
  /\ (pc = "attempt" /\ ready = None) \/ (pc = "sleep" /\ clock < wake)
  /\ todo' = << >>
  /\ UNCHANGED <<clock, pc, limitVars, strategyVars, attemptVars>>

\* retry_if answers Pending, and the timer is next if it has not been polled.
FuturePending ==
  /\ Polling("future")
  /\ (pc = "attempt" /\ ready = None) \/ (pc = "sleep" /\ clock < wake)
  /\ todo' = Tail(todo)
  /\ UNCHANGED <<clock, pc, limitVars, strategyVars, attemptVars>>

---------------------------------------------------------------------------
\* The first poll of the timer starts it.
StartTimer ==
  /\ Polling("timer") /\ deadline = None
  /\ deadline' = At(clock + Timeout)
  /\ UNCHANGED <<clock, pc, todo, combinator, strategyVars, attemptVars>>

TimerPending ==
  /\ Polling("timer") /\ deadline # None /\ clock < deadline
  /\ todo' = Tail(todo)
  /\ UNCHANGED <<clock, pc, limitVars, strategyVars, attemptVars>>

\* The timer has fired: the error is returned and retry_if is dropped.
TimedOut ==
  /\ Polling("timer") /\ deadline # None /\ clock >= deadline
  /\ Return("timeout")
  /\ UNCHANGED <<clock, limitVars, strategyVars, attemptVars>>

---------------------------------------------------------------------------
PollStep ==
  \/ AttemptOk \/ AttemptFatal \/ AttemptRetry \/ AttemptExhausted \/ Resume \/ FuturePending
  \/ StartTimer \/ TimerPending \/ TimedOut

Poll == \E order \in PollOrders : PollBegins(order)

Next == Tick \/ (\E o \in Outcomes : Complete(o)) \/ Poll \/ PollStep

\* Something the task waits for has happened, and it has been woken.
Awake ==
  \/ pc = "attempt" /\ ready # None
  \/ pc = "sleep" /\ clock >= wake
  \/ deadline # None /\ clock >= deadline

Spec == Init /\ [][Next]_vars

\* Time passes, the executor polls a task that was woken and a poll runs to its
\* end; an attempt may hang.
FairSpec == Spec /\ WF_vars(Tick) /\ WF_vars(Awake /\ Poll) /\ WF_vars(PollStep)

---------------------------------------------------------------------------
\* retry_if never makes more than one attempt and one per item of the strategy,
\* goes on only after an error the condition lets through, and returns the last
\* outcome: a success, an error not to be retried, or the error at the end.
ResultSummarisesAttempts ==
  LET n == Len(outcomes) IN
  /\ n <= retries + 1
  /\ \A i \in 1 .. n - 1 : outcomes[i] = "retryable"
  /\ pc \in {"attempt", "sleep"} /\ n > 0 => outcomes[n] = "retryable"
  /\ pc = "ok" => outcomes[n] = "ok"
  /\ pc = "err" => outcomes[n] = "fatal" \/ (outcomes[n] = "retryable" /\ n = retries + 1)

\* The first n delays together.
Waited[n \in Nat] == IF n = 0 THEN 0 ELSE Waited[n - 1] + Reference(n)

\* Attempt n + 1 starts no earlier than the sum of the first n delays after the
\* first attempt, however late or early the polls come.
BackoffRespected == pc = "attempt" /\ clock < MaxTime => clock >= Waited[Len(outcomes)]

\* RetryExt::timeout reports a timeout only if no result was there when the poll
\* that did so began: one that came before is returned, however late that poll is.
ReadyResultBeatsTimeout ==
  combinator = "or" /\ pc = "timeout" => ready = None \/ during

\* A started timer ends the call, even when an attempt hangs.
TimeoutReturns == deadline # None ~> Returned

\* Without a time limit the call ends if no attempt hangs.
RetryReturns == []<>~(pc = "attempt" /\ ready = None) => <>Returned

\* future.rs line 9: if the future completes before the duration has elapsed,
\* then the completed value is returned.  Here it completes while the timer runs,
\* before the poll that comes after the deadline begins.
FutureTimeoutReturnsCompleted ==
  combinator = "race" /\ pc = "timeout" /\ deadline < MaxTime
    => ~(ready \in {"ok", "fatal"} /\ ~during /\ deadline - Timeout < readyAt /\ readyAt < deadline)
=============================================================================
