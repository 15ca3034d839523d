------------------------------ MODULE Doomsday ------------------------------
(***************************************************************************)
(* DoomsdayTimer, src/src/doomsday.rs: a watchdog that panics or exits the  *)
(* process when nobody calls reset() in time.  The spawned main_loop task   *)
(* runs beside callers that share the timer through clones; they meet at    *)
(* the mutex around time_to_explode and at the atomic flag defused.  A step *)
(* is the code between two points where another thread can be observed; a   *)
(* critical section (no await inside) is one step.                          *)
(***************************************************************************)
EXTENDS Integers

CONSTANTS Callers,     \* holders of a clone of the timer
          Duration,    \* the duration given to spawn
          MaxTime      \* bound: the clock saturates, MaxTime stands for every later instant

ASSUME DoomsdayAssumption ==
  Duration \in Nat /\ MaxTime \in Nat /\ Duration < MaxTime

VARIABLES aggressive_mode,   \* exit_on_explode, fixed by spawn
          clock,             \* Instant::now()
          time_to_explode,   \* the deadline behind the mutex
          defused,           \* the atomic flag
          pc, now, seen, wake,         \* main_loop: control, its two locals, the end of its sleep
          caller, new_time_to_explode, \* per caller: control and the local of reset()
          exploded,          \* who has run explode_inner, a subset of {"loop", "caller"}
          promised,          \* history: the latest deadline a completed reset() asked for
          heeded,            \* history: promised when main_loop last read the deadline
          overlapped         \* history: two calls of reset() have been under way at once

loopVars == <<pc, now, seen, wake>>
callerVars == <<caller, new_time_to_explode>>
history == <<promised, heeded, overlapped>>
vars == <<aggressive_mode, clock, time_to_explode, defused, loopVars, callerVars, exploded, history>>

Time == 0 .. MaxTime
Later(s, t) == IF s < t THEN t ELSE s

\* std::process::exit(1) stops every thread.
Exited == aggressive_mode /\ exploded # {}

\* Every variable ranges over the values its Rust type and the clock bound allow.
TypeOK ==
  /\ {clock, time_to_explode, promised, heeded, now, seen, wake} \subseteq Time
  /\ {aggressive_mode, defused, overlapped} \subseteq BOOLEAN
  /\ pc \in {"check", "stamp", "lock", "decide", "sleep", "returned", "panicked", "cancelled"}
  /\ caller \in [Callers -> {"idle", "lock", "panicked"}]
  /\ new_time_to_explode \in [Callers -> Time]
  /\ exploded \in SUBSET {"loop", "caller"}

\* spawn(): the task is scheduled but not polled yet, as if a sleep were over.
Init ==
  /\ clock = 0 /\ time_to_explode = Duration /\ promised = Duration /\ heeded = Duration
  /\ aggressive_mode \in BOOLEAN /\ overlapped = FALSE
  /\ defused = FALSE /\ exploded = {}
  /\ pc = "sleep" /\ now = 0 /\ seen = Duration /\ wake = 0
  /\ caller = [c \in Callers |-> "idle"]
  /\ new_time_to_explode = [c \in Callers |-> Duration]

Tick ==
  /\ clock < MaxTime
  /\ clock' = clock + 1
  /\ UNCHANGED <<aggressive_mode, time_to_explode, defused, loopVars, callerVars, exploded, history>>

---------------------------------------------------------------------------
\* reset(): the new deadline is computed before the mutex is awaited ...
ResetStamp(c) ==
  /\ caller[c] = "idle"
  /\ clock + Duration < MaxTime            \* bound
  /\ new_time_to_explode' = [new_time_to_explode EXCEPT ![c] = clock + Duration]
  /\ caller' = [caller EXCEPT ![c] = "lock"]
  /\ overlapped' = (overlapped \/ \E b \in Callers : caller[b] = "lock")
  /\ UNCHANGED <<aggressive_mode, clock, time_to_explode, defused, loopVars, exploded, promised, heeded>>

\* Mutant: the deadline is stored only when it shortens the wait.
ResetStoreEarlier(c) ==
  /\ caller[c] = "lock"
  /\ time_to_explode' = IF new_time_to_explode[c] < time_to_explode
                        THEN new_time_to_explode[c] ELSE time_to_explode
  /\ promised' = Later(promised, new_time_to_explode[c])
  /\ caller' = [caller EXCEPT ![c] = "idle"]
  /\ UNCHANGED <<aggressive_mode, clock, defused, loopVars, new_time_to_explode, exploded, heeded, overlapped>>

\* ... and stored under the mutex, whatever has been stored in the meantime.
ResetStore(c) ==
  /\ caller[c] = "lock"
  /\ time_to_explode' = new_time_to_explode[c]
  /\ promised' = Later(promised, new_time_to_explode[c])
  /\ caller' = [caller EXCEPT ![c] = "idle"]
  /\ UNCHANGED <<aggressive_mode, clock, defused, loopVars, new_time_to_explode, exploded, heeded, overlapped>>

\* The future of reset() is dropped while it waits for the mutex.
ResetDropped(c) ==
  /\ caller[c] = "lock"
  /\ caller' = [caller EXCEPT ![c] = "idle"]
  /\ UNCHANGED <<aggressive_mode, clock, time_to_explode, defused, loopVars, new_time_to_explode, exploded, history>>

Defuse(c) ==
  /\ caller[c] = "idle"
  /\ defused' = TRUE
  /\ UNCHANGED <<aggressive_mode, clock, time_to_explode, loopVars, callerVars, exploded, history>>

\* explode() looks at nothing; its panic unwinds the caller, not main_loop.
Explode(c) ==
  /\ caller[c] = "idle"
  /\ exploded' = exploded \cup {"caller"}
  /\ caller' = [caller EXCEPT ![c] = "panicked"]
  /\ UNCHANGED <<aggressive_mode, clock, time_to_explode, defused, loopVars, new_time_to_explode, history>>

---------------------------------------------------------------------------
\* Mutant: the flag is not looked at.
LoopCheckNothing ==
  /\ pc = "check"
  /\ pc' = "stamp"
  /\ UNCHANGED <<aggressive_mode, clock, time_to_explode, defused, now, seen, wake, callerVars, exploded, history>>

\* main_loop, the steps of one iteration.
LoopCheck ==
  /\ pc = "check"
  /\ pc' = IF defused THEN "returned" ELSE "stamp"
  /\ UNCHANGED <<aggressive_mode, clock, time_to_explode, defused, now, seen, wake, callerVars, exploded, history>>

LoopStamp ==
  /\ pc = "stamp"
  /\ now' = clock
  /\ pc' = "lock"
  /\ UNCHANGED <<aggressive_mode, clock, time_to_explode, defused, seen, wake, callerVars, exploded, history>>

LoopRead ==
  /\ pc = "lock"
  /\ seen' = time_to_explode /\ heeded' = promised
  /\ pc' = "decide"
  /\ UNCHANGED <<aggressive_mode, clock, time_to_explode, defused, now, wake, callerVars, exploded,
                 promised, overlapped>>

\* Mutant: the comparison of the deadline with the clock includes equality.
LoopExplodeOnTime ==
  /\ pc = "decide" /\ now >= seen
  /\ exploded' = exploded \cup {"loop"}
  /\ pc' = "panicked"
  /\ UNCHANGED <<aggressive_mode, clock, time_to_explode, defused, now, seen, wake, callerVars, history>>

\* explode_inner() in the task; whoever awaits the task sees the panic.
LoopExplode ==
  /\ pc = "decide" /\ now > seen
  /\ exploded' = exploded \cup {"loop"}
  /\ pc' = "panicked"
  /\ UNCHANGED <<aggressive_mode, clock, time_to_explode, defused, now, seen, wake, callerVars, history>>

\* Mutant: the sleep is never over, as when its timer is not armed.
LoopSleepForever ==
  /\ pc = "decide" /\ now <= seen
  /\ UNCHANGED <<wake, pc>>
  /\ UNCHANGED <<aggressive_mode, clock, time_to_explode, defused, now, seen, callerVars, exploded, history>>

\* sleep(time_to_explode - now), counted from this instant and not from now.
LoopSleep ==
  /\ pc = "decide" /\ now <= seen
  /\ wake' = IF clock + (seen - now) < MaxTime THEN clock + (seen - now) ELSE MaxTime
  /\ pc' = "sleep"
  /\ UNCHANGED <<aggressive_mode, clock, time_to_explode, defused, now, seen, callerVars, exploded, history>>

LoopWake ==
  /\ pc = "sleep" /\ clock >= wake
  /\ pc' = "check"
  /\ UNCHANGED <<aggressive_mode, clock, time_to_explode, defused, now, seen, wake, callerVars, exploded, history>>

\* The Task that spawn returned is dropped: main_loop is cancelled at an await.
DropTask ==
  /\ pc \in {"sleep", "lock"}
  /\ pc' = "cancelled"
  /\ UNCHANGED <<aggressive_mode, clock, time_to_explode, defused, now, seen, wake, callerVars, exploded, history>>

---------------------------------------------------------------------------
LoopStep == LoopCheck \/ LoopStamp \/ LoopRead \/ LoopExplode \/ LoopSleep \/ LoopWake

CallerStep(c) ==
  ResetStamp(c) \/ ResetStore(c) \/ ResetDropped(c) \/ Defuse(c) \/ Explode(c)

Next == ~Exited /\ (Tick \/ LoopStep \/ DropTask \/ \E c \in Callers : CallerStep(c))

Spec == Init /\ [][Next]_vars

\* Time passes, and the executor polls a task that is runnable.
FairSpec == Spec /\ WF_vars(~Exited /\ Tick) /\ WF_vars(~Exited /\ LoopStep)

---------------------------------------------------------------------------
\* When main_loop explodes, every deadline has passed that a reset() asked for which
\* completed before the loop read the deadline, as long as the calls of reset() do
\* not overlap.  A reset() that stores between the read and the explosion comes too
\* late: the timer may then explode within duration of a call that returned.
NoEarlyExplosion == [][("loop" \in exploded' \ exploded /\ ~overlapped) => clock > heeded]_vars

\* A completed reset() is never undone: the deadline in force is no earlier than
\* the one any completed reset() asked for.  Of two calls that overlap, the one
\* that read the clock first may store last.
ResetHolds == ~overlapped => time_to_explode >= promised

\* A defuse() that finds main_loop asleep works: the loop will not explode.
DefusedAsleepStaysQuiet == [](defused /\ pc = "sleep" => [](pc # "panicked"))

\* The promise of the type: resets stop, so the timer explodes, unless it was
\* defused, its task dropped, or the process ended.
UnresetTimerExplodes == <>(pc = "panicked" \/ defused \/ pc = "cancelled" \/ Exited)

\* After defuse() the loop's task ends, at the latest when its sleep is over.
DefusedLoopEnds == defused ~> (pc \in {"returned", "panicked", "cancelled"} \/ Exited)

\* doomsday.rs line 97: a defused timer will no longer explode.
DefusedNeverExplodes == [][defused => ("loop" \in exploded' => "loop" \in exploded)]_vars
=============================================================================
