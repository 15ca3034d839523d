--------------------------- MODULE DoomsdayProofs ---------------------------
(***************************************************************************)
(* Proofs about Doomsday for every set of callers, duration and horizon.    *)
(***************************************************************************)
EXTENDS Doomsday, TLAPS

\* The variables of DoomsdayTimer, of main_loop and of every caller of reset()
\* keep their types, so no step computes a negative sleep or loses a deadline.
THEOREM TypeCorrect == Spec => []TypeOK
<1> USE DoomsdayAssumption DEF Time
<1>1. Init => TypeOK
  <2> SUFFICES ASSUME Init PROVE TypeOK
    OBVIOUS
  <2> USE DEF Init
  <2>1. {clock, time_to_explode, promised, now, seen, wake} \subseteq Time
    OBVIOUS
  <2>2. caller \in [Callers -> {"idle", "lock", "panicked"}]
    OBVIOUS
  <2>3. new_time_to_explode \in [Callers -> Time]
    OBVIOUS
  <2> QED BY <2>1, <2>2, <2>3 DEF TypeOK
<1>2. TypeOK /\ [Next]_vars => TypeOK'
  <2> SUFFICES ASSUME TypeOK, [Next]_vars PROVE TypeOK'
    OBVIOUS
  <2> USE DEF TypeOK, loopVars, callerVars, history
  <2>1. CASE Tick
    BY <2>1 DEF Tick
  <2>2. CASE LoopStep
    <3>1. CASE LoopCheck   BY <3>1 DEF LoopCheck
    <3>2. CASE LoopStamp   BY <3>2 DEF LoopStamp
    <3>3. CASE LoopRead    BY <3>3 DEF LoopRead
    <3>4. CASE LoopExplode BY <3>4 DEF LoopExplode
    <3>5. CASE LoopSleep   BY <3>5 DEF LoopSleep
    <3>6. CASE LoopWake    BY <3>6 DEF LoopWake
    <3> QED BY <2>2, <3>1, <3>2, <3>3, <3>4, <3>5, <3>6 DEF LoopStep
  <2>3. CASE DropTask
    BY <2>3 DEF DropTask
  <2>4. ASSUME NEW c \in Callers, CallerStep(c) PROVE TypeOK'
    <3>1. CASE ResetStamp(c)   BY <3>1 DEF ResetStamp
    <3>2. CASE ResetStore(c)   BY <3>2 DEF ResetStore, Later
    <3>3. CASE ResetDropped(c) BY <3>3 DEF ResetDropped
    <3>4. CASE Defuse(c)       BY <3>4 DEF Defuse
    <3>5. CASE Explode(c)      BY <3>5 DEF Explode
    <3> QED BY <2>4, <3>1, <3>2, <3>3, <3>4, <3>5 DEF CallerStep
  <2>5. CASE UNCHANGED vars
    BY <2>5 DEF vars
  <2> QED BY <2>1, <2>2, <2>3, <2>4, <2>5 DEF Next
<1> QED BY <1>1, <1>2, PTL DEF Spec

---------------------------------------------------------------------------
\* ResetHolds and NoEarlyExplosion made inductive: as long as calls of reset() do not
\* overlap, the deadline main_loop decides on is the promised one of the moment it
\* was read or a later one, and a call of reset() that is under way is alone and will
\* store a deadline no earlier than the promised one, because promises are stamps of
\* the past.
SerialInv ==
  /\ promised <= clock + Duration
  /\ now <= clock
  /\ ~overlapped =>
       /\ time_to_explode >= promised
       /\ \A c \in Callers : caller[c] = "lock" =>
            promised <= new_time_to_explode[c]
       /\ pc = "decide" => heeded <= seen
       /\ \A c, d \in Callers : caller[c] = "lock" /\ caller[d] = "lock" => c = d
  /\ \A c \in Callers : caller[c] = "lock" => new_time_to_explode[c] <= clock + Duration

LEMMA SerialInvInit == Init => SerialInv
BY DoomsdayAssumption DEF Init, SerialInv

LEMMA SerialInvNext ==
  ASSUME TypeOK, SerialInv, [Next]_vars
  PROVE  SerialInv'
<1> USE DoomsdayAssumption DEF Time, TypeOK, SerialInv, loopVars, callerVars, history
<1>1. CASE Tick
  BY <1>1 DEF Tick
<1>2. CASE LoopStep
  <2>1. CASE LoopStamp   BY <2>1 DEF LoopStamp
  <2>2. CASE LoopExplode BY <2>2 DEF LoopExplode
  <2>3. CASE LoopSleep   BY <2>3 DEF LoopSleep
  <2>4. CASE LoopCheck \/ LoopRead \/ LoopWake
    BY <2>4 DEF LoopCheck, LoopRead, LoopWake
  <2> QED BY <1>2, <2>1, <2>2, <2>3, <2>4 DEF LoopStep
<1>3. CASE DropTask
  BY <1>3 DEF DropTask
<1>4. ASSUME NEW c \in Callers, CallerStep(c) PROVE SerialInv'
  <2>1. CASE ResetStamp(c)
    <3>1. /\ new_time_to_explode'[c] = clock + Duration
          /\ \A b \in Callers \ {c} : /\ caller'[b] = caller[b]
                                     /\ new_time_to_explode'[b] = new_time_to_explode[b]
          /\ UNCHANGED <<clock, time_to_explode, now, promised, pc, seen, heeded>>
      BY <2>1 DEF ResetStamp
    <3>2. ~overlapped' => ~overlapped /\ \A b \in Callers \ {c} : caller'[b] # "lock"
      BY <2>1, <3>1 DEF ResetStamp
    <3> QED BY <3>1, <3>2
  <2>2. CASE ResetStore(c)
    <3>1. ~overlapped' => \A d \in Callers : caller'[d] # "lock"
      BY <2>2 DEF ResetStore
    <3> QED BY <2>2, <3>1 DEF ResetStore, Later
  <2>3. CASE ResetDropped(c)
    BY <2>3 DEF ResetDropped
  <2>4. CASE Defuse(c)
    BY <2>4 DEF Defuse
  <2>5. CASE Explode(c)
    BY <2>5 DEF Explode
  <2> QED BY <1>4, <2>1, <2>2, <2>3, <2>4, <2>5 DEF CallerStep
<1>5. CASE UNCHANGED vars
  BY <1>5 DEF vars
<1> QED BY <1>1, <1>2, <1>3, <1>4, <1>5 DEF Next

\* For every set of callers no completed reset() is undone while calls of
\* reset() do not overlap, whatever the delay between the clock reading and the
\* mutex in reset().
THEOREM ResetsHold == Spec => []ResetHolds
<1>1. TypeOK /\ SerialInv /\ [Next]_vars => SerialInv'
  BY SerialInvNext
<1>2. SerialInv => ResetHolds
  BY DEF SerialInv, ResetHolds
<1> QED BY <1>1, <1>2, SerialInvInit, TypeCorrect, PTL DEF Spec

\* While calls of reset() do not overlap, main_loop explodes only after every
\* deadline that a reset() asked for which completed before the loop looked, whatever
\* is stored and however long it takes between the look and the explosion.
THEOREM ExplosionsAreDue == Spec => NoEarlyExplosion
<1>1. TypeOK /\ SerialInv /\ [Next]_vars => SerialInv'
  BY SerialInvNext
<1>2. TypeOK /\ SerialInv /\ [Next]_vars =>
        [("loop" \in exploded' \ exploded /\ ~overlapped) => clock > heeded]_vars
  <2> SUFFICES ASSUME TypeOK, SerialInv, Next, "loop" \in exploded' \ exploded, ~overlapped
               PROVE  clock > heeded
    OBVIOUS
  <2>1. LoopExplode
    BY DEF Next, LoopStep, CallerStep, Tick, DropTask, LoopCheck, LoopStamp, LoopRead, LoopSleep,
           LoopWake, ResetStamp, ResetStore, ResetDropped, Defuse, Explode, callerVars
  <2> QED BY <2>1, DoomsdayAssumption DEF LoopExplode, TypeOK, SerialInv, Time
<1> QED BY <1>1, <1>2, SerialInvInit, TypeCorrect, PTL DEF Spec, NoEarlyExplosion

\* A defuse() that finds main_loop asleep is honoured, for every set of callers:
\* the loop checks the flag before it looks at the deadline again.
THEOREM DefuseHonoured == Spec => DefusedAsleepStaysQuiet
<1> DEFINE Quiet == defused /\ pc \in {"sleep", "check", "returned", "cancelled"}
<1>1. Quiet /\ [Next]_vars => Quiet'
  <2> SUFFICES ASSUME Quiet, [Next]_vars PROVE Quiet'
    OBVIOUS
  <2>1. CASE Tick \/ LoopStep \/ DropTask
    BY <2>1 DEF Tick, LoopStep, DropTask, LoopCheck, LoopStamp, LoopRead, LoopExplode, LoopSleep,
                LoopWake, loopVars
  <2>2. ASSUME NEW c \in Callers, CallerStep(c) PROVE Quiet'
    BY <2>2 DEF CallerStep, ResetStamp, ResetStore, ResetDropped, Defuse, Explode, loopVars
  <2>3. CASE UNCHANGED vars
    BY <2>3 DEF vars, loopVars
  <2> QED BY <2>1, <2>2, <2>3 DEF Next
<1>2. defused /\ pc = "sleep" => Quiet
  OBVIOUS
<1>3. Quiet => pc # "panicked"
  OBVIOUS
<1> QED BY <1>1, <1>2, <1>3, PTL DEF Spec, DefusedAsleepStaysQuiet
=============================================================================
