------------------------ MODULE TlsConnectionProofs -------------------------
(***************************************************************************)
(* Proofs about an openssl connection for every script of transport calls   *)
(* that the two handshakes may make and every capacity of the pipes between *)
(* them: first the handshake, then the stream that the client gets from it. *)
(***************************************************************************)
EXTENDS TlsConnection, TLAPS

USE HandshakeAssumption, ConnectionAssumption

\* A future that will be polled still has its variant, so the poll does not panic;
\* a parked one is at a transport call, and its waker is registered for that call.
PeerInv(p) ==
  /\ step[p] \in Nat \ {0}
  /\ task[p] # "panicked"
  /\ task[p] = "runnable" => future[p] # "Done"
  /\ task[p] = "parked" => future[p] = "MidHandshake" /\ ~Finished(p) /\ waker[p] = Call(p)

\* The inductive invariant of the handshake.
HandshakeInv ==
  /\ TypeOK
  /\ ContextOnlyDuringPoll
  /\ \A p \in Peers : PeerInv(p)
  /\ NoLostWakeup

\* OpenSSL asks the wrapper to read or to write, and for nothing else.
LEMMA CallTyped ==
  ASSUME NEW p \in Peers, step[p] \in Nat \ {0}, ~Finished(p)
  PROVE  Call(p) \in {"read", "write"}
<1>1. Script[p] \in Seq({"read", "write"})
  OBVIOUS
<1>2. step[p] \in 1 .. Len(Script[p])
  BY <1>1 DEF Finished
<1> QED BY <1>1, <1>2 DEF Call

LEMMA HandshakeInvInit == Init => HandshakeInv
<1> SUFFICES ASSUME Init
             PROVE  HandshakeInv
  OBVIOUS
<1>1. \A p \in Peers : /\ task[p] = "runnable" /\ future[p] = "Initial" /\ context[p] = "null"
                       /\ step[p] = 1 /\ waker[p] = "none" /\ pipe[p] = 0
  BY Zenon DEF Init
<1>2. TypeOK
  <2>1. task \in [Peers -> {"runnable"}] /\ future \in [Peers -> {"Initial"}]
        /\ context \in [Peers -> {"null"}] /\ step \in [Peers -> {1}]
        /\ waker \in [Peers -> {"none"}] /\ pipe \in [Peers -> {0}]
    BY Zenon DEF Init
  <2> QED BY <2>1 DEF TypeOK
<1> QED
  BY <1>1, <1>2 DEF HandshakeInv, ContextOnlyDuringPoll, PeerInv, NoLostWakeup

LEMMA HandshakeInvNext == HandshakeInv /\ [Next]_vars => HandshakeInv'
<1> SUFFICES ASSUME HandshakeInv, [Next]_vars
             PROVE  HandshakeInv'
  OBVIOUS
<1> USE DEF HandshakeInv, TypeOK, ContextOnlyDuringPoll, PeerInv, NoLostWakeup
<1>1. CASE UNCHANGED vars
  BY <1>1 DEF vars, Finished, Call, Ready, Gone
<1>2. ASSUME NEW p \in Peers, NEW q \in Peers \ {p},
             PollStep(p, q) \/ Drop(p, q) \/ SpuriousWake(p)
      PROVE  HandshakeInv'
  <2>0. Peers = {p, q}
    OBVIOUS
  <2>1. CASE Poll(p)
    BY <2>0, <2>1 DEF Poll, CanPoll, Finished, Call, Ready, Gone
  <2>2. CASE Transport(p, q)
    <3>1. task[p] = "polling" /\ task' = [task EXCEPT ![q] = task'[q]]
          /\ task'[q] \in {task[q], "runnable"} /\ (task'[q] # task[q] => task[q] = "parked")
      BY <2>2 DEF Transport, Woken
    <3>2. /\ step' = [step EXCEPT ![p] = @ + 1] /\ UNCHANGED <<future, context, waker>>
          /\ pipe' \in [Peers -> 0 .. Capacity]
      BY <2>2 DEF Transport
    <3>3. TypeOK' /\ ContextOnlyDuringPoll'
      BY <3>1, <3>2
    <3>4. PeerInv(p)' /\ PeerInv(q)'
      BY <3>1, <3>2 DEF Finished, Call
    <3>5. task'[q] = "parked" => ~Ready(q, p)'
      <4>1. CASE Call(p) = "read"
        BY <2>2, <4>1, <3>1, <3>2, CallTyped DEF Transport, Woken, Ready, Gone, Call
      <4>2. CASE Call(p) # "read"
        BY <2>2, <4>2, <3>1, <3>2, CallTyped DEF Transport, Woken, Ready, Gone, Call
      <4> QED BY <4>1, <4>2
    <3> QED BY <2>0, <3>1, <3>3, <3>4, <3>5
  <2>3. CASE WouldBlock(p, q)
    BY <2>0, <2>3, CallTyped DEF WouldBlock, Finished, Call, Ready, Gone
  <2>4. CASE Finish(p)
    BY <2>0, <2>4 DEF Finish, Finished, Call, Ready, Gone
  <2>5. CASE Fail(p, q)
    BY <2>0, <2>5, CallTyped DEF Fail, Finished, Call, Ready, Gone, Woken
  <2>6. CASE Drop(p, q)
    BY <2>0, <2>6, CallTyped DEF Drop, Finished, Call, Ready, Gone, Woken
  <2>7. CASE SpuriousWake(p)
    BY <2>0, <2>7 DEF SpuriousWake, Finished, Call, Ready, Gone
  <2> QED BY <1>2, <2>1, <2>2, <2>3, <2>4, <2>5, <2>6, <2>7 DEF PollStep
<1> QED BY <1>1, <1>2 DEF Next

---------------------------------------------------------------------------
\* A half that was refused the lock is the one the BiLock will wake, and the lock
\* is held.
QueuedIsRegistered ==
  \A h \in S!Halves : half[h] = "queued" => waiter = h /\ locked # None

\* The inductive invariant of the stream: whoever holds the lock has lent its
\* Context, so that no poll of a half panics.
StreamInv ==
  /\ S!TypeOK
  /\ S!ContextBelongsToPoller
  /\ S!ParkedIsRegistered
  /\ QueuedIsRegistered
  /\ lent = locked
  /\ \A h \in S!Halves : half[h] # "panicked"

LEMMA StreamInvInit == S!Init => StreamInv
BY DEF S!Init, StreamInv, S!TypeOK, S!ContextBelongsToPoller, S!ParkedIsRegistered,
       QueuedIsRegistered, S!Halves, S!Directions

LEMMA StreamInvNext == StreamInv /\ S!Next => StreamInv'
<1> SUFFICES ASSUME StreamInv, S!Next
             PROVE  StreamInv'
  OBVIOUS
<1> USE DEF StreamInv, S!TypeOK, S!ContextBelongsToPoller, S!ParkedIsRegistered,
            QueuedIsRegistered, S!Halves, S!Directions
<1>1. ASSUME NEW h \in S!Halves, S!Begin(h) \/ S!Cancel(h)
      PROVE  StreamInv'
  <2>1. PICK t \in {"runnable", "idle"} :
          /\ half[h] # "polling" /\ half' = [half EXCEPT ![h] = t]
          /\ UNCHANGED <<locked, waiter, lent, wakers, ready, result>>
    BY <1>1 DEF S!Begin, S!Cancel
  <2>2. half'[h] = t /\ \A g \in S!Halves \ {h} : half'[g] = half[g]
    BY <2>1
  <2>3. S!TypeOK'
    BY <2>1
  <2> QED BY <2>1, <2>2, <2>3
<1>2. ASSUME NEW h \in S!Halves, S!LockRefused(h)
      PROVE  StreamInv'
  <2>1. half'[h] = "queued" /\ \A g \in S!Halves \ {h} : half'[g] = half[g]
    BY <1>2 DEF S!LockRefused
  <2>2. S!TypeOK'
    BY <1>2 DEF S!LockRefused
  <2>3. S!ContextBelongsToPoller' /\ S!ParkedIsRegistered'
    BY <1>2, <2>1 DEF S!LockRefused
  <2>4. \A g \in S!Halves \ {h} : half[g] # "queued"
    BY <1>2 DEF S!LockRefused
  <2> QED BY <1>2, <2>1, <2>2, <2>3, <2>4 DEF S!LockRefused
<1>3. ASSUME NEW h \in S!Halves, S!PollBegins(h)
      PROVE  StreamInv'
  BY <1>3 DEF S!PollBegins
<1>4. ASSUME NEW h \in S!Halves, NEW d \in S!Directions, S!PollPending(h, d)
      PROVE  StreamInv'
  BY <1>4 DEF S!PollPending, S!Unlocked, S!Without
<1>5. ASSUME NEW d \in S!Directions, S!CloseWouldBlock(d)
      PROVE  StreamInv'
  BY <1>5 DEF S!CloseWouldBlock, S!Unlocked, S!Without
<1>6. ASSUME NEW h \in S!Halves, NEW r \in {"ok", "err"}, S!PollReady(h, r)
      PROVE  StreamInv'
  BY <1>6 DEF S!PollReady, S!Unlocked
<1>7. ASSUME NEW h \in S!Halves, NEW d \in S!Directions, S!Transport(h, d)
      PROVE  StreamInv'
  BY <1>7 DEF S!Transport, S!Without
<1>8. ASSUME NEW d \in S!Directions, S!SocketReady(d)
      PROVE  StreamInv'
  BY <1>8 DEF S!SocketReady
<1>9. ASSUME NEW d \in S!Directions, S!Wake(d)
      PROVE  StreamInv'
  BY <1>9 DEF S!Wake
<1> QED
  BY <1>1, <1>2, <1>3, <1>4, <1>5, <1>6, <1>7, <1>8, <1>9 DEF S!Next, S!PollStep

---------------------------------------------------------------------------
\* The inductive invariant of the connection: the stream is as it was made until
\* the client's handshake has returned it.
ConnectionInv ==
  /\ HandshakeInv
  /\ StreamInv
  /\ task[client] # "ok" => S!Init

LEMMA ConnectionInvInit == ConnectionInit => ConnectionInv
BY HandshakeInvInit, StreamInvInit DEF ConnectionInit, ConnectionInv

LEMMA ConnectionInvNext == ConnectionInv /\ [ConnectionNext]_connectionVars => ConnectionInv'
<1> SUFFICES ASSUME ConnectionInv, [ConnectionNext]_connectionVars
             PROVE  ConnectionInv'
  OBVIOUS
<1>1. CASE UNCHANGED connectionVars
  <2>1. HandshakeInv'
    BY <1>1, HandshakeInvNext DEF ConnectionInv, connectionVars
  <2> QED
    BY <1>1, <2>1 DEF ConnectionInv, connectionVars, vars, streamVars, S!Init, StreamInv, S!TypeOK,
                      S!ContextBelongsToPoller, S!ParkedIsRegistered, QueuedIsRegistered
<1>2. CASE Shaking(Next)
  <2>1. HandshakeInv'
    BY <1>2, HandshakeInvNext DEF ConnectionInv, Shaking
  <2>2. UNCHANGED streamVars
    BY <1>2, <2>1 DEF Shaking, HandshakeInv, ContextOnlyDuringPoll, streamVars
  <2>3. StreamInv'
    BY <2>2 DEF ConnectionInv, streamVars, StreamInv, S!TypeOK, S!ContextBelongsToPoller,
                S!ParkedIsRegistered, QueuedIsRegistered
  <2>4. task[client] = "ok" => task'[client] = "ok"
    <3>1. PICK p \in Peers, q \in Peers :
             p # q /\ (PollStep(p, q) \/ Drop(p, q) \/ SpuriousWake(p))
      BY <1>2 DEF Shaking, Next
    <3>2. TypeOK
      BY DEF ConnectionInv, HandshakeInv
    <3>3. CASE client = p
      BY <3>1, <3>2, <3>3 DEF TypeOK, PollStep, Poll, Transport, WouldBlock, Finish, Fail, Drop,
                              SpuriousWake
    <3>4. CASE client = q
      <4>1. task[q] = "ok" => Woken(q, {"read"}) = "ok" /\ Woken(q, {"write"}) = "ok"
                              /\ Woken(q, {"read", "write"}) = "ok"
        BY DEF Woken
      <4>2. CASE Poll(p) \/ WouldBlock(p, q) \/ Finish(p) \/ SpuriousWake(p)
        BY <3>1, <3>2, <3>4, <4>2 DEF TypeOK, Poll, WouldBlock, Finish, SpuriousWake
      <4>3. CASE Transport(p, q)
        BY <3>1, <3>2, <3>4, <4>1, <4>3 DEF TypeOK, Transport
      <4>4. CASE Fail(p, q) \/ Drop(p, q)
        BY <3>1, <3>2, <3>4, <4>1, <4>4 DEF TypeOK, Fail, Drop
      <4> QED BY <3>1, <4>2, <4>3, <4>4 DEF PollStep
    <3>5. client = p \/ client = q
      BY <3>1
    <3> QED BY <3>3, <3>4, <3>5
  <2> QED BY <2>1, <2>2, <2>3, <2>4 DEF ConnectionInv, streamVars, S!Init
<1>3. CASE Using(S!Next)
  <2>1. HandshakeInv'
    BY <1>3, HandshakeInvNext DEF ConnectionInv, Using
  <2>2. StreamInv'
    BY <1>3, StreamInvNext DEF ConnectionInv, Using
  <2> QED BY <1>3, <2>1, <2>2 DEF ConnectionInv, Using, vars
<1> QED BY <1>1, <1>2, <1>3 DEF ConnectionNext

\* Whatever OpenSSL's handshake reads and writes, AsyncToSyncWrapper points to the
\* running poll while the transport may use it and to nothing when a poll begins.
THEOREM HandshakeContextSafe == ConnectionSpec => []ContextOnlyDuringPoll
<1>1. ConnectionInv => ContextOnlyDuringPoll
  BY DEF ConnectionInv, HandshakeInv
<1> QED BY <1>1, ConnectionInvInit, ConnectionInvNext, PTL DEF ConnectionSpec

\* A HandshakeFuture that is Pending has its waker where the event it waits for
\* will come, so it never sleeps through one.
THEOREM HandshakeWakeupsArrive == ConnectionSpec => []NoLostWakeup
<1>1. ConnectionInv => NoLostWakeup
  BY DEF ConnectionInv, HandshakeInv
<1> QED BY <1>1, ConnectionInvInit, ConnectionInvNext, PTL DEF ConnectionSpec

\* The wrapper below the TlsStream points to the Context of the half that holds the
\* BiLock, from the first poll after the handshake on.
THEOREM StreamContextSafe == ConnectionSpec => []ContextBelongsToPoller
<1>1. ConnectionInv => ContextBelongsToPoller
  BY DEF ConnectionInv, StreamInv, ContextBelongsToPoller
<1> QED BY <1>1, ConnectionInvInit, ConnectionInvNext, PTL DEF ConnectionSpec

\* A half that a Pending socket parked is registered there until the other half's use of
\* the same direction takes the single waker away, which never befalls both halves.
THEOREM ParkedHalvesRegistered == ConnectionSpec => []ParkedIsRegistered
<1>1. ConnectionInv => ParkedIsRegistered
  BY DEF ConnectionInv, StreamInv, ParkedIsRegistered
<1> QED BY <1>1, ConnectionInvInit, ConnectionInvNext, PTL DEF ConnectionSpec

\* Neither the "future polled after completion" of the handshake nor the assertion
\* of set_context is ever met, and a half that waits for the BiLock is the one it wakes.
THEOREM NoPollPanics ==
  ConnectionSpec => []( /\ \A p \in Peers : task[p] # "panicked"
                        /\ \A h \in S!Halves : half[h] # "panicked"
                        /\ QueuedIsRegistered )
<1>1. ConnectionInv => /\ \A p \in Peers : task[p] # "panicked"
                       /\ \A h \in S!Halves : half[h] # "panicked"
                       /\ QueuedIsRegistered
  BY DEF ConnectionInv, HandshakeInv, PeerInv, StreamInv
<1> QED BY <1>1, ConnectionInvInit, ConnectionInvNext, PTL DEF ConnectionSpec

\* The client's stream is a TlsStream from the start: the handshake that makes it
\* leaves no trace in the wrapper that TlsStream's specification does not allow.
THEOREM StreamImplemented == ConnectionSpec => S!Spec
<1>1. ConnectionInit => S!Init
  BY DEF ConnectionInit
<1>2. ConnectionInv /\ ConnectionInv' /\ [ConnectionNext]_connectionVars => [S!Next]_(S!vars)
  <2> SUFFICES ASSUME ConnectionInv', [ConnectionNext]_connectionVars
               PROVE  [S!Next]_(S!vars)
    OBVIOUS
  <2>1. CASE Shaking(Next)
    BY <2>1 DEF Shaking, ConnectionInv, HandshakeInv, ContextOnlyDuringPoll, S!vars
  <2>2. CASE Using(S!Next)
    BY <2>2 DEF Using
  <2>3. CASE UNCHANGED connectionVars
    BY <2>3 DEF connectionVars, streamVars, S!vars
  <2> QED BY <2>1, <2>2, <2>3 DEF ConnectionNext
<1> QED BY <1>1, <1>2, ConnectionInvInit, ConnectionInvNext, PTL DEF ConnectionSpec, S!Spec
=============================================================================
