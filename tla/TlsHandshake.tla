---------------------------- MODULE TlsHandshake ----------------------------
(***************************************************************************)
(* HandshakeFuture and AsyncToSyncWrapper, src/src/openssl: TlsConnector    *)
(* ::connect and TlsAcceptor::accept drive OpenSSL's blocking-style         *)
(* handshake from poll().  A poll lends its Context to the wrapper as a raw *)
(* pointer; the transport calls that OpenSSL makes during the poll use it   *)
(* to register the waker.  Two such futures run against each other over a   *)
(* pair of bounded pipes, each in a task of its own.  What the handshake    *)
(* sends and expects is OpenSSL's business: a script of reads and writes.   *)
(***************************************************************************)
EXTENDS Integers, Sequences

CONSTANTS Peers,     \* the two ends
          Script,    \* per peer, the transport calls of its handshake in order
          Capacity   \* bound: messages a pipe holds before poll_write is Pending

ASSUME HandshakeAssumption ==
  /\ Capacity \in Nat \ {0}
  /\ Script \in [Peers -> Seq({"read", "write"})]
  /\ \E p, q \in Peers : p # q /\ Peers = {p, q}

VARIABLES task,     \* the task that awaits the future
          future,   \* the variant of HandshakeFuture
          context,  \* the pointer in the wrapper: null, to the running poll, or dangling
          step,     \* next call of the script, OpenSSL's own state
          waker,    \* the direction whose readiness wakes the task
          pipe      \* per peer, messages it can read

vars == <<task, future, context, step, waker, pipe>>

\* Tasks, variants and pointers have the values the code can give them.
TypeOK ==
  /\ task \in [Peers -> {"runnable", "polling", "parked", "ok", "err", "dropped", "panicked"}]
  /\ future \in [Peers -> {"Initial", "MidHandshake", "Done"}]
  /\ context \in [Peers -> {"null", "live", "dangling"}]
  /\ step \in [Peers -> Nat]
  /\ waker \in [Peers -> {"none", "read", "write"}]
  /\ pipe \in [Peers -> 0 .. Capacity]

Init ==
  /\ task = [p \in Peers |-> "runnable"]
  /\ future = [p \in Peers |-> "Initial"]
  /\ context = [p \in Peers |-> "null"]
  /\ step = [p \in Peers |-> 1]
  /\ waker = [p \in Peers |-> "none"]
  /\ pipe = [p \in Peers |-> 0]

Gone(p) == task[p] \in {"err", "dropped", "panicked"}
Finished(p) == step[p] > Len(Script[p])
Call(p) == Script[p][step[p]]

\* The transport call that p is at would not return Pending: there is something
\* to read, room to write, or the other end is closed and the call fails.
Ready(p, q) == IF Call(p) = "read" THEN pipe[p] > 0 \/ Gone(q) ELSE pipe[q] < Capacity \/ Gone(q)

\* The tasks after an event on q's transport in direction d.
Woken(q, d) == IF task[q] = "parked" /\ waker[q] \in d THEN "runnable" ELSE task[q]

---------------------------------------------------------------------------
CanPoll(p) == future[p] # "Done" /\ context[p] = "null"

\* poll(): the variant is taken out of the future, leaving Done, and the
\* context is stored; a future that is Done panics, and set_context asserts that
\* there was no context.
Poll(p) ==
  /\ task[p] = "runnable"
  /\ task' = [task EXCEPT ![p] = IF CanPoll(p) THEN "polling" ELSE "panicked"]
  /\ context' = [context EXCEPT ![p] = IF CanPoll(p) THEN "live" ELSE @]
  /\ future' = [future EXCEPT ![p] = "Done"]
  /\ waker' = [waker EXCEPT ![p] = "none"]
  /\ UNCHANGED <<step, pipe>>

\* Read::read and Write::write of the wrapper when the transport is ready.
Transport(p, q) ==
  /\ task[p] = "polling" /\ ~Finished(p)
  /\ IF Call(p) = "read" THEN pipe[p] > 0 ELSE pipe[q] < Capacity /\ ~Gone(q)
  /\ IF Call(p) = "read"
     THEN pipe' = [pipe EXCEPT ![p] = @ - 1] /\ task' = [task EXCEPT ![q] = Woken(q, {"write"})]
     ELSE pipe' = [pipe EXCEPT ![q] = @ + 1] /\ task' = [task EXCEPT ![q] = Woken(q, {"read"})]
  /\ step' = [step EXCEPT ![p] = @ + 1]
  /\ UNCHANGED <<future, context, waker>>

\* Mutant: the half-done handshake is not put back.
WouldBlockForgets(p, q) ==
  /\ task[p] = "polling" /\ ~Finished(p) /\ ~Ready(p, q)
  /\ waker' = [waker EXCEPT ![p] = Call(p)]
  /\ context' = [context EXCEPT ![p] = "null"]
  /\ task' = [task EXCEPT ![p] = "parked"]
  /\ UNCHANGED <<future, step, pipe>>

\* Mutant: whatever would block, readability is waited for.
WouldBlockWaitsForRead(p, q) ==
  /\ task[p] = "polling" /\ ~Finished(p) /\ ~Ready(p, q)
  /\ waker' = [waker EXCEPT ![p] = "read"]
  /\ context' = [context EXCEPT ![p] = "null"]
  /\ future' = [future EXCEPT ![p] = "MidHandshake"]
  /\ task' = [task EXCEPT ![p] = "parked"]
  /\ UNCHANGED <<step, pipe>>

\* The transport answers Pending, after registering the waker of the context;
\* the wrapper says WouldBlock, the future keeps the half-done handshake.
WouldBlock(p, q) ==
  /\ task[p] = "polling" /\ ~Finished(p) /\ ~Ready(p, q)
  /\ waker' = [waker EXCEPT ![p] = Call(p)]
  /\ context' = [context EXCEPT ![p] = "null"]
  /\ future' = [future EXCEPT ![p] = "MidHandshake"]
  /\ task' = [task EXCEPT ![p] = "parked"]
  /\ UNCHANGED <<step, pipe>>

\* Mutant: the finished stream is handed out with the context still set.
FinishKeepsContext(p) ==
  /\ task[p] = "polling" /\ Finished(p)
  /\ task' = [task EXCEPT ![p] = "ok"]
  /\ context' = [context EXCEPT ![p] = "dangling"]
  /\ UNCHANGED <<future, step, waker, pipe>>

Finish(p) ==
  /\ task[p] = "polling" /\ Finished(p)
  /\ task' = [task EXCEPT ![p] = "ok"]
  /\ context' = [context EXCEPT ![p] = "null"]
  /\ UNCHANGED <<future, step, waker, pipe>>

\* OpenSSL refuses what it read (a bad certificate, say) or finds the transport
\* closed.  The error owns the stream, context and all; both are dropped with it.
Fail(p, q) ==
  /\ task[p] = "polling" /\ ~Finished(p)
  /\ Gone(q) \/ (Call(p) = "read" /\ pipe[p] > 0)
  /\ task' = [task EXCEPT ![p] = "err", ![q] = Woken(q, {"read", "write"})]
  /\ context' = [context EXCEPT ![p] = "dangling"]
  /\ UNCHANGED <<future, step, waker, pipe>>

\* A timeout around connect or accept drops the future while it waits.
Drop(p, q) ==
  /\ task[p] = "parked"
  /\ task' = [task EXCEPT ![p] = "dropped", ![q] = Woken(q, {"read", "write"})]
  /\ UNCHANGED <<future, context, step, waker, pipe>>

\* A task may be polled although nothing has happened.
SpuriousWake(p) ==
  /\ task[p] = "parked"
  /\ task' = [task EXCEPT ![p] = "runnable"]
  /\ UNCHANGED <<future, context, step, waker, pipe>>

---------------------------------------------------------------------------
PollStep(p, q) == Poll(p) \/ Transport(p, q) \/ WouldBlock(p, q) \/ Finish(p) \/ Fail(p, q)

Next ==
  \E p \in Peers : \E q \in Peers \ {p} : PollStep(p, q) \/ Drop(p, q) \/ SpuriousWake(p)

Spec == Init /\ [][Next]_vars

\* The executor polls a runnable task and a poll runs to its end.
FairSpec == Spec /\ \A p, q \in Peers : p # q => WF_vars(PollStep(p, q))

---------------------------------------------------------------------------
\* The wrapper's pointer is to the running poll when OpenSSL may use it, and
\* null whenever a later poll, of this future or of the TlsStream it returns,
\* will assert so.
ContextOnlyDuringPoll ==
  \A p \in Peers : /\ task[p] = "polling" => context[p] = "live"
                   /\ task[p] \in {"runnable", "parked", "ok"} => context[p] = "null"

\* A handshake never sleeps through the event it waits for.
NoLostWakeup ==
  \A p \in Peers : \A q \in Peers \ {p} : task[p] = "parked" => ~Ready(p, q)

\* Two peers never wait for each other for good, and no poll panics: each
\* handshake returns or is dropped.
HandshakesEnd == <>[](\A p \in Peers : task[p] \in {"ok", "err", "dropped"})
=============================================================================
