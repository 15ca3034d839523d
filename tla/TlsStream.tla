----------------------------- MODULE TlsStream ------------------------------
(***************************************************************************)
(* An established TlsStream of src/src/openssl/stream.rs after              *)
(* split_connection: a read half and a write half, each in a task of its    *)
(* own, share the one stream behind a BiLock.  Every poll of a half lends   *)
(* its Context to the AsyncToSyncWrapper below OpenSSL.  Either half may    *)
(* need either direction of the socket (a read may have to answer a key     *)
(* update, a write may have to wait for one), and async_net's TcpStream     *)
(* keeps a single waker per direction: a poll that would block replaces it, *)
(* and one that gets through drops it, without a word to its task.          *)
(***************************************************************************)
EXTENDS Integers

CONSTANTS None

Halves == {"read", "write"}
Directions == {"in", "out"}

VARIABLES half,     \* per half, the task that uses it
          locked,   \* the half that holds the BiLock, or None
          waiter,   \* the half whose waker the BiLock keeps, or None
          context,  \* whose Context the wrapper points to, or None
          waker,    \* per direction of the socket, the half to wake, or None
          ready,    \* the directions in which the kernel would not block
          result    \* per half, how its last operation ended

vars == <<half, locked, waiter, context, waker, ready, result>>

\* The tasks, the lock and the registered wakers have values the code can give them.
TypeOK ==
  /\ half \in [Halves -> {"idle", "runnable", "queued", "polling", "parked", "forgotten",
                         "panicked"}]
  /\ {locked, waiter, context} \subseteq Halves \cup {None}
  /\ waker \in [Directions -> Halves \cup {None}]
  /\ ready \subseteq Directions
  /\ result \in [Halves -> {"ok", "err"}]

Init ==
  /\ half = [h \in Halves |-> "idle"]
  /\ locked = None /\ waiter = None /\ context = None
  /\ waker = [d \in Directions |-> None]
  /\ ready = {}
  /\ result = [h \in Halves |-> "ok"]

\* A task begins to await read, write, flush or close on its half.
Begin(h) ==
  /\ half[h] = "idle" /\ half' = [half EXCEPT ![h] = "runnable"]
  /\ UNCHANGED <<locked, waiter, context, waker, ready, result>>

---------------------------------------------------------------------------
\* The poll of a half first asks for the lock; a refused poll leaves its waker.
LockRefused(h) ==
  /\ half[h] = "runnable" /\ locked # None
  /\ half' = [half EXCEPT ![h] = "queued"]
  /\ waiter' = h
  /\ UNCHANGED <<locked, context, waker, ready, result>>

\* With the lock, with_context stores the Context; set_context asserts that the
\* wrapper has none.
PollBegins(h) ==
  /\ half[h] = "runnable" /\ locked = None
  /\ locked' = h
  /\ half' = [half EXCEPT ![h] = IF context = None THEN "polling" ELSE "panicked"]
  /\ context' = IF context = None THEN h ELSE context
  /\ UNCHANGED <<waiter, waker, ready, result>>

\* The tasks when the socket keeps the wakers w: a parked one that is not among
\* them is forgotten.
Without(w) ==
  [g \in Halves |-> IF half[g] = "parked" /\ \A d \in Directions : w[d] # g THEN "forgotten" ELSE half[g]]

\* OpenSSL uses up what the socket has in direction d and goes on.  The socket
\* drops the waker it has for d, whosever it is.
Transport(h, d) ==
  /\ half[h] = "polling" /\ d \in ready
  /\ ready' = ready \ {d}
  /\ waker' = [waker EXCEPT ![d] = None]
  /\ half' = Without(waker')
  /\ UNCHANGED <<locked, waiter, context, result>>

\* Mutant: nobody is told that the lock is free.
UnlockedSilently(tasks) == tasks

\* The tasks after the lock is given back: its waiter is runnable.
Unlocked(tasks) ==
  [g \in Halves |-> IF g = waiter /\ tasks[g] = "queued" THEN "runnable" ELSE tasks[g]]

\* Mutant: every error is taken for WouldBlock.
PollReadyPends(h, r) ==
  /\ half[h] = "polling"
  /\ context' = None /\ locked' = None /\ waiter' = None
  /\ half' = [Unlocked(half) EXCEPT ![h] = IF r = "ok" THEN "idle" ELSE "parked"]
  /\ result' = [result EXCEPT ![h] = r]
  /\ UNCHANGED <<waker, ready>>

\* result_to_poll: the operation has its result, Ok or an error of OpenSSL or the
\* socket.
PollReady(h, r) ==
  /\ half[h] = "polling"
  /\ context' = None /\ locked' = None /\ waiter' = None
  /\ half' = [Unlocked(half) EXCEPT ![h] = "idle"]
  /\ result' = [result EXCEPT ![h] = r]
  /\ UNCHANGED <<waker, ready>>

\* Mutant: the Context stays in the wrapper after a poll that would block.
PollPendingKeepsContext(h, d) ==
  /\ half[h] = "polling" /\ d \notin ready
  /\ waker' = [waker EXCEPT ![d] = context]
  /\ locked' = None /\ waiter' = None
  /\ half' = [Unlocked(Without(waker')) EXCEPT ![h] = "parked"]
  /\ UNCHANGED <<context, ready, result>>

\* Mutant: the wrapper says WouldBlock without passing the Context on.
PollPendingUnregistered(h, d) ==
  /\ half[h] = "polling" /\ d \notin ready
  /\ context' = None /\ locked' = None /\ waiter' = None
  /\ half' = [Unlocked(half) EXCEPT ![h] = "parked"]
  /\ UNCHANGED <<waker, ready, result>>

\* A direction OpenSSL needs is not ready: the socket keeps the waker of the Context
\* the wrapper points to, in the place of the one it had; WouldBlock becomes Pending.
PollPending(h, d) ==
  /\ half[h] = "polling" /\ d \notin ready
  /\ waker' = [waker EXCEPT ![d] = context]
  /\ context' = None /\ locked' = None /\ waiter' = None
  /\ half' = [Unlocked(Without(waker')) EXCEPT ![h] = "parked"]
  /\ UNCHANGED <<ready, result>>

\* poll_close: a shutdown that would block is an error, not Pending; the waker it
\* registered on the way stays.
CloseWouldBlock(d) ==
  /\ half["write"] = "polling" /\ d \notin ready
  /\ waker' = [waker EXCEPT ![d] = context]
  /\ context' = None /\ locked' = None /\ waiter' = None
  /\ half' = [Unlocked(Without(waker')) EXCEPT !["write"] = "idle"]
  /\ result' = [result EXCEPT !["write"] = "err"]
  /\ UNCHANGED ready

---------------------------------------------------------------------------
\* The peer makes direction d ready ...
SocketReady(d) ==
  /\ d \notin ready /\ ready' = ready \cup {d}
  /\ UNCHANGED <<half, locked, waiter, context, waker, result>>

\* ... and the reactor comes to know of it and uses the waker, which wakes a task
\* from whatever it waits for.  (A forgotten one has no waker.)
Wake(d) ==
  /\ d \in ready /\ waker[d] # None
  /\ half' = [g \in Halves |-> IF g = waker[d] /\ half[g] \in {"queued", "parked"} THEN "runnable" ELSE half[g]]
  /\ waker' = [waker EXCEPT ![d] = None]
  /\ UNCHANGED <<locked, waiter, context, ready, result>>

\* The future of an operation is dropped while it waits, by a timeout, say.  Its
\* waker stays where it is registered.
Cancel(h) ==
  /\ half[h] \in {"runnable", "queued", "parked", "forgotten"}
  /\ half' = [half EXCEPT ![h] = "idle"]
  /\ UNCHANGED <<locked, waiter, context, waker, ready, result>>

PollStep(h) ==
  \/ LockRefused(h) \/ PollBegins(h)
  \/ \E d \in Directions : PollPending(h, d) \/ (h = "write" /\ CloseWouldBlock(d))
  \/ \E r \in {"ok", "err"} : PollReady(h, r)

Next ==
  \/ \E h \in Halves : Begin(h) \/ PollStep(h) \/ Cancel(h)
  \/ \E h \in Halves, d \in Directions : Transport(h, d)
  \/ \E d \in Directions : SocketReady(d) \/ Wake(d)

Spec == Init /\ [][Next]_vars

\* A runnable task is polled, a poll ends, the peer keeps the socket going and the
\* reactor runs.
FairSpec ==
  /\ Spec
  /\ \A h \in Halves : WF_vars(PollStep(h))
  /\ \A d \in Directions : WF_vars(SocketReady(d)) /\ WF_vars(Wake(d))

---------------------------------------------------------------------------
\* The wrapper's pointer is the Context of the poll that holds the lock, and of
\* no other: neither assertion of the wrapper fails and no dead Context is used.
ContextBelongsToPoller ==
  /\ \A h \in Halves : half[h] = "polling" <=> (context = h /\ locked = h)
  /\ locked = None => context = None

\* A half that waits for the socket has its waker there, unless the other half took
\* its place: no error, close or cancelled operation leaves a half waiting for nothing.
\* Never are both halves forgotten.
ParkedIsRegistered ==
  /\ \A h \in Halves : half[h] = "parked" => \E d \in Directions : waker[d] = h
  /\ \E h \in Halves : half[h] # "forgotten"

\* A half that waits for the lock or the socket is polled again, or forgotten when
\* the other half used the direction it waits for.
WaitingHalfIsPolled ==
  \A h \in Halves : half[h] \in {"queued", "parked"} ~> half[h] \notin {"queued", "parked"}

Waiting(h) == half[h] \in {"queued", "parked", "forgotten"}

\* The halves never wait for each other or for a lost waker both for good: one of them
\* goes on.
StreamNeverHangs == (\A h \in Halves : Waiting(h)) ~> \E h \in Halves : ~Waiting(h)
=============================================================================
