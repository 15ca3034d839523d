--------------------------- MODULE TlsConnection ----------------------------
(***************************************************************************)
(* An openssl connection from its handshake to its use.  Two peers shake    *)
(* hands (TlsHandshake); the TlsStream that the client's future returns is  *)
(* split and used by two tasks (TlsStream) while the server may still be at *)
(* its handshake.  The AsyncToSyncWrapper goes from the one to the other    *)
(* with the context pointer it has.                                         *)
(***************************************************************************)
EXTENDS TlsHandshake

CONSTANTS client, server, None

ASSUME ConnectionAssumption ==
  /\ Peers = {client, server}
  /\ None \notin {"read", "write"}

VARIABLES half, locked, waiter, lent, wakers, ready, result  \* of the client's TlsStream

streamVars == <<half, locked, waiter, lent, wakers, ready, result>>
connectionVars == <<vars, streamVars>>

\* Three flights over pipes that hold fewer messages than a flight has, so that
\* readers and writers both block; the server sends its last message while the
\* client's last flight is still under way.
Flights ==
  [p \in {client, server} |->
     IF p = client
     THEN <<"write", "write", "write", "read", "read", "read", "read", "write", "write", "read">>
     ELSE <<"read", "read", "read", "write", "write", "write", "write", "write", "read", "read">>]

S == INSTANCE TlsStream WITH context <- lent, waker <- wakers

ConnectionInit == Init /\ S!Init

\* A step of the handshake; the poll that ends the client's hands the wrapper over.
Shaking(A) ==
  /\ A
  /\ lent' = IF task'[client] = "ok" /\ context'[client] # "null" THEN "stale" ELSE lent
  /\ UNCHANGED <<half, locked, waiter, wakers, ready, result>>

\* A step of the stream, once there is one.
Using(A) == task[client] = "ok" /\ A /\ UNCHANGED vars

ConnectionNext == Shaking(Next) \/ Using(S!Next)

\* Tasks that are awake are polled, polls end, the peer keeps the socket going and the
\* reactor runs.
ConnectionSpec ==
  /\ ConnectionInit /\ [][ConnectionNext]_connectionVars
  /\ \A p, q \in Peers : p # q => WF_connectionVars(Shaking(PollStep(p, q)))
  /\ \A h \in {"read", "write"} : WF_connectionVars(Using(S!PollStep(h)))
  /\ \A d \in {"in", "out"} : /\ WF_connectionVars(Using(S!SocketReady(d)))
                              /\ WF_connectionVars(Using(S!Wake(d)))

---------------------------------------------------------------------------
\* The stream's wrapper, from the moment the handshake hands it over, points to the
\* Context of the poll that holds the lock and to no other: the first poll of a half
\* finds what the last poll of the handshake left.
ContextBelongsToPoller == S!ContextBelongsToPoller

\* A half that waits for the socket has its waker there, unless the other half took
\* its place, and never are both halves forgotten.
ParkedIsRegistered == S!ParkedIsRegistered

\* A half that waits for the lock or the socket is polled again, or forgotten when
\* the other half used the direction it waits for.
WaitingHalfIsPolled == S!WaitingHalfIsPolled

\* The halves never wait both for good: one of them goes on.
StreamNeverHangs == S!StreamNeverHangs
=============================================================================
