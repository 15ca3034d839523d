-------------------------- MODULE ConnectorProofs ---------------------------
(***************************************************************************)
(* Proofs about the connectors for any number of calls, descriptors and     *)
(* domains, any of the five back ends and either build.                     *)
(***************************************************************************)
EXTENDS Connector, TLAPS

USE ConnectorAssumption

\* connect has a TcpStream of its own and has not returned.
Underway(c) == pc[c] \in {"nodelay", "keepalive", "name", "handshake"}

\* A socket is held for c: by connect or by the halves it returned.
Holds(c) == Underway(c) \/ (pc[c] = "connected" /\ connector[c].backend # "ws")

\* The socket that c holds is the one its noted descriptor names, and it is tuned
\* as far as control has come.
HeldSocket(c) ==
  /\ connector[c].backend # "ws"
  /\ fd[c] \in Fds /\ owner[fd[c]] = c
  /\ pc[c] = "nodelay" => options[fd[c]] = {}
  /\ pc[c] = "keepalive" => options[fd[c]] = SocketOpts(connector[c]) \cap {"nodelay"}
  /\ pc[c] \notin {"nodelay", "keepalive"} => options[fd[c]] = SocketOpts(connector[c])

\* The inductive invariant.  A call holds at most one socket, and one only where
\* Holds says so; a free descriptor starts without options; halves are alive
\* exactly after connect has returned; and only the websocket connector returns
\* something other than a descriptor.
ConnectorInv ==
  /\ TypeOK
  /\ \A c \in Calls : Holds(c) => HeldSocket(c)
  /\ \A c \in Calls, f \in Fds : owner[f] = c => Holds(c) /\ fd[c] = f
  /\ \A f \in Fds : owner[f] = None => options[f] = {}
  /\ \A c \in Calls : halves[c] # {} <=> pc[c] = "connected"
  /\ \A c \in Calls : pc[c] = "connected" /\ connector[c].backend = "ws" => fd[c] = Address

LEMMA ConnectorInvInit == Init => ConnectorInv
BY DEF Init, ConnectorInv, TypeOK, Holds, Underway

\* Every connector belongs to one of the back ends of the build.
LEMMA BackendOfConnector ==
  ASSUME NEW k \in Connectors
  PROVE  k.backend \in Backends
BY DEF Connectors

\* new_domain gives a connector of the same kind.
LEMMA NewDomainIsConnector ==
  ASSUME NEW k \in Connectors, NEW d \in Domains
  PROVE  (IF k.anonymous THEN k ELSE [k EXCEPT !.domain = d]) \in Connectors
<1>1. CASE k.anonymous
  BY <1>1
<1>2. CASE ~k.anonymous
  <2>1. k \in [backend : Backends \ {"ws", "tcp"}, anonymous : {FALSE}, domain : Domains]
    BY <1>2 DEF Connectors
  <2> QED BY <1>2, <2>1 DEF Connectors
<1> QED BY <1>1, <1>2

\* set_nodelay and set_tcp_keepalive together set what the connector asks for.
LEMMA OptionsAddUp ==
  ASSUME NEW k
  PROVE  (SocketOpts(k) \cap {"nodelay"}) \cup KeepaliveOpts = SocketOpts(k)
BY DEF SocketOpts

\* The steps that end connect with an error close the socket they hold.
LEMMA AbandonKeepsInv ==
  ASSUME ConnectorInv, NEW c \in Calls, pc[c] # "connected", Abandon(c)
  PROVE  ConnectorInv'
<1> USE DEF Abandon, Goto, Close
<1>1. TypeOK'
  BY DEF ConnectorInv, TypeOK
<1> QED
  BY <1>1 DEF ConnectorInv, TypeOK, Holds, Underway, HeldSocket

LEMMA ConnectorInvNext == ConnectorInv /\ [Next]_vars => ConnectorInv'
<1> SUFFICES ASSUME ConnectorInv, [Next]_vars
             PROVE  ConnectorInv'
  OBVIOUS
<1> USE DEF ConnectorInv, TypeOK
<1>1. CASE UNCHANGED vars
  BY <1>1 DEF vars, Holds, Underway, HeldSocket
<1>2. ASSUME NEW c \in Calls, NEW d \in Domains, new_domain(c, d)
      PROVE  ConnectorInv'
  <2>1. connector' \in [Calls -> Connectors]
    <3> DEFINE k == IF connector[c].anonymous THEN connector[c] ELSE [connector[c] EXCEPT !.domain = d]
    <3>1. connector' = [connector EXCEPT ![c] = k]
      BY <1>2 DEF new_domain
    <3>2. k \in Connectors
      BY NewDomainIsConnector
    <3> QED BY <3>1, <3>2
  <2> QED BY <1>2, <2>1 DEF new_domain, Holds, Underway, HeldSocket
<1>3. ASSUME NEW c \in Calls, connect(c)
      PROVE  ConnectorInv'
  BY <1>3 DEF connect, Goto, Holds, Underway, HeldSocket
<1>4. ASSUME NEW c \in Calls, NEW f \in Fds, Dialled(c, f)
      PROVE  ConnectorInv'
  BY <1>4 DEF Dialled, Goto, Holds, Underway, HeldSocket
<1>5. ASSUME NEW c \in Calls, WsConnected(c)
      PROVE  ConnectorInv'
  BY <1>5 DEF WsConnected, Goto, Holds, Underway, HeldSocket, Halves
<1>6. ASSUME NEW c \in Calls, NodelaySet(c)
      PROVE  ConnectorInv'
  BY <1>6 DEF NodelaySet, Goto, Holds, Underway, HeldSocket
<1>7. ASSUME NEW c \in Calls, KeepaliveSet(c)
      PROVE  ConnectorInv'
  <2>1. connector[c].backend \in {"tcp", "rustls", "native", "openssl"}
    BY <1>7, BackendOfConnector DEF KeepaliveSet, Holds, Underway, HeldSocket
  <2> DEFINE next == CASE connector[c].backend = "tcp" -> "connected"
                       [] connector[c].backend = "rustls" -> "name"
                       [] connector[c].backend \in {"native", "openssl"} -> "handshake"
  <2>2. pc' = [pc EXCEPT ![c] = next]
    BY <1>7 DEF KeepaliveSet, Goto
  <2>3. /\ connector[c].backend = "tcp" => next = "connected"
        /\ connector[c].backend = "rustls" => next = "name"
        /\ connector[c].backend \in {"native", "openssl"} => next = "handshake"
    BY Zenon
  <2> HIDE DEF next
  <2>4. /\ pc[c] = "keepalive"
        /\ options' = [options EXCEPT ![fd[c]] = @ \cup KeepaliveOpts]
        /\ halves' = [halves EXCEPT ![c] = IF connector[c].backend = "tcp" THEN Halves ELSE {}]
        /\ UNCHANGED <<connector, fd, owner>>
    BY <1>7 DEF KeepaliveSet
  <2>5. TypeOK'
    BY <2>1, <2>2, <2>3, <2>4 DEF Holds, Underway, HeldSocket
  <2>6. HeldSocket(c) /\ options'[fd[c]] = SocketOpts(connector[c])
    BY <2>4, OptionsAddUp DEF Holds, Underway, HeldSocket
  <2>7. pc'[c] \in {"connected", "name", "handshake"} /\ (pc'[c] = "connected" <=> halves'[c] # {})
    BY <2>1, <2>2, <2>3, <2>4 DEF Halves
  <2>8. HeldSocket(c)' /\ Holds(c)'
    BY <2>4, <2>6, <2>7 DEF Holds, Underway, HeldSocket
  <2>9. \A e \in Calls \ {c} : /\ Holds(e)' <=> Holds(e)
                               /\ Holds(e) => HeldSocket(e)'
                               /\ pc'[e] = pc[e] /\ halves'[e] = halves[e]
    BY <2>2, <2>4, <2>6 DEF Holds, Underway, HeldSocket
  <2> QED
    BY <2>4, <2>5, <2>6, <2>7, <2>8, <2>9 DEF HeldSocket
<1>8. ASSUME NEW c \in Calls,
             Refused(c) \/ SocketOptsFail(c) \/ NameInvalid(c) \/ HandshakeFails(c) \/ Cancelled(c)
      PROVE  ConnectorInv'
  <2>1. pc[c] # "connected" /\ Abandon(c)
    BY <1>8 DEF Refused, SocketOptsFail, NameInvalid, HandshakeFails, Cancelled
  <2> QED BY <2>1, AbandonKeepsInv
<1>9. ASSUME NEW c \in Calls, NameParsed(c)
      PROVE  ConnectorInv'
  BY <1>9 DEF NameParsed, Goto, Holds, Underway, HeldSocket
<1>10. ASSUME NEW c \in Calls, Handshake(c)
       PROVE  ConnectorInv'
  BY <1>10 DEF Handshake, Goto, Holds, Underway, HeldSocket, Halves
<1>11. ASSUME NEW c \in Calls, NEW h \in Halves, DropHalf(c, h)
       PROVE  ConnectorInv'
  <2>1. CASE halves'[c] = {}
    BY <1>11, <2>1 DEF DropHalf, Close, Holds, Underway, HeldSocket
  <2>2. CASE halves'[c] # {}
    BY <1>11, <2>2 DEF DropHalf, Holds, Underway, HeldSocket
  <2> QED BY <2>1, <2>2
<1> QED
  BY <1>1, <1>2, <1>3, <1>4, <1>5, <1>6, <1>7, <1>8, <1>9, <1>10, <1>11 DEF Next, Proceed

\* The descriptor that connect returned names its own connection while a half is
\* alive: numbers the kernel hands out again never belong to two connections.
THEOREM DescriptorNamesConnection == Spec => []FdNamesConnection
<1>1. ConnectorInv => FdNamesConnection
  BY DEF ConnectorInv, FdNamesConnection, Holds, HeldSocket
<1> QED BY <1>1, ConnectorInvInit, ConnectorInvNext, PTL DEF Spec

\* No error path, cancellation or drop of connect leaves an open socket behind.
THEOREM SocketsNeverLeak == Spec => []NoSocketLeaks
<1>1. ConnectorInv => NoSocketLeaks
  BY DEF ConnectorInv, NoSocketLeaks, Holds, Underway
<1> QED BY <1>1, ConnectorInvInit, ConnectorInvNext, PTL DEF Spec

\* What connect hands out has exactly the socket options of its connector.
THEOREM HandedOutConnectionsTuned == Spec => []HandedOutTuned
<1>1. ConnectorInv => HandedOutTuned
  BY DEF ConnectorInv, HandedOutTuned, Holds, Underway, HeldSocket
<1> QED BY <1>1, ConnectorInvInit, ConnectorInvNext, PTL DEF Spec
=============================================================================
