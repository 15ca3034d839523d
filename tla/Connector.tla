----------------------------- MODULE Connector ------------------------------
(***************************************************************************)
(* The TcpDomainConnectors: the plain and the websocket one of net/mod.rs   *)
(* and the anonymous and domain connectors of native_tls.rs, rust_tls.rs    *)
(* and openssl/connector.rs.  connect dials and sets socket options         *)
(* (net/tcp_stream.rs), notes the raw descriptor, shakes hands and returns  *)
(* two halves and the descriptor.  The halves own the socket together; the  *)
(* descriptor owns nothing, and the kernel hands its number out again as    *)
(* soon as the socket is closed.                                            *)
(***************************************************************************)
EXTENDS Integers, FiniteSets

CONSTANTS Calls,     \* tasks that connect, one connection at a time each
          Fds,       \* descriptor numbers
          Domains,   \* names a TLS connector can be given
          Address,   \* what connect is called with: "host:port"
          Backends,  \* the connectors to explore: a subset of the five below
          Windows    \* the build, where keepalive has no number of retries

None == "none"
Localhost == "localhost"
Halves == {"write", "read"}

ASSUME ConnectorAssumption ==
  /\ Backends \subseteq {"ws", "tcp", "native", "rustls", "openssl"}
  /\ Windows \in BOOLEAN
  /\ Address \notin Domains
  /\ None \notin Calls

\* A boxed TcpDomainConnector; anonymous and plain ones have no domain of their own.
Connectors ==
  [backend : Backends, anonymous : {TRUE}, domain : {Localhost}]
    \cup [backend : Backends \ {"ws", "tcp"}, anonymous : {FALSE}, domain : Domains]

VARIABLES connector,  \* per call, its connector
          pc,         \* per call, control of connect
          fd,         \* per call, the descriptor connect noted
          halves,     \* per call, the halves that are alive
          owner,      \* per descriptor, the call whose socket it names, or None
          options     \* per descriptor, what is set on the socket

vars == <<connector, pc, fd, halves, owner, options>>

\* KeepaliveOpts::default and its conversion to a TcpKeepalive.
KeepaliveOpts == {"time", "interval"} \cup (IF Windows THEN {} ELSE {"retries"})

\* The SocketOpts of a connector: keepalive for all, nodelay for two of them.
SocketOpts(k) ==
  KeepaliveOpts \cup
    (IF <<k.backend, k.anonymous>> \in {<<"native", FALSE>>, <<"openssl", TRUE>>} THEN {"nodelay"} ELSE {})

\* Connectors, descriptors and halves are what the code passes around.
TypeOK ==
  /\ connector \in [Calls -> Connectors]
  /\ pc \in [Calls -> {"idle", "dial", "nodelay", "keepalive", "name", "handshake", "connected"}]
  /\ fd \in [Calls -> Fds \cup {None, Address}]
  /\ halves \in [Calls -> SUBSET Halves]
  /\ owner \in [Fds -> Calls \cup {None}]
  /\ options \in [Fds -> SUBSET (KeepaliveOpts \cup {"nodelay"})]

Init ==
  /\ connector \in [Calls -> Connectors]
  /\ pc = [c \in Calls |-> "idle"]
  /\ fd = [c \in Calls |-> None]
  /\ halves = [c \in Calls |-> {}]
  /\ owner = [f \in Fds |-> None] /\ options = [f \in Fds |-> {}]

Goto(c, label) == pc' = [pc EXCEPT ![c] = label]

\* The socket of c, if it has one, is closed.
Close(c) ==
  /\ owner' = [f \in Fds |-> IF owner[f] = c THEN None ELSE owner[f]]
  /\ options' = [f \in Fds |-> IF owner[f] = c THEN {} ELSE options[f]]

\* Mutant: the error path keeps the socket.
AbandonLeaks(c) ==
  /\ Goto(c, "idle")
  /\ UNCHANGED <<connector, fd, halves, owner, options>>

\* connect ends with an error, or is dropped: the stream is dropped with it.
Abandon(c) ==
  /\ Goto(c, "idle")
  /\ Close(c)
  /\ UNCHANGED <<connector, fd, halves>>

---------------------------------------------------------------------------
\* new_domain: the connectors without a domain answer with a copy of themselves.
new_domain(c, d) ==
  /\ pc[c] = "idle" /\ halves[c] = {}
  /\ connector' = [connector EXCEPT ![c] = IF @.anonymous THEN @ ELSE [@ EXCEPT !.domain = d]]
  /\ UNCHANGED <<pc, fd, halves, owner, options>>

connect(c) ==
  /\ pc[c] = "idle" /\ halves[c] = {} /\ Goto(c, "dial")
  /\ fd' = [fd EXCEPT ![c] = None]
  /\ UNCHANGED <<connector, halves, owner, options>>

\* TcpStream::connect succeeds with any free number ...
Dialled(c, f) ==
  /\ pc[c] = "dial" /\ connector[c].backend # "ws" /\ Goto(c, "nodelay")
  /\ owner[f] = None /\ owner' = [owner EXCEPT ![f] = c]
  /\ fd' = [fd EXCEPT ![c] = f]
  /\ UNCHANGED <<connector, halves, options>>

Refused(c) == pc[c] = "dial" /\ Abandon(c)

\* The websocket connector is done then, and returns the address for a descriptor.
WsConnected(c) ==
  /\ pc[c] = "dial" /\ connector[c].backend = "ws" /\ Goto(c, "connected")
  /\ fd' = [fd EXCEPT ![c] = Address]
  /\ halves' = [halves EXCEPT ![c] = Halves]
  /\ UNCHANGED <<connector, owner, options>>

\* ... nodelay is set, if asked for ...
NodelaySet(c) ==
  /\ pc[c] = "nodelay" /\ Goto(c, "keepalive")
  /\ options' = [options EXCEPT ![fd[c]] = @ \cup (SocketOpts(connector[c]) \cap {"nodelay"})]
  /\ UNCHANGED <<connector, fd, halves, owner>>

\* ... and keepalive, ...
KeepaliveSet(c) ==
  /\ pc[c] = "keepalive"
  /\ options' = [options EXCEPT ![fd[c]] = @ \cup KeepaliveOpts]
  /\ Goto(c, CASE connector[c].backend = "tcp" -> "connected"
               [] connector[c].backend = "rustls" -> "name"
               [] connector[c].backend \in {"native", "openssl"} -> "handshake")
  /\ halves' = [halves EXCEPT ![c] = IF connector[c].backend = "tcp" THEN Halves ELSE {}]
  /\ UNCHANGED <<connector, fd, owner>>

\* Mutant: an option that cannot be set is skipped.
SocketOptsSkipped(c) ==
  /\ pc[c] = "nodelay" /\ SocketOpts(connector[c]) # KeepaliveOpts /\ Goto(c, "keepalive")
  /\ UNCHANGED <<connector, fd, halves, owner, options>>

\* ... which may fail.
SocketOptsFail(c) ==
  /\ \/ pc[c] = "nodelay" /\ "nodelay" \in SocketOpts(connector[c])
     \/ pc[c] = "keepalive"
  /\ Abandon(c)

\* The name rustls is to expect: the argument of connect or the domain.
ServerName(c) == IF connector[c].anonymous THEN Address ELSE connector[c].domain

\* rustls parses the name, which must not have a port ...
NameParsed(c) ==
  /\ pc[c] = "name" /\ ServerName(c) # Address
  /\ Goto(c, "handshake")
  /\ UNCHANGED <<connector, fd, halves, owner, options>>

NameInvalid(c) == pc[c] = "name" /\ ServerName(c) = Address /\ Abandon(c)

\* ... and the handshake leaves a stream that is split in two.
Handshake(c) ==
  /\ pc[c] = "handshake" /\ Goto(c, "connected")
  /\ halves' = [halves EXCEPT ![c] = Halves]
  /\ UNCHANGED <<connector, fd, owner, options>>

HandshakeFails(c) == pc[c] = "handshake" /\ Abandon(c)

\* The future of connect is dropped at one of its awaits.
Cancelled(c) == pc[c] \in {"dial", "handshake"} /\ Abandon(c)

\* Mutant: the first half to go closes the socket.
DropHalfCloses(c, h) ==
  /\ pc[c] = "connected" /\ h \in halves[c]
  /\ halves' = [halves EXCEPT ![c] = @ \ {h}]
  /\ Close(c)
  /\ pc' = IF halves'[c] = {} THEN [pc EXCEPT ![c] = "idle"] ELSE pc
  /\ UNCHANGED <<connector, fd>>

\* A half is dropped; the last one closes the socket.
DropHalf(c, h) ==
  /\ pc[c] = "connected" /\ h \in halves[c]
  /\ halves' = [halves EXCEPT ![c] = @ \ {h}]
  /\ IF halves'[c] = {} THEN Close(c) ELSE UNCHANGED <<owner, options>>
  /\ pc' = IF halves'[c] = {} THEN [pc EXCEPT ![c] = "idle"] ELSE pc
  /\ UNCHANGED <<connector, fd>>

---------------------------------------------------------------------------
Proceed(c) ==
  \/ \E f \in Fds : Dialled(c, f)
  \/ Refused(c) \/ WsConnected(c) \/ NodelaySet(c) \/ KeepaliveSet(c) \/ SocketOptsFail(c)
  \/ NameParsed(c) \/ NameInvalid(c) \/ Handshake(c) \/ HandshakeFails(c)

Next ==
  \E c \in Calls :
    \/ \E d \in Domains : new_domain(c, d)
    \/ connect(c) \/ Proceed(c) \/ Cancelled(c)
    \/ \E h \in Halves : DropHalf(c, h)

Spec == Init /\ [][Next]_vars

---------------------------------------------------------------------------
\* The descriptor that connect returned names its own connection as long as one
\* of the halves is alive, whatever other connections come and go.
FdNamesConnection ==
  \A c \in Calls : halves[c] # {} /\ fd[c] # Address => owner[fd[c]] = c

\* An open socket belongs to a connect under way or to a half that is alive: no
\* error, cancellation or drop leaves one behind.
NoSocketLeaks ==
  \A c \in Calls : (\E f \in Fds : owner[f] = c)
                     => pc[c] \in {"nodelay", "keepalive", "name", "handshake"} \/ halves[c] # {}

\* A connection that is handed out has all socket options of its connector and no
\* others, whatever failed before and whoever had its descriptor before.
HandedOutTuned ==
  \A c \in Calls : halves[c] # {} /\ fd[c] # Address => options[fd[c]] = SocketOpts(connector[c])
=============================================================================
