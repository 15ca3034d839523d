----------------------------- MODULE TlsSession -----------------------------
(***************************************************************************)
(* A TLS connection between what the builders of TlsBuilder made: connect   *)
(* of the three backends with the name its connector asks for, and accept.  *)
(* In TLS 1.3 the client is done before the server has looked at the        *)
(* client's certificate.  The peers may use different backends.             *)
(***************************************************************************)
EXTENDS TlsBuilder

CONSTANTS Names  \* names a connector can ask for

VARIABLES session,  \* how far the handshake is
          name,     \* the name that is asked for
          shown     \* per role, the certificate it shows if asked, and the key it signs with

sessionVars == <<vars, session, name, shown>>

client == builder["client"]
server == builder["server"]

Nothing == [leaf |-> None, key |-> NoKey]

\* What a peer can show: a certificate with a key of its algorithm.
Complete(b) == {p \in [leaf : b.certs, key : b.keys] : SameAlgorithm(KeyOf[p.leaf], p.key)}

\* It shows one of them if it has any; which one depends on what the other side offers.
Shows(b) == IF Complete(b) = {} THEN {Nothing} ELSE Complete(b)

SessionInit == Init /\ session = "idle" /\ name = None /\ shown = [r \in Roles |-> Nothing]

Goto(state) == session' = state /\ UNCHANGED <<vars, name, shown>>

\* TlsConnector::connect with the name; another one may have been before.
connect(n) ==
  /\ client.stage = "built" /\ session # "hello"
  /\ session' = "hello" /\ name' = n
  /\ \E c \in Shows(client), s \in Shows(server) : shown' = [client |-> c, server |-> s]
  /\ UNCHANGED vars

\* rustls without verification: the certificate, the name and the signatures are fine.
NoCertificateVerification == client.backend = "rustls" /\ ~client.verify

\* The client's check of the server; SSL_VERIFY_NONE leaves out the certificate and
\* with it the name.
ServerAccepted ==
  LET leaf == shown["server"].leaf
  IN  /\ leaf # None
      /\ \/ NoCertificateVerification
         \/ /\ shown["server"].key = KeyOf[leaf]
            /\ client.verify => /\ Trusted(leaf, server.chain, client.roots, client.partial)
                                /\ client.hostname => Name[leaf] = name

ClientFinishes == session = "hello" /\ Goto(IF ServerAccepted THEN "connected" ELSE "refused")

\* The server's check of the client, if it asks for a certificate.
ClientAccepted ==
  LET leaf == shown["client"].leaf
  IN  \/ server.asks = "nobody"
      \/ server.asks = "whoever has one" /\ leaf = None
      \/ /\ leaf # None /\ shown["client"].key = KeyOf[leaf]
         /\ Trusted(leaf, client.chain, server.roots, server.partial)

accept == session = "connected" /\ Goto(IF ClientAccepted THEN "accepted" ELSE "rejected")

SessionNext ==
  \/ Next /\ UNCHANGED <<session, name, shown>>
  \/ \E n \in Names : connect(n)
  \/ ClientFinishes \/ accept

SessionSpec == SessionInit /\ [][SessionNext]_sessionVars

---------------------------------------------------------------------------
\* The certificates a role was given to trust, going by the calls that were made.
GivenCas(r) == UNION {Range(c[2]) : c \in {c \in called[r] : c[1] = "ca"}}

\* The call was made.
Said(r, call) == <<call, <<>> >> \in called[r]

\* A client that connected had, unless a call on its builder gave up that check, a
\* server with a certificate below one of the CAs it was given, for the name it asked.
\* No order of calls, and no default of a backend, loses a check.
ConnectedServerVerified ==
  session \in {"connected", "accepted", "rejected"} /\ ~Said("client", "no verification")
    => /\ DescendsFrom(shown["server"].leaf, GivenCas("client") \cup SystemRoots)
       /\ ~Said("client", "no hostnames") => Name[shown["server"].leaf] = name

\* A server that was told to authenticate its clients, by client_authenticate or by the
\* verify mode, accepts only one with a certificate below a CA it was given.
AcceptedClientAuthenticated ==
  /\ session = "accepted"
  /\ \/ server.backend = "rustls" /\ GivenCas("server") # {}
     \/ Said("server", "everybody") /\ ~Said("server", "whoever has one") /\ ~Said("server", "nobody")
  => shown["client"].leaf # None /\ DescendsFrom(shown["client"].leaf, GivenCas("server"))

\* Whatever was set, replaced or refused on the way, by calls of any backend in any order,
\* no certificate that was built in is beside the key of another one; and each has its key,
\* unless openssl was given a certificate and a key of two algorithms (connector.rs
\* 209-212 and 232-233 and the acceptor's do not ask whether they go together: the
\* certificate is then built in without an error, has no key and is never shown).
KeyMatchesCertificate ==
  \A r \in Roles : builder[r].stage = "built" =>
    /\ \A p \in Complete(builder[r]) : p.key = KeyOf[p.leaf]
    /\ Said(r, "mixed identity") \/ \A c \in builder[r].certs : KeyOf[c] \in builder[r].keys

\* openssl/test.rs lines 34-35: the issuer of the server's certificate is enough of a CA,
\* a root or not.  The clients of rustls and openssl are not refused for want of more.
IssuerSuffices ==
  LET leaf == shown["server"].leaf
  IN  session = "refused" /\ client.backend \in {"rustls", "openssl"} /\ leaf # None
        => \/ Issuer[leaf] \notin GivenCas("client")
           \/ Name[leaf] # name /\ ~Said("client", "no hostnames")
=============================================================================
