-------------------------- MODULE TlsSessionProofs --------------------------
(***************************************************************************)
(* Proofs about the TLS builders and the sessions between what they built,  *)
(* for any certificates, keys, files and bundles and any number of calls.   *)
(***************************************************************************)
EXTENDS TlsSession, WellFoundedInduction, TLAPS

\* Between a certificate and its issuer there is none.
LEMMA NoneBetween == \A k \in 1 .. 1 - 1 : FALSE
OBVIOUS

USE FilesAssumption, BuilderAssumption

---------------------------------------------------------------------------
\* Files.

\* A file with a section of a kind has a first one.
LEMMA FirstSection ==
  ASSUME NEW S \in SUBSET Nat, S # {}
  PROVE  Min(S) \in S
<1> DEFINE R == OpToRel(<, Nat)
<1>1. IsWellFoundedOn(R, Nat)
  BY NatLessThanWellFounded
<1>2. \A x, y \in Nat : <<y, x>> \in R <=> y < x
  BY DEF OpToRel
<1> HIDE DEF R
<1>3. PICK x \in S : \A y \in S : <<y, x>> \notin R
  BY <1>1, WFMin, Zenon
<1>4. \A y \in S : ~(y < x)
  BY <1>2, <1>3
<1>5. \A y \in S : x <= y
  BY <1>4
<1> QED BY <1>5 DEF Min

\* What openssl takes from a file is in the file.
LEMMA FirstOfIsInFile ==
  ASSUME NEW file \in Seq(Items), NEW kind, FirstOf(file, kind) # Malformed
  PROVE  FirstOf(file, kind) \in kind /\ FirstOf(file, kind) \in Range(file)
<1> DEFINE seen == Sections(file, kind \cup {Malformed})
<1>1. seen \in SUBSET (DOMAIN file) /\ DOMAIN file \subseteq Nat
  BY DEF Sections
<1>2. seen # {} /\ FirstOf(file, kind) = file[Min(seen)]
  BY DEF FirstOf
<1>3. Min(seen) \in seen
  BY <1>1, <1>2, FirstSection
<1> QED BY <1>1, <1>2, <1>3 DEF Sections, Range

\* A file of CAs holds the certificates that are read from it, and no others.
LEMMA CertsInFile ==
  ASSUME NEW file \in Seq(Items), load_root_ca(file)
  PROVE  CertsIn(file) = Range(file) \cap Certs
BY DEF load_root_ca, CertsIn, load_certs, Sections, Range

\* A PKCS #12 file that can be used has a certificate that its key goes with.
LEMMA BundleIsIdentity ==
  ASSUME NEW bundle \in Identities, from_pkcs12_ok(bundle)
  PROVE  LET id == from_pkcs12(bundle)
         IN  id.leaf \in Certs /\ id.key = KeyOf[id.leaf] /\ id.chain \subseteq Certs
<1>1. bundle.key \in Keys /\ bundle.certs \subseteq Certs
  <2>1. CASE bundle \in Bundles
    BY <2>1
  <2>2. ASSUME NEW f \in CertFiles, NEW g \in KeyFiles, from_x509_ok(f, g), bundle = from_x509(f, g)
        PROVE  bundle.key \in Keys /\ bundle.certs \subseteq Certs
    BY <2>2 DEF from_x509_ok, from_x509
  <2> QED BY <2>1, <2>2 DEF Identities
<1> DEFINE cert == CHOOSE c \in bundle.certs : KeyOf[c] = bundle.key
<1>2. cert \in bundle.certs /\ KeyOf[cert] = bundle.key
  BY DEF from_pkcs12_ok
<1> QED BY <1>1, <1>2 DEF from_pkcs12

\* The certificate one issuer above is the issuer.
LEMMA AncestorIsIssuer ==
  ASSUME NEW c \in Certs
  PROVE  1 \in DOMAIN Ancestor /\ Ancestor[1][c] = Issuer[c]
<1> DEFINE P(f) == f = [n \in 0 .. 3 |-> [d \in Certs |-> IF n = 0 THEN d ELSE Issuer[f[n - 1][d]]]]
           g == [n \in 0 .. 3 |-> [d \in Certs |->
                   IF n = 0 THEN d ELSE IF n = 1 THEN Issuer[d]
                   ELSE IF n = 2 THEN Issuer[Issuer[d]] ELSE Issuer[Issuer[Issuer[d]]]]]
<1>1. P(g)
  OBVIOUS
<1>2. Ancestor = CHOOSE f : P(f)
  BY DEF Ancestor
<1> HIDE DEF P, g
<1>3. P(Ancestor)
  BY <1>1, <1>2, Zenon
<1>4. Ancestor = [n \in 0 .. 3 |-> [d \in Certs |-> IF n = 0 THEN d ELSE Issuer[Ancestor[n - 1][d]]]]
  BY <1>3 DEF P
<1> QED BY <1>4

---------------------------------------------------------------------------
\* Builders.

Builders ==
  [backend : {None, "rustls", "native", "openssl"},
   stage : {"none", "verifier", "cert", "config", "built"},
   verify : BOOLEAN, hostname : BOOLEAN, partial : BOOLEAN,
   roots : SUBSET Certs, certs : SUBSET Certs, keys : SUBSET Keys,
   chain : SUBSET (Certs \cup {Bad}), asks : {"nobody", "whoever has one", "everybody"}]

\* GivenCas and Said, of a set of calls.
CasOf(calls) == UNION {Range(c[2]) : c \in {c \in calls : c[1] = "ca"}}
Told(calls, call) == <<call, <<>> >> \in calls

\* A builder has the checks, the roots and the identity that the calls on it gave it:
\* a check is off exactly when a call said so, roots are the given CAs or the system's,
\* no certificate is beside the key of another one, and only a mixed identity leaves one
\* without its key.
BuilderInv(b, calls) ==
  /\ b \in Builders
  /\ \A c \in b.certs, k \in b.keys : SameAlgorithm(KeyOf[c], k) => k = KeyOf[c]
  /\ Told(calls, "mixed identity") \/ \A c \in b.certs : KeyOf[c] \in b.keys
  /\ b.verify <=> ~Told(calls, "no verification")
  /\ b.hostname <=> ~Told(calls, "no hostnames")
  /\ b.roots \subseteq CasOf(calls) \cup SystemRoots
  /\ b.backend \in {"rustls", "openssl"} => CasOf(calls) \cap Certs \subseteq b.roots
  /\ b.stage = "verifier" => calls = {}

\* The connectors of rustls and openssl accept partial chains.
ClientInv(b) == b.backend \in {"rustls", "openssl"} => b.partial

\* An acceptor asks for certificates if it was told to, and trusts the given CAs only.
ServerInv(b, calls) ==
  /\ b.backend # "native" => b.roots \subseteq CasOf(calls)
  /\ b.backend = "native" => CasOf(calls) = {}
  /\ b.backend # "openssl" => ~Told(calls, "everybody")
  /\ b.backend = "rustls" /\ CasOf(calls) # {} => b.asks = "everybody"
  /\ Told(calls, "everybody") /\ ~Told(calls, "whoever has one") /\ ~Told(calls, "nobody")
       => b.asks = "everybody"

RoleInv(r, b, calls) ==
  /\ BuilderInv(b, calls)
  /\ r = "client" => ClientInv(b)
  /\ r = "server" => ServerInv(b, calls)

LEMMA InCasOf ==
  ASSUME NEW calls, NEW x
  PROVE  x \in CasOf(calls) <=> \E c \in calls : c[1] = "ca" /\ x \in Range(c[2])
BY DEF CasOf

\* A call is one more that was made, and a CA file one more that was given.
LEMMA PlainCall ==
  ASSUME NEW calls, NEW call, call # "ca"
  PROVE  LET more == calls \cup {<<call, <<>> >>}
         IN  CasOf(more) = CasOf(calls) /\ \A x : Told(more, x) <=> Told(calls, x) \/ x = call
<1> DEFINE made == <<call, <<>> >>
           more == calls \cup {made}
<1>1. made[1] # "ca"
  OBVIOUS
<1> HIDE DEF made
<1>2. ASSUME NEW x PROVE x \in CasOf(more) <=> x \in CasOf(calls)
  BY <1>1, InCasOf
<1>3. CasOf(more) = CasOf(calls)
  BY <1>2
<1>4. \A x : Told(more, x) <=> Told(calls, x) \/ x = call
  BY DEF Told, made
<1> QED BY <1>3, <1>4 DEF made

LEMMA CaCall ==
  ASSUME NEW calls, NEW file
  PROVE  LET more == calls \cup {<<"ca", file>>}
         IN  /\ CasOf(more) = CasOf(calls) \cup Range(file)
             /\ \A x : x # "ca" => (Told(more, x) <=> Told(calls, x))
<1> DEFINE made == <<"ca", file>>
           more == calls \cup {made}
<1>1. made[1] = "ca" /\ made[2] = file
  OBVIOUS
<1> HIDE DEF made
<1>2. ASSUME NEW x PROVE x \in CasOf(more) <=> x \in CasOf(calls) \/ x \in Range(file)
  BY <1>1, InCasOf
<1>3. CasOf(more) = CasOf(calls) \cup Range(file)
  BY <1>2
<1>4. \A x : x # "ca" => (Told(more, x) <=> Told(calls, x))
  BY DEF Told, made
<1> QED BY <1>3, <1>4 DEF made

LEMMA NothingCalled == CasOf({}) = {} /\ \A x : ~Told({}, x)
BY DEF CasOf, Told

\* A builder that no call has touched.
Fresh(b) ==
  b \in Builders /\ b.verify /\ b.hostname /\ b.certs = {} /\ b.roots = {} /\ b.stage = "none"

LEMMA BlankIsFresh == Fresh(Blank)
<1>1. Blank \in Builders /\ Blank.verify /\ Blank.hostname
  BY DEF Blank, Builders
<1>2. Blank.certs = {} /\ Blank.roots = {} /\ Blank.stage = "none"
  BY DEF Blank, None
<1> QED BY <1>1, <1>2 DEF Fresh

LEMMA BlankInv == \A r : RoleInv(r, Blank, {})
<1>1. Blank.backend = None /\ None \notin {"rustls", "openssl", "native"}
  BY DEF Blank, None
<1> QED
  BY <1>1, BlankIsFresh, NothingCalled DEF Fresh, RoleInv, BuilderInv, ClientInv, ServerInv

---------------------------------------------------------------------------
\* Steps of the builders.

BuildersInv ==
  /\ builder \in [Roles -> Builders] /\ called = [r \in Roles |-> called[r]]
  /\ \A r \in Roles : RoleInv(r, builder[r], called[r])

\* What every step of a builder comes to: one builder that is not built yet becomes
\* another that goes with the calls on it, and the client's waits for the server's.
Changed(r) ==
  /\ builder[r].stage # "built"
  /\ builder' = [builder EXCEPT ![r] = builder'[r]] /\ called' = [called EXCEPT ![r] = called'[r]]
  /\ RoleInv(r, builder'[r], called'[r])
  /\ r = "client" => builder[r].stage # "none" \/ builder["server"].stage = "built"

LEMMA Succeeds ==
  ASSUME BuildersInv, NEW r \in Roles, builder[r].stage \notin {"none", "built"},
         NEW b, NEW calls, RoleInv(r, b, calls),
         builder' = [builder EXCEPT ![r] = b], called' = [called EXCEPT ![r] = calls]
  PROVE  Changed(r)
<1>1. builder'[r] = b /\ called'[r] = calls
  BY DEF BuildersInv
<1> QED BY <1>1 DEF Changed

LEMMA GivesUp ==
  ASSUME BuildersInv, NEW r \in Roles, builder[r].stage \notin {"none", "built"},
         builder' = [builder EXCEPT ![r] = Blank], called' = [called EXCEPT ![r] = {}]
  PROVE  Changed(r)
BY Succeeds, BlankInv

LEMMA Starts ==
  ASSUME BuildersInv, NEW r \in Roles, NEW b, NEW calls, RoleInv(r, b, calls), Start(r, calls, b)
  PROVE  Changed(r)
<1>1. builder'[r] = b /\ called'[r] = calls
  BY DEF BuildersInv, Start
<1>2. builder[r].stage = "none"
  <2>1. builder[r] = Blank
    BY DEF Start
  <2> QED BY <2>1 DEF Blank
<1> QED BY <1>1, <1>2 DEF Changed, Start

---------------------------------------------------------------------------
\* What the calls do to a builder.

SameChecks(c, b) == (c.verify <=> b.verify) /\ (c.hostname <=> b.hostname)
SameTrust(c, b) == c.backend = b.backend /\ (c.partial <=> b.partial) /\ c.roots = b.roots /\ c.asks = b.asks
SameIdentity(c, b) == c.certs = b.certs /\ c.keys = b.keys

\* The rustls builders go on to their next stage, and any builder is built.
LEMMA StageMoves ==
  ASSUME NEW r \in Roles, NEW b \in Builders, NEW calls, RoleInv(r, b, calls),
         NEW stage \in {"cert", "config", "built"}
  PROVE  LET c == [b EXCEPT !.stage = stage]
         IN  RoleInv(r, c, calls) /\ RoleInv(r, c, calls \cup {<<"anonymous", <<>> >>})
<1> DEFINE c == [b EXCEPT !.stage = stage]
           more == calls \cup {<<"anonymous", <<>> >>}
<1>1. c \in Builders /\ c.stage = stage /\ SameChecks(c, b) /\ SameTrust(c, b) /\ SameIdentity(c, b)
  BY DEF Builders, SameChecks, SameTrust, SameIdentity
<1>2. CasOf(more) = CasOf(calls) /\ \A x : Told(more, x) <=> Told(calls, x) \/ x = "anonymous"
  BY PlainCall, Zenon
<1> HIDE DEF c, more
<1>3. RoleInv(r, c, calls) /\ RoleInv(r, c, more)
  BY <1>1, <1>2 DEF SameChecks, SameTrust, SameIdentity, RoleInv, BuilderInv, ClientInv, ServerInv
<1> QED BY <1>3 DEF c, more

\* A rustls builder gets its roots: the first call on it, and the CAs of the file are its
\* roots.  An acceptor then wants a certificate of everybody.
LEMMA RootsReplaced ==
  ASSUME NEW b \in Builders, NEW calls, NEW file \in Seq(Items), NEW certs,
         certs = Range(file) \cap Certs, b.stage = "verifier"
  PROVE  LET more == calls \cup {<<"ca", file>>}
         IN  /\ RoleInv("client", b, calls)
                  => RoleInv("client", [b EXCEPT !.stage = "cert", !.roots = certs], more)
             /\ RoleInv("server", b, calls) /\ b.backend = "rustls"
                  => RoleInv("server", [b EXCEPT !.stage = "cert", !.roots = certs,
                                                 !.asks = "everybody"], more)
<1> DEFINE c == [b EXCEPT !.stage = "cert", !.roots = certs]
           d == [b EXCEPT !.stage = "cert", !.roots = certs, !.asks = "everybody"]
           more == calls \cup {<<"ca", file>>}
<1>1. /\ c \in Builders /\ c.stage = "cert" /\ c.roots = certs /\ SameChecks(c, b) /\ SameIdentity(c, b)
      /\ c.backend = b.backend /\ (c.partial <=> b.partial)
  BY DEF Builders, SameChecks, SameIdentity
<1>2. /\ d \in Builders /\ d.stage = "cert" /\ d.roots = certs /\ d.asks = "everybody"
      /\ SameChecks(d, b) /\ SameIdentity(d, b) /\ d.backend = b.backend
  BY DEF Builders, SameChecks, SameIdentity
<1>3. /\ CasOf(more) = CasOf(calls) \cup Range(file)
      /\ \A x : x # "ca" => (Told(more, x) <=> Told(calls, x))
  BY CaCall, Zenon
<1>4. CasOf({}) = {}
  BY NothingCalled
<1> HIDE DEF c, d, more
<1>5. ASSUME RoleInv("client", b, calls) PROVE RoleInv("client", c, more)
  BY <1>1, <1>3, <1>4, <1>5 DEF SameChecks, SameIdentity, RoleInv, BuilderInv, ClientInv
<1>6. ASSUME RoleInv("server", b, calls), b.backend = "rustls"
      PROVE  RoleInv("server", d, more)
  BY <1>2, <1>3, <1>4, <1>6 DEF SameChecks, SameIdentity, RoleInv, BuilderInv, ServerInv
<1> QED BY <1>5, <1>6 DEF c, d, more

\* A connector is told to leave out a check.
LEMMA ChecksDropped ==
  ASSUME NEW b \in Builders, NEW calls, RoleInv("client", b, calls), b.stage # "verifier"
  PROVE  /\ RoleInv("client", [b EXCEPT !.verify = FALSE], calls \cup {<<"no verification", <<>> >>})
         /\ RoleInv("client", [b EXCEPT !.hostname = FALSE], calls \cup {<<"no hostnames", <<>> >>})
<1> DEFINE c == [b EXCEPT !.verify = FALSE]
           d == [b EXCEPT !.hostname = FALSE]
           more == calls \cup {<<"no verification", <<>> >>}
           unnamed == calls \cup {<<"no hostnames", <<>> >>}
<1>1. /\ c \in Builders /\ c.stage = b.stage /\ ~c.verify /\ (c.hostname <=> b.hostname)
      /\ SameTrust(c, b) /\ SameIdentity(c, b)
  BY DEF Builders, SameTrust, SameIdentity
<1>2. /\ d \in Builders /\ d.stage = b.stage /\ ~d.hostname /\ (d.verify <=> b.verify)
      /\ SameTrust(d, b) /\ SameIdentity(d, b)
  BY DEF Builders, SameTrust, SameIdentity
<1>3. CasOf(more) = CasOf(calls) /\ \A x : Told(more, x) <=> Told(calls, x) \/ x = "no verification"
  BY PlainCall, Zenon
<1>4. CasOf(unnamed) = CasOf(calls) /\ \A x : Told(unnamed, x) <=> Told(calls, x) \/ x = "no hostnames"
  BY PlainCall, Zenon
<1> HIDE DEF c, d, more, unnamed
<1>5. RoleInv("client", c, more)
  BY <1>1, <1>3 DEF SameTrust, SameIdentity, RoleInv, BuilderInv, ClientInv
<1>6. RoleInv("client", d, unnamed)
  BY <1>2, <1>4 DEF SameTrust, SameIdentity, RoleInv, BuilderInv, ClientInv
<1> QED BY <1>5, <1>6 DEF c, d, more, unnamed

\* rustls without verification needs neither roots nor a client certificate.
LEMMA VerificationSkipped ==
  ASSUME NEW b \in Builders, NEW calls, RoleInv("client", b, calls)
  PROVE  RoleInv("client", [b EXCEPT !.stage = "config", !.verify = FALSE],
                 calls \cup {<<"no verification", <<>> >>})
<1> DEFINE c == [b EXCEPT !.stage = "config", !.verify = FALSE]
           more == calls \cup {<<"no verification", <<>> >>}
<1>1. /\ c \in Builders /\ c.stage = "config" /\ ~c.verify /\ (c.hostname <=> b.hostname)
      /\ SameTrust(c, b) /\ SameIdentity(c, b)
  BY DEF Builders, SameTrust, SameIdentity
<1>2. CasOf(more) = CasOf(calls) /\ \A x : Told(more, x) <=> Told(calls, x) \/ x = "no verification"
  BY PlainCall, Zenon
<1> HIDE DEF c, more
<1>3. RoleInv("client", c, more)
  BY <1>1, <1>2 DEF SameTrust, SameIdentity, RoleInv, BuilderInv, ClientInv
<1> QED BY <1>3 DEF c, more

\* A rustls builder gets a certificate that goes with its key.
LEMMA IdentityLoaded ==
  ASSUME NEW r \in Roles, NEW b \in Builders, NEW calls, RoleInv(r, b, calls),
         NEW cert \in Certs, NEW key, key = KeyOf[cert], NEW chain \in SUBSET (Certs \cup {Bad})
  PROVE  RoleInv(r, [b EXCEPT !.stage = "config", !.certs = {cert}, !.keys = {key}, !.chain = chain],
                 calls \cup {<<"identity", <<>> >>})
<1> DEFINE c == [b EXCEPT !.stage = "config", !.certs = {cert}, !.keys = {key}, !.chain = chain]
           more == calls \cup {<<"identity", <<>> >>}
<1>1. key \in Keys
  OBVIOUS
<1>2. /\ c \in Builders /\ c.stage = "config" /\ c.certs = {cert} /\ c.keys = {key}
      /\ SameChecks(c, b) /\ SameTrust(c, b)
  BY <1>1 DEF Builders, SameChecks, SameTrust
<1>3. CasOf(more) = CasOf(calls) /\ \A x : Told(more, x) <=> Told(calls, x) \/ x = "identity"
  BY PlainCall, Zenon
<1> HIDE DEF c, more
<1>4. RoleInv(r, c, more)
  BY <1>2, <1>3 DEF SameChecks, SameTrust, RoleInv, BuilderInv, ClientInv, ServerInv
<1> QED BY <1>4 DEF c, more

\* An openssl builder gets a certificate, a key that set_private_key accepts after it, and
\* a chain: whatever was there before, what is at the place of their algorithms goes
\* together, and if it is one place the certificate has its key.
LEMMA IdentityReplaced ==
  ASSUME NEW r \in Roles, NEW b \in Builders, NEW calls, RoleInv(r, b, calls), b.stage # "verifier",
         NEW cert \in Certs, NEW key, NEW chain \in SUBSET Certs,
         set_private_key_ok(set_certificate(b, cert), key)
  PROVE  RoleInv(r, [set_private_key(set_certificate(b, cert), key) EXCEPT !.chain = @ \cup chain],
                 calls \cup {<<IdentityCall(cert, key), <<>> >>})
<1> DEFINE d == set_certificate(b, cert)
           e == set_private_key(d, key)
           c == [e EXCEPT !.chain = @ \cup chain]
           call == IdentityCall(cert, key)
           more == calls \cup {<<call, <<>> >>}
           certs == {x \in b.certs : ~SameAlgorithm(KeyOf[x], KeyOf[cert])} \cup {cert}
           kept == {k \in b.keys : SameAlgorithm(KeyOf[cert], k) => k = KeyOf[cert]}
           keys == {k \in kept : ~SameAlgorithm(k, key)} \cup {key}
<1>1. certs \in SUBSET Certs /\ kept \in SUBSET Keys
  BY DEF Builders
<1> HIDE DEF certs, kept
<1>2. /\ d \in Builders /\ d.stage = b.stage /\ d.certs = certs /\ d.keys = kept
      /\ SameChecks(d, b) /\ SameTrust(d, b)
  <2>1. d = [b EXCEPT !.certs = certs, !.keys = kept]
    BY Zenon DEF set_certificate, Builders, certs, kept
  <2> HIDE DEF d
  <2> QED BY <1>1, <2>1 DEF Builders, SameChecks, SameTrust
<1> HIDE DEF d
<1>3. key \in Keys /\ \A x \in certs : SameAlgorithm(KeyOf[x], key) => KeyOf[x] = key
  BY <1>2 DEF set_private_key_ok, d
<1>4. keys \in SUBSET Keys
  BY <1>1, <1>3
<1>5. /\ e \in Builders /\ e.stage = d.stage /\ e.certs = d.certs /\ e.keys = keys
      /\ SameChecks(e, d) /\ SameTrust(e, d)
  <2>1. e = [d EXCEPT !.keys = keys]
    BY <1>2 DEF set_private_key, keys
  <2> HIDE DEF e, keys
  <2> QED BY <1>2, <1>4, <2>1 DEF Builders, SameChecks, SameTrust
<1> HIDE DEF e
<1>6. e.chain \cup chain \in SUBSET (Certs \cup {Bad})
  BY <1>5 DEF Builders
<1>7. /\ c \in Builders /\ c.stage = e.stage /\ SameIdentity(c, e) /\ SameChecks(c, e) /\ SameTrust(c, e)
  BY <1>5, <1>6 DEF Builders, SameChecks, SameTrust, SameIdentity
<1>8. call \in {"identity", "mixed identity"} /\ (call = "identity" <=> SameAlgorithm(KeyOf[cert], key))
  BY DEF IdentityCall
<1> HIDE DEF call
<1>9. CasOf(more) = CasOf(calls) /\ \A x : Told(more, x) <=> Told(calls, x) \/ x = call
  BY <1>8, PlainCall
<1> HIDE DEF c, more
<1>10. c.stage = b.stage /\ c.certs = certs /\ c.keys = keys /\ SameChecks(c, b) /\ SameTrust(c, b)
  BY <1>2, <1>5, <1>7 DEF SameChecks, SameTrust, SameIdentity
<1>11. \A x \in certs, k \in keys : SameAlgorithm(KeyOf[x], k) => k = KeyOf[x]
  <2> SUFFICES ASSUME NEW x \in certs, NEW k \in kept, SameAlgorithm(KeyOf[x], k) PROVE k = KeyOf[x]
    BY <1>3
  <2> QED BY DEF certs, kept, SameAlgorithm, RoleInv, BuilderInv
<1>12. Told(more, "mixed identity") \/ \A x \in certs : KeyOf[x] \in keys
  <2> SUFFICES ASSUME ~Told(calls, "mixed identity"), SameAlgorithm(KeyOf[cert], key), NEW x \in certs
               PROVE  KeyOf[x] \in keys
    BY <1>8, <1>9
  <2>1. CASE x = cert
    BY <1>3, <2>1
  <2>2. CASE x # cert
    <3>1. x \in b.certs /\ ~SameAlgorithm(KeyOf[x], KeyOf[cert]) /\ KeyOf[x] \in b.keys
      BY <2>2 DEF certs, RoleInv, BuilderInv
    <3> QED BY <3>1 DEF kept, SameAlgorithm
  <2> QED BY <2>1, <2>2
<1> HIDE DEF keys
<1>13. RoleInv(r, c, more)
  BY <1>7, <1>8, <1>9, <1>10, <1>11, <1>12
  DEF SameChecks, SameTrust, RoleInv, BuilderInv, ClientInv, ServerInv
<1> QED BY <1>13 DEF c, e, d, more, call

\* A builder of native-tls or openssl gets more roots: all that is in the file, or for
\* native-tls some of it.
LEMMA RootsAdded ==
  ASSUME NEW r \in Roles, NEW b \in Builders, NEW calls, RoleInv(r, b, calls),
         NEW file, NEW certs \in SUBSET Certs, b.stage = "config",
         (b.backend = "native" /\ r = "client") \/ b.backend = "openssl",
         certs \subseteq Range(file), b.backend = "openssl" => Range(file) \cap Certs \subseteq certs
  PROVE  RoleInv(r, [b EXCEPT !.roots = @ \cup certs], calls \cup {<<"ca", file>>})
<1> DEFINE c == [b EXCEPT !.roots = @ \cup certs]
           more == calls \cup {<<"ca", file>>}
<1>1. b.roots \cup certs \in SUBSET Certs
  BY DEF Builders
<1>2. /\ c \in Builders /\ c.stage = b.stage /\ c.roots = b.roots \cup certs /\ SameIdentity(c, b)
      /\ SameChecks(c, b) /\ c.backend = b.backend /\ (c.partial <=> b.partial) /\ c.asks = b.asks
  BY <1>1 DEF Builders, SameChecks, SameIdentity
<1>3. /\ CasOf(more) = CasOf(calls) \cup Range(file)
      /\ \A x : x # "ca" => (Told(more, x) <=> Told(calls, x))
  BY CaCall, Zenon
<1> HIDE DEF c, more
<1>4. BuilderInv(c, more)
  BY <1>2, <1>3 DEF SameChecks, SameIdentity, RoleInv, BuilderInv
<1>5. r = "client" => ClientInv(c)
  BY <1>2 DEF RoleInv, ClientInv
<1>6. r = "server" => ServerInv(c, more)
  BY <1>2, <1>3 DEF RoleInv, ServerInv
<1>7. RoleInv(r, c, more)
  BY <1>4, <1>5, <1>6 DEF RoleInv
<1> QED BY <1>7 DEF c, more

\* An openssl acceptor gets a chain or a verify mode.
LEMMA ChainAdded ==
  ASSUME NEW b \in Builders, NEW calls, RoleInv("server", b, calls), NEW chain \in SUBSET Certs,
         b.stage = "config"
  PROVE  RoleInv("server", [b EXCEPT !.chain = @ \cup chain], calls \cup {<<"chain", <<>> >>})
<1> DEFINE c == [b EXCEPT !.chain = @ \cup chain]
           more == calls \cup {<<"chain", <<>> >>}
<1>1. b.chain \cup chain \in SUBSET (Certs \cup {Bad})
  BY DEF Builders
<1>2. c \in Builders /\ c.stage = b.stage /\ SameIdentity(c, b) /\ SameChecks(c, b) /\ SameTrust(c, b)
  BY <1>1 DEF Builders, SameChecks, SameTrust, SameIdentity
<1>3. CasOf(more) = CasOf(calls) /\ \A x : Told(more, x) <=> Told(calls, x) \/ x = "chain"
  BY PlainCall, Zenon
<1> HIDE DEF c, more
<1>4. RoleInv("server", c, more)
  BY <1>2, <1>3 DEF SameChecks, SameTrust, SameIdentity, RoleInv, BuilderInv, ServerInv
<1> QED BY <1>4 DEF c, more

LEMMA ModeSet ==
  ASSUME NEW b \in Builders, NEW calls, RoleInv("server", b, calls),
         b.stage = "config", b.backend = "openssl",
         NEW mode \in {"nobody", "whoever has one", "everybody"}
  PROVE  RoleInv("server", [b EXCEPT !.asks = mode], calls \cup {<<mode, <<>> >>})
<1> DEFINE c == [b EXCEPT !.asks = mode]
           more == calls \cup {<<mode, <<>> >>}
<1>1. /\ c \in Builders /\ c.stage = b.stage /\ c.asks = mode /\ c.backend = b.backend
      /\ c.roots = b.roots /\ SameIdentity(c, b) /\ SameChecks(c, b)
  BY DEF Builders, SameChecks, SameIdentity
<1>2. CasOf(more) = CasOf(calls) /\ \A x : Told(more, x) <=> Told(calls, x) \/ x = mode
  BY PlainCall, Zenon
<1> HIDE DEF c, more
<1>3. RoleInv("server", c, more)
  BY <1>1, <1>2 DEF SameChecks, SameIdentity, RoleInv, BuilderInv, ServerInv
<1> QED BY <1>3 DEF c, more

---------------------------------------------------------------------------
\* What a builder is to begin with.

LEMMA RustlsBegins ==
  ASSUME NEW r \in Roles, NEW b \in Builders, Fresh(b)
  PROVE  RoleInv(r, [b EXCEPT !.backend = "rustls", !.stage = "verifier", !.partial = TRUE], {})
<1> DEFINE c == [b EXCEPT !.backend = "rustls", !.stage = "verifier", !.partial = TRUE]
<1>1. /\ c \in Builders /\ c.backend = "rustls" /\ c.stage = "verifier" /\ c.partial
      /\ SameChecks(c, b) /\ SameIdentity(c, b) /\ c.roots = b.roots
  BY DEF Builders, SameChecks, SameIdentity
<1> HIDE DEF c
<1>2. RoleInv(r, c, {})
  BY <1>1, NothingCalled
  DEF Fresh, SameChecks, SameIdentity, RoleInv, BuilderInv, ClientInv, ServerInv
<1> QED BY <1>2 DEF c

LEMMA OpensslConnectorBegins ==
  ASSUME NEW b \in Builders, Fresh(b)
  PROVE  RoleInv("client", [b EXCEPT !.backend = "openssl", !.stage = "config", !.partial = TRUE,
                                     !.roots = SystemRoots], {})
<1> DEFINE c == [b EXCEPT !.backend = "openssl", !.stage = "config", !.partial = TRUE,
                          !.roots = SystemRoots]
<1>1. SystemRoots \in SUBSET Certs
  OBVIOUS
<1>2. /\ c \in Builders /\ c.backend = "openssl" /\ c.stage = "config" /\ c.partial
      /\ SameChecks(c, b) /\ SameIdentity(c, b) /\ c.roots = SystemRoots
  BY <1>1 DEF Builders, SameChecks, SameIdentity
<1> HIDE DEF c
<1>3. RoleInv("client", c, {})
  BY <1>2, NothingCalled DEF Fresh, SameChecks, SameIdentity, RoleInv, BuilderInv, ClientInv
<1> QED BY <1>3 DEF c

LEMMA OpensslAcceptorBegins ==
  ASSUME NEW b \in Builders, Fresh(b)
  PROVE  RoleInv("server", [b EXCEPT !.backend = "openssl", !.stage = "config"], {})
<1> DEFINE c == [b EXCEPT !.backend = "openssl", !.stage = "config"]
<1>1. /\ c \in Builders /\ c.backend = "openssl" /\ c.stage = "config"
      /\ SameChecks(c, b) /\ SameIdentity(c, b) /\ c.roots = b.roots
  BY DEF Builders, SameChecks, SameIdentity
<1> HIDE DEF c
<1>2. RoleInv("server", c, {})
  BY <1>1, NothingCalled DEF Fresh, SameChecks, SameIdentity, RoleInv, BuilderInv, ServerInv
<1> QED BY <1>2 DEF c

\* Native, as a builder: nothing but the system's roots.
LEMMA NativeFields ==
  ASSUME NEW partial \in BOOLEAN
  PROVE  LET b == Native(partial)
         IN  /\ b \in Builders /\ b.verify /\ b.hostname
             /\ b.backend = "native" /\ b.stage = "config" /\ b.certs = {} /\ b.roots = SystemRoots
<1>1. ASSUME NEW b \in Builders, Fresh(b)
      PROVE  LET c == [b EXCEPT !.backend = "native", !.stage = "config", !.partial = partial,
                                !.roots = SystemRoots]
             IN  /\ c \in Builders /\ c.backend = "native" /\ c.stage = "config"
                 /\ SameChecks(c, b) /\ SameIdentity(c, b) /\ c.roots = SystemRoots
  <2>1. SystemRoots \in SUBSET Certs
    OBVIOUS
  <2> QED BY <2>1 DEF Builders, SameChecks, SameIdentity
<1>2. Fresh(Blank) /\ Blank \in Builders
  BY BlankIsFresh DEF Fresh
<1> DEFINE b == Native(partial)
<1>3. /\ b \in Builders /\ b.backend = "native" /\ b.stage = "config"
      /\ SameChecks(b, Blank) /\ SameIdentity(b, Blank) /\ b.roots = SystemRoots
  BY <1>1, <1>2, Zenon DEF Native
<1> QED BY <1>2, <1>3 DEF Fresh, SameChecks, SameIdentity

LEMMA NativeIdentityBegins ==
  ASSUME NEW r \in Roles, NEW partial \in BOOLEAN, NEW cert \in Certs, NEW key, key = KeyOf[cert],
         NEW chain \in SUBSET Certs
  PROVE  RoleInv(r, [Native(partial) EXCEPT !.certs = {cert}, !.keys = {key}, !.chain = chain],
                 {<<"identity", <<>> >>})
<1> DEFINE calls == {} \cup {<<"identity", <<>> >>}
<1>1. ASSUME NEW b \in Builders
      PROVE  LET c == [b EXCEPT !.certs = {cert}, !.keys = {key}, !.chain = chain]
             IN  /\ c \in Builders /\ c.stage = b.stage /\ c.certs = {cert} /\ c.keys = {key}
                 /\ SameChecks(c, b) /\ SameTrust(c, b)
  <2>1. key \in Keys
    OBVIOUS
  <2> QED BY <2>1 DEF Builders, SameChecks, SameTrust
<1> DEFINE b == Native(partial)
           c == [b EXCEPT !.certs = {cert}, !.keys = {key}, !.chain = chain]
<1>2. /\ b \in Builders /\ b.verify /\ b.hostname
      /\ b.backend = "native" /\ b.stage = "config" /\ b.certs = {} /\ b.roots = SystemRoots
  BY NativeFields, Zenon
<1> HIDE DEF b
<1>3. /\ c \in Builders /\ c.stage = b.stage /\ c.certs = {cert} /\ c.keys = {key}
      /\ SameChecks(c, b) /\ SameTrust(c, b)
  BY <1>1, <1>2, Zenon
<1>4. CasOf(calls) = {} /\ \A x : Told(calls, x) <=> x = "identity"
  BY PlainCall, NothingCalled, Zenon
<1>5. calls = {<<"identity", <<>> >>}
  OBVIOUS
<1> HIDE DEF c, calls
<1>6. RoleInv(r, c, calls)
  BY <1>2, <1>3, <1>4 DEF SameChecks, SameTrust, RoleInv, BuilderInv, ClientInv, ServerInv
<1> QED BY <1>5, <1>6 DEF c, b

LEMMA NativeAnonymousBegins ==
  ASSUME NEW partial \in BOOLEAN
  PROVE  RoleInv("client", [Native(partial) EXCEPT !.verify = FALSE, !.hostname = FALSE],
                 {"no verification", "no hostnames"} \X {<<>>})
<1> DEFINE calls == {"no verification", "no hostnames"} \X {<<>>}
<1>1. ASSUME NEW b \in Builders
      PROVE  LET c == [b EXCEPT !.verify = FALSE, !.hostname = FALSE]
             IN  /\ c \in Builders /\ c.stage = b.stage /\ ~c.verify /\ ~c.hostname
                 /\ SameIdentity(c, b) /\ SameTrust(c, b)
  BY DEF Builders, SameIdentity, SameTrust
<1> DEFINE b == Native(partial)
           c == [b EXCEPT !.verify = FALSE, !.hostname = FALSE]
<1>2. /\ b \in Builders /\ b.verify /\ b.hostname
      /\ b.backend = "native" /\ b.stage = "config" /\ b.certs = {} /\ b.roots = SystemRoots
  BY NativeFields, Zenon
<1> HIDE DEF b
<1>3. /\ c \in Builders /\ c.stage = b.stage /\ ~c.verify /\ ~c.hostname
      /\ SameIdentity(c, b) /\ SameTrust(c, b)
  BY <1>1, <1>2, Zenon
<1>4. Told(calls, "no verification") /\ Told(calls, "no hostnames")
  BY DEF Told
<1> HIDE DEF c, calls
<1>5. RoleInv("client", c, calls)
  BY <1>2, <1>3, <1>4 DEF SameIdentity, SameTrust, RoleInv, BuilderInv, ClientInv
<1> QED BY <1>5 DEF c, b, calls

---------------------------------------------------------------------------
\* The steps.

LEMMA BuilderOf ==
  ASSUME BuildersInv, NEW r \in Roles
  PROVE  builder[r] \in Builders /\ RoleInv(r, builder[r], called[r])
BY DEF BuildersInv

LEMMA TwoRoles == "client" \in Roles /\ "server" \in Roles
BY DEF Roles

\* A call changes the builder it is made on, to b or to nothing.
LEMMA CallChanges ==
  ASSUME BuildersInv, NEW r \in Roles, builder[r].stage \notin {"none", "built"},
         NEW call, NEW file, NEW ok, NEW b, Call(r, call, file, ok, b),
         ok => RoleInv(r, b, called[r] \cup {<<call, file>>})
  PROVE  Changed(r)
<1>1. CASE ok
  <2>1. /\ builder' = [builder EXCEPT ![r] = b]
        /\ called' = [called EXCEPT ![r] = called[r] \cup {<<call, file>>}]
    BY <1>1, Zenon DEF Call
  <2> QED BY <1>1, <2>1, Succeeds, Zenon
<1>2. CASE ~ok
  <2>1. builder' = [builder EXCEPT ![r] = Blank] /\ called' = [called EXCEPT ![r] = {}]
    BY <1>2, Zenon DEF Call
  <2> QED BY <2>1, GivesUp, Zenon
<1> QED BY <1>1, <1>2

\* with_single_cert: the certificate goes with the key, or the call fails.
LEMMA IdentityStep ==
  ASSUME BuildersInv, NEW r \in Roles, At(r, "rustls", "cert"),
         NEW f \in CertFiles, NEW g \in KeyFiles, LoadIdentity(r, f, g)
  PROVE  Changed(r)
<1>1. builder[r].stage \notin {"none", "built"}
  BY DEF At
<1>2. CASE WellFormed(f) /\ WellFormed(g)
  <2> DEFINE key == load_first_key(g)
             first == Min(load_certs(f))
             ok == load_certs(f) # {} /\ f[first] \in Certs /\ key = KeyOf[f[first]]
             chain == {f[i] : i \in load_certs(f) \ {first}}
             b == [builder[r] EXCEPT !.stage = "config", !.certs = {f[first]}, !.keys = {key},
                                     !.chain = chain]
  <2>1. Call(r, "identity", <<>>, ok, b)
    BY <1>2, Zenon DEF LoadIdentity, with_single_cert
  <2>2. chain \in SUBSET (Certs \cup {Bad})
    BY DEF load_certs, Sections
  <2>3. ok => RoleInv(r, b, called[r] \cup {<<"identity", <<>> >>})
    <3> HIDE DEF chain, key, first
    <3> QED BY <2>2, BuilderOf, IdentityLoaded, Zenon
  <2> HIDE DEF ok, b
  <2> QED BY <1>1, <2>1, <2>3, CallChanges, Zenon
<1>3. CASE ~(WellFormed(f) /\ WellFormed(g))
  <2>1. Call(r, "identity", <<>>, FALSE, Blank)
    BY <1>3, Zenon DEF LoadIdentity
  <2> QED BY <1>1, <2>1, CallChanges, Zenon
<1> QED BY <1>2, <1>3

LEMMA RustlsStepChanges ==
  ASSUME BuildersInv, RustlsStep
  PROVE  \E r \in Roles : Changed(r)
<1>1. ASSUME NEW r \in Roles, with_safe_defaults(r) PROVE Changed(r)
  <2> DEFINE b == [Blank EXCEPT !.backend = "rustls", !.stage = "verifier", !.partial = TRUE]
  <2>1. RoleInv(r, b, {})
    BY BlankIsFresh, RustlsBegins, Zenon DEF Fresh
  <2>2. Start(r, {}, b)
    BY <1>1 DEF with_safe_defaults
  <2> HIDE DEF b
  <2> QED BY <2>1, <2>2, Starts, Zenon
<1>2. ASSUME NEW f \in CertFiles, NEW g \in KeyFiles, load_client_certs(f, g) PROVE Changed("client")
  BY <1>2, IdentityStep, TwoRoles DEF load_client_certs
<1>3. ASSUME NEW f \in CertFiles, NEW g \in KeyFiles, load_server_certs(f, g) PROVE Changed("server")
  BY <1>3, IdentityStep, TwoRoles DEF load_server_certs
<1>4. ASSUME NEW f \in CaFiles, load_ca_cert(f) PROVE Changed("client")
  <2> DEFINE certs == CertsIn(f)
             b == [builder["client"] EXCEPT !.stage = "cert", !.roots = certs]
             ok == load_root_ca(f)
  <2>1. builder["client"].stage = "verifier" /\ Call("client", "ca", f, ok, b)
    BY <1>4 DEF load_ca_cert, At, with_root_certificates
  <2>2. f \in Seq(Items)
    OBVIOUS
  <2>3. ok => certs = Range(f) \cap Certs
    BY <2>2, CertsInFile
  <2> HIDE DEF certs, ok
  <2>4. ok => RoleInv("client", b, called["client"] \cup {<<"ca", f>>})
    BY <2>1, <2>2, <2>3, BuilderOf, TwoRoles, RootsReplaced, Zenon
  <2> HIDE DEF b
  <2> QED BY <2>1, <2>4, TwoRoles, CallChanges
<1>5. ASSUME NEW f \in CaFiles, client_authenticate(f) PROVE Changed("server")
  <2> DEFINE certs == CertsIn(f)
             b == [builder["server"] EXCEPT !.stage = "cert", !.roots = certs, !.asks = "everybody"]
             ok == load_root_ca(f) /\ load_certs(f) # {}
  <2>1. /\ builder["server"].stage = "verifier" /\ builder["server"].backend = "rustls"
        /\ Call("server", "ca", f, ok, b)
    BY <1>5 DEF client_authenticate, At
  <2>2. f \in Seq(Items)
    OBVIOUS
  <2>3. ok => certs = Range(f) \cap Certs
    BY <2>2, CertsInFile
  <2> HIDE DEF certs, ok
  <2>4. ok => RoleInv("server", b, called["server"] \cup {<<"ca", f>>})
    BY <2>1, <2>2, <2>3, BuilderOf, TwoRoles, RootsReplaced, Zenon
  <2> HIDE DEF b
  <2> QED BY <2>1, <2>4, TwoRoles, CallChanges
<1>6. ASSUME rustls_no_cert_verification PROVE Changed("client")
  <2> DEFINE b == [builder["client"] EXCEPT !.stage = "config", !.verify = FALSE]
  <2>1. builder["client"].stage = "verifier" /\ Call("client", "no verification", <<>>, TRUE, b)
    BY <1>6 DEF rustls_no_cert_verification, At
  <2>2. RoleInv("client", b, called["client"] \cup {<<"no verification", <<>> >>})
    BY BuilderOf, TwoRoles, VerificationSkipped, Zenon
  <2> HIDE DEF b
  <2> QED BY <2>1, <2>2, TwoRoles, CallChanges
<1>7. ASSUME no_client_auth PROVE Changed("client")
  <2> DEFINE b == [builder["client"] EXCEPT !.stage = "config"]
  <2>1. builder["client"].stage = "cert" /\ Call("client", "anonymous", <<>>, TRUE, b)
    BY <1>7 DEF no_client_auth, At
  <2>2. RoleInv("client", b, called["client"] \cup {<<"anonymous", <<>> >>})
    BY BuilderOf, TwoRoles, StageMoves, Zenon
  <2> HIDE DEF b
  <2> QED BY <2>1, <2>2, TwoRoles, CallChanges
<1>8. ASSUME no_client_authentication PROVE Changed("server")
  <2> DEFINE b == [builder["server"] EXCEPT !.stage = "cert"]
  <2>1. builder["server"].stage = "verifier" /\ Call("server", "anonymous", <<>>, TRUE, b)
    BY <1>8 DEF no_client_authentication, At
  <2>2. RoleInv("server", b, called["server"] \cup {<<"anonymous", <<>> >>})
    BY BuilderOf, TwoRoles, StageMoves, Zenon
  <2> HIDE DEF b
  <2> QED BY <2>1, <2>2, TwoRoles, CallChanges
<1> QED BY <1>1, <1>2, <1>3, <1>4, <1>5, <1>6, <1>7, <1>8, TwoRoles DEF RustlsStep

\* The switches that native-tls and openssl share.
LEMMA SwitchStep ==
  ASSUME BuildersInv, NEW backend, AcceptInvalidCerts(backend) \/ AcceptInvalidHostnames(backend)
  PROVE  Changed("client")
<1> DEFINE b == [builder["client"] EXCEPT !.verify = FALSE]
           c == [builder["client"] EXCEPT !.hostname = FALSE]
<1>1. builder["client"].stage = "config"
  BY DEF AcceptInvalidCerts, AcceptInvalidHostnames, At
<1>2. /\ RoleInv("client", b, called["client"] \cup {<<"no verification", <<>> >>})
      /\ RoleInv("client", c, called["client"] \cup {<<"no hostnames", <<>> >>})
  <2>1. builder["client"].stage # "verifier"
    BY <1>1
  <2> QED BY <2>1, BuilderOf, TwoRoles, ChecksDropped, Zenon
<1>3. \/ Call("client", "no verification", <<>>, TRUE, b)
      \/ Call("client", "no hostnames", <<>>, TRUE, c)
  BY Zenon DEF AcceptInvalidCerts, AcceptInvalidHostnames
<1> HIDE DEF b, c
<1> QED BY <1>1, <1>2, <1>3, TwoRoles, CallChanges

\* Roots that are added, by native-tls or openssl.
LEMMA RootsStep ==
  ASSUME BuildersInv, NEW r \in Roles, NEW backend, NEW file, NEW ok, NEW certs,
         AddRoots(r, backend, file, ok, certs),
         (backend = "native" /\ r = "client") \/ backend = "openssl",
         ok => certs \subseteq Certs /\ certs \subseteq Range(file),
         ok /\ backend = "openssl" => Range(file) \cap Certs \subseteq certs
  PROVE  Changed(r)
<1> DEFINE b == [builder[r] EXCEPT !.roots = @ \cup certs]
<1>1. builder[r].backend = backend /\ builder[r].stage = "config"
  BY DEF AddRoots, At
<1>2. ok => RoleInv(r, b, called[r] \cup {<<"ca", file>>})
  <2> SUFFICES ASSUME ok PROVE RoleInv(r, b, called[r] \cup {<<"ca", file>>})
    OBVIOUS
  <2>1. certs \in SUBSET Certs
    OBVIOUS
  <2> QED BY <1>1, <2>1, BuilderOf, RootsAdded, Zenon
<1>3. Call(r, "ca", file, ok, b)
  BY Zenon DEF AddRoots
<1> HIDE DEF b
<1> QED BY <1>1, <1>2, <1>3, CallChanges

LEMMA NativeStepChanges ==
  ASSUME BuildersInv, NativeStep
  PROVE  \E r \in Roles : Changed(r)
<1>1. ASSUME NEW partial \in BOOLEAN, anonymous(partial) PROVE Changed("client")
  <2> DEFINE b == [Native(partial) EXCEPT !.verify = FALSE, !.hostname = FALSE]
             calls == {"no verification", "no hostnames"} \X {<<>>}
  <2>1. RoleInv("client", b, calls)
    BY NativeAnonymousBegins, Zenon
  <2>2. Start("client", calls, b)
    BY <1>1, Zenon DEF anonymous
  <2> HIDE DEF b, calls
  <2> QED BY <2>1, <2>2, TwoRoles, Starts, Zenon
<1>2. ASSUME NEW partial \in BOOLEAN, NEW r \in Roles, NEW bundle \in Identities,
             identity(r, bundle, partial)
      PROVE  Changed(r)
  <2> DEFINE id == from_pkcs12(bundle)
             b == [Native(partial) EXCEPT !.certs = {id.leaf}, !.keys = {id.key}, !.chain = id.chain]
             calls == {<<"identity", <<>> >>}
  <2>1. from_pkcs12_ok(bundle) /\ Start(r, calls, b)
    BY <1>2, Zenon DEF identity
  <2>2. id.leaf \in Certs /\ id.key = KeyOf[id.leaf] /\ id.chain \in SUBSET Certs
    BY <2>1, BundleIsIdentity
  <2> HIDE DEF id
  <2>3. RoleInv(r, b, calls)
    BY <2>2, NativeIdentityBegins, Zenon
  <2> HIDE DEF b, calls
  <2> QED BY <2>1, <2>3, Starts, Zenon
<1>3. ASSUME no_cert_verification \/ danger_accept_invalid_hostnames PROVE Changed("client")
  BY <1>3, SwitchStep DEF no_cert_verification, danger_accept_invalid_hostnames
<1>4. ASSUME NEW f \in CaFiles, native_add_root_certificate(f) PROVE Changed("client")
  <2> DEFINE ok == X509PemBuilder(f) \in Certs
             certs == {X509PemBuilder(f)}
  <2>1. AddRoots("client", "native", f, ok, certs)
    BY <1>4 DEF native_add_root_certificate
  <2>2. f \in Seq(Items)
    OBVIOUS
  <2>3. ok => certs \subseteq Certs /\ certs \subseteq Range(f)
    BY <2>2, FirstOfIsInFile DEF X509PemBuilder, from_pem
  <2> HIDE DEF ok, certs
  <2> QED BY <2>1, <2>3, TwoRoles, RootsStep
<1> QED BY <1>1, <1>2, <1>3, <1>4, TwoRoles DEF NativeStep

\* Certificate, key and chain of an openssl builder: all of them or none.
LEMMA SetBothStep ==
  ASSUME BuildersInv, NEW r \in Roles, At(r, "openssl", "config"),
         NEW cert, NEW key, NEW chain, cert \in Certs => chain \subseteq Certs,
         SetBoth(r, cert, key, chain)
  PROVE  Changed(r)
<1> DEFINE ok == cert \in Certs /\ set_private_key_ok(set_certificate(builder[r], cert), key)
           b == [set_private_key(set_certificate(builder[r], cert), key) EXCEPT !.chain = @ \cup chain]
<1>1. builder[r].stage = "config"
  BY DEF At
<1>2. Call(r, IdentityCall(cert, key), <<>>, ok, b)
  BY Zenon DEF SetBoth
<1>3. ok => RoleInv(r, b, called[r] \cup {<<IdentityCall(cert, key), <<>> >>})
  <2>1. ok => chain \in SUBSET Certs
    OBVIOUS
  <2>2. builder[r].stage # "verifier"
    BY <1>1
  <2> QED BY <2>1, <2>2, BuilderOf, IdentityReplaced, Zenon
<1> HIDE DEF ok, b
<1> QED BY <1>1, <1>2, <1>3, CallChanges

LEMMA OpensslStepChanges ==
  ASSUME BuildersInv, OpensslStep
  PROVE  \E r \in Roles : Changed(r)
<1>1. ASSUME connector_builder PROVE Changed("client")
  <2> DEFINE b == [Blank EXCEPT !.backend = "openssl", !.stage = "config", !.partial = TRUE,
                                !.roots = SystemRoots]
  <2>1. RoleInv("client", b, {})
    BY BlankIsFresh, OpensslConnectorBegins, Zenon DEF Fresh
  <2>2. Start("client", {}, b)
    BY <1>1, Zenon DEF connector_builder
  <2> HIDE DEF b
  <2> QED BY <2>1, <2>2, TwoRoles, Starts, Zenon
<1>2. ASSUME acceptor_builder PROVE Changed("server")
  <2> DEFINE b == [Blank EXCEPT !.backend = "openssl", !.stage = "config"]
  <2>1. RoleInv("server", b, {})
    BY BlankIsFresh, OpensslAcceptorBegins, Zenon DEF Fresh
  <2>2. Start("server", {}, b)
    BY <1>2, Zenon DEF acceptor_builder
  <2> HIDE DEF b
  <2> QED BY <2>1, <2>2, TwoRoles, Starts, Zenon
<1>3. ASSUME with_certificate_verification_disabled \/ with_hostname_verification_disabled
      PROVE  Changed("client")
  BY <1>3, SwitchStep DEF with_certificate_verification_disabled, with_hostname_verification_disabled
<1>4. ASSUME NEW r \in Roles, NEW f, NEW g, with_certifiate_and_key_from_pem_files(r, f, g)
      PROVE  Changed(r)
  BY <1>4, SetBothStep DEF with_certifiate_and_key_from_pem_files
<1>5. ASSUME NEW r \in Roles, NEW f \in CaFiles, with_ca_from_pem_file(r, f) PROVE Changed(r)
  <2> DEFINE ok == load_root_ca(f) /\ load_certs(f) # {}
             certs == CertsIn(f)
  <2>1. AddRoots(r, "openssl", f, ok, certs)
    BY <1>5 DEF with_ca_from_pem_file
  <2>2. f \in Seq(Items)
    OBVIOUS
  <2>3. ok => certs = Range(f) \cap Certs
    BY <2>2, CertsInFile
  <2> HIDE DEF ok, certs
  <2> QED BY <2>1, <2>3, RootsStep
<1>6. ASSUME NEW cert, NEW key, with_certifiate_and_key(cert, key) PROVE Changed("server")
  BY <1>6, TwoRoles, SetBothStep DEF with_certifiate_and_key
<1>7. ASSUME NEW chain, with_chain(chain) PROVE Changed("server")
  <2> DEFINE b == [builder["server"] EXCEPT !.chain = @ \cup chain]
  <2>1. builder["server"].stage = "config" /\ chain \in SUBSET Certs
    BY <1>7 DEF with_chain, At
  <2>2. Call("server", "chain", <<>>, TRUE, b)
    BY <1>7, Zenon DEF with_chain
  <2>3. RoleInv("server", b, called["server"] \cup {<<"chain", <<>> >>})
    BY <2>1, BuilderOf, TwoRoles, ChainAdded, Zenon
  <2> HIDE DEF b
  <2> QED BY <2>1, <2>2, <2>3, TwoRoles, CallChanges
<1>8. ASSUME NEW cert, openssl_add_root_certificate(cert) PROVE Changed("client")
  <2>1. cert \in Certs /\ AddRoots("client", "openssl", <<cert>>, TRUE, {cert})
    BY <1>8 DEF openssl_add_root_certificate
  <2>2. Range(<<cert>>) = {cert}
    BY DEF Range
  <2> QED BY <2>1, <2>2, TwoRoles, RootsStep
<1>9. ASSUME NEW bundle \in Identities, with_identity(bundle) PROVE Changed("client")
  <2> DEFINE id == from_pkcs12(bundle)
  <2>1. /\ At("client", "openssl", "config") /\ from_pkcs12_ok(bundle)
        /\ SetBoth("client", id.leaf, id.key, id.chain)
    BY <1>9, Zenon DEF with_identity
  <2>2. id.chain \subseteq Certs
    BY <2>1, BundleIsIdentity
  <2> HIDE DEF id
  <2> QED BY <2>1, <2>2, TwoRoles, SetBothStep
<1>10. ASSUME NEW mode \in {"nobody", "whoever has one", "everybody"}, with_ssl_verify_mode(mode)
       PROVE  Changed("server")
  <2> DEFINE b == [builder["server"] EXCEPT !.asks = mode]
  <2>1. builder["server"].stage = "config" /\ builder["server"].backend = "openssl"
    BY <1>10 DEF with_ssl_verify_mode, At
  <2>2. Call("server", mode, <<>>, TRUE, b)
    BY <1>10, Zenon DEF with_ssl_verify_mode
  <2>3. RoleInv("server", b, called["server"] \cup {<<mode, <<>> >>})
    BY <2>1, BuilderOf, TwoRoles, ModeSet, Zenon
  <2> HIDE DEF b
  <2> QED BY <2>1, <2>2, <2>3, TwoRoles, CallChanges
<1> QED
  BY <1>1, <1>2, <1>3, <1>4, <1>5, <1>6, <1>7, <1>8, <1>9, <1>10, TwoRoles DEF OpensslStep

\* Every step of the builders changes one that is not built yet.
LEMMA BuilderStepChanges ==
  ASSUME BuildersInv, Next
  PROVE  \E r \in Roles : Changed(r)
<1>1. ASSUME NEW r \in Roles, build(r) PROVE Changed(r)
  <2> DEFINE b == [builder[r] EXCEPT !.stage = "built"]
  <2>1. builder[r].stage = "config"
    BY <1>1 DEF build
  <2>2. builder' = [builder EXCEPT ![r] = b]
    BY <1>1, Zenon DEF build
  <2>3. called' = [called EXCEPT ![r] = called[r]]
    BY <1>1 DEF build, BuildersInv
  <2>4. RoleInv(r, b, called[r])
    BY BuilderOf, StageMoves, Zenon
  <2> HIDE DEF b
  <2> QED BY <2>1, <2>2, <2>3, <2>4, Succeeds
<1>2. ASSUME NEW r \in Roles, Fails(r) PROVE Changed(r)
  BY <1>2, CallChanges DEF Fails
<1> QED
  BY <1>1, <1>2, RustlsStepChanges, NativeStepChanges, OpensslStepChanges DEF Next

---------------------------------------------------------------------------
\* Sessions.

\* The client is built after the server, and a session is between two that are built:
\* what the handshake found still holds of them.
SessionInv ==
  /\ BuildersInv
  /\ client.stage # "none" => server.stage = "built"
  /\ session \in {"idle", "hello", "connected", "refused", "accepted", "rejected"}
  /\ session # "idle" => client.stage = "built" /\ shown["server"] \in Shows(server)
  /\ session \in {"connected", "accepted", "rejected"} => ServerAccepted
  /\ session = "refused" => ~ServerAccepted
  /\ session = "accepted" => ClientAccepted

LEMMA SessionInitInv == SessionInit => SessionInv
<1> SUFFICES ASSUME SessionInit PROVE SessionInv
  OBVIOUS
<1>1. \A r \in Roles : builder[r] = Blank /\ called[r] = {}
  BY DEF SessionInit, Init
<1>2. BuildersInv
  <2>1. builder \in [Roles -> Builders]
    BY BlankIsFresh DEF SessionInit, Init, Fresh
  <2>2. called = [r \in Roles |-> called[r]]
    BY DEF SessionInit, Init
  <2>3. ASSUME NEW r \in Roles PROVE RoleInv(r, builder[r], called[r])
    <3>1. builder[r] = Blank /\ called[r] = {}
      BY <1>1
    <3> QED BY <3>1, BlankInv, Zenon
  <2> QED BY <2>1, <2>2, <2>3 DEF BuildersInv
<1>3. client.stage = "none" /\ session = "idle"
  BY <1>1, BlankIsFresh, TwoRoles DEF client, Fresh, SessionInit
<1> QED BY <1>2, <1>3 DEF SessionInv

\* A step of the builders comes before the session.
LEMMA BuilderStepInv ==
  ASSUME SessionInv, Next, UNCHANGED <<session, name, shown>>
  PROVE  SessionInv'
<1>1. PICK r \in Roles : Changed(r)
  BY BuilderStepChanges DEF SessionInv
<1>2. /\ \A q \in Roles : q # r => builder'[q] = builder[q] /\ called'[q] = called[q]
      /\ called' = [q \in Roles |-> called'[q]]
  BY <1>1 DEF Changed, SessionInv, BuildersInv
<1>3. RoleInv(r, builder'[r], called'[r]) /\ builder'[r] \in Builders
  BY <1>1 DEF Changed, RoleInv, BuilderInv
<1>4. BuildersInv'
  <2>1. builder' \in [Roles -> Builders]
    BY <1>1, <1>3 DEF Changed, SessionInv, BuildersInv
  <2>2. ASSUME NEW q \in Roles PROVE RoleInv(q, builder'[q], called'[q])
    BY <1>2, <1>3 DEF SessionInv, BuildersInv
  <2> QED BY <1>2, <2>1, <2>2 DEF BuildersInv
<1>5. r = "client" \/ r = "server"
  BY DEF Roles
<1>6. session = "idle"
  BY <1>1, <1>5 DEF SessionInv, Changed, client, server
<1>7. client'.stage # "none" => server'.stage = "built"
  BY <1>1, <1>2, <1>5, TwoRoles DEF SessionInv, Changed, client, server
<1> QED BY <1>4, <1>6, <1>7 DEF SessionInv

LEMMA SessionStepInv == SessionInv /\ [SessionNext]_sessionVars => SessionInv'
<1> SUFFICES ASSUME SessionInv, [SessionNext]_sessionVars PROVE SessionInv'
  OBVIOUS
<1>1. CASE Next /\ UNCHANGED <<session, name, shown>>
  BY <1>1, BuilderStepInv
<1>2. ASSUME UNCHANGED vars
      PROVE  /\ BuildersInv' /\ (client.stage # "none" => server.stage = "built")'
             /\ client' = client /\ server' = server
  BY <1>2 DEF vars, SessionInv, BuildersInv, client, server
<1>3. ASSUME UNCHANGED <<vars, name, shown>>
      PROVE  /\ (ServerAccepted' <=> ServerAccepted) /\ (ClientAccepted' <=> ClientAccepted)
             /\ (shown["server"] \in Shows(server))' <=> shown["server"] \in Shows(server)
  BY <1>2, <1>3 DEF ServerAccepted, NoCertificateVerification, ClientAccepted, Shows, Complete
<1>4. ASSUME NEW n \in Names, connect(n) PROVE SessionInv'
  <2>1. (shown["server"] \in Shows(server))'
    <3>1. PICK c \in Shows(client), s \in Shows(server) : shown' = [client |-> c, server |-> s]
      BY <1>4 DEF connect
    <3>2. server' = server
      BY <1>2, <1>4 DEF connect
    <3> QED BY <3>1, <3>2 DEF Shows, Complete
  <2> QED BY <1>2, <1>4, <2>1 DEF connect, SessionInv
<1>5. CASE ClientFinishes
  BY <1>2, <1>3, <1>5 DEF ClientFinishes, Goto, SessionInv
<1>6. CASE accept
  BY <1>2, <1>3, <1>6 DEF accept, Goto, SessionInv
<1>7. CASE UNCHANGED sessionVars
  BY <1>2, <1>3, <1>7 DEF sessionVars, SessionInv
<1> QED BY <1>1, <1>4, <1>5, <1>6, <1>7 DEF SessionNext

\* Every state of a session: the builders go with the calls that were made on them, and an
\* outcome of the handshake goes with what was built.
THEOREM SessionInvariant == SessionSpec => []SessionInv
<1> QED BY SessionInitInv, SessionStepInv, PTL DEF SessionSpec

---------------------------------------------------------------------------
\* What the invariant says of the calls that were made.
LEMMA CallsMade ==
  /\ \A r \in Roles : GivenCas(r) = CasOf(called[r])
  /\ \A r \in Roles : \A call : Said(r, call) <=> Told(called[r], call)
BY DEF GivenCas, CasOf, Said, Told

LEMMA TrustedDescends ==
  ASSUME NEW leaf, NEW chain, NEW roots, NEW partial, NEW cas, roots \subseteq cas,
         Trusted(leaf, chain, roots, partial)
  PROVE  DescendsFrom(leaf, cas)
BY DEF Trusted, DescendsFrom

\* Whatever was set, replaced or refused on a builder of any backend, in any order and any
\* number of calls, a certificate that it can show goes with its key; and every certificate
\* it was built with can be shown, unless openssl was given a certificate and a key of two
\* algorithms.
THEOREM KeysMatchCertificates == SessionSpec => []KeyMatchesCertificate
<1>1. SessionInv => KeyMatchesCertificate
  <2> SUFFICES ASSUME SessionInv, NEW r \in Roles
               PROVE  /\ \A p \in Complete(builder[r]) : p.key = KeyOf[p.leaf]
                      /\ \/ Said(r, "mixed identity")
                         \/ \A c \in builder[r].certs : KeyOf[c] \in builder[r].keys
    BY DEF KeyMatchesCertificate
  <2>1. BuilderInv(builder[r], called[r])
    BY BuilderOf DEF SessionInv, RoleInv
  <2> QED BY <2>1, CallsMade DEF BuilderInv, Complete
<1> QED BY <1>1, SessionInvariant, PTL

\* A client that connected has verified the server's certificate, and its name, against the
\* CAs its builder was given, unless a call on the builder gave that check up.
THEOREM ConnectedServersVerified == SessionSpec => []ConnectedServerVerified
<1>1. ASSUME SessionInv PROVE ConnectedServerVerified
  <2> SUFFICES ASSUME session \in {"connected", "accepted", "rejected"}, ~Said("client", "no verification")
               PROVE  /\ DescendsFrom(shown["server"].leaf, GivenCas("client") \cup SystemRoots)
                      /\ ~Said("client", "no hostnames") => Name[shown["server"].leaf] = name
    BY DEF ConnectedServerVerified
  <2>1. RoleInv("client", client, called["client"])
    BY <1>1, TwoRoles, BuilderOf DEF SessionInv, client
  <2>2. client.verify /\ (Said("client", "no hostnames") \/ client.hostname)
    BY <2>1, CallsMade, TwoRoles DEF RoleInv, BuilderInv
  <2>3. client.roots \subseteq GivenCas("client") \cup SystemRoots
    BY <2>1, CallsMade, TwoRoles DEF RoleInv, BuilderInv
  <2>4. ServerAccepted
    BY <1>1 DEF SessionInv
  <2>5. /\ Trusted(shown["server"].leaf, server.chain, client.roots, client.partial)
        /\ client.hostname => Name[shown["server"].leaf] = name
    BY <2>2, <2>4 DEF ServerAccepted, NoCertificateVerification
  <2> QED BY <2>2, <2>3, <2>5, TrustedDescends
<1> QED BY <1>1, SessionInvariant, PTL

\* An acceptor that was told to authenticate its clients accepts only those that have a
\* certificate below a CA it was given: neither the order of the calls nor a CA file that
\* comes with the system lets another one in.
THEOREM AcceptedClientsAuthenticated == SessionSpec => []AcceptedClientAuthenticated
<1>1. ASSUME SessionInv PROVE AcceptedClientAuthenticated
  <2> DEFINE told == \/ server.backend = "rustls" /\ GivenCas("server") # {}
                     \/ /\ Said("server", "everybody") /\ ~Said("server", "whoever has one")
                        /\ ~Said("server", "nobody")
  <2> SUFFICES ASSUME session = "accepted", told
               PROVE  shown["client"].leaf # None /\ DescendsFrom(shown["client"].leaf, GivenCas("server"))
    BY DEF AcceptedClientAuthenticated
  <2>1. RoleInv("server", server, called["server"])
    BY <1>1, TwoRoles, BuilderOf DEF SessionInv, server
  <2>2. server.asks = "everybody" /\ server.roots \subseteq GivenCas("server")
    BY <2>1, CallsMade, TwoRoles DEF RoleInv, ServerInv
  <2>3. ClientAccepted
    BY <1>1 DEF SessionInv
  <2>4. shown["client"].leaf # None /\ Trusted(shown["client"].leaf, client.chain, server.roots, server.partial)
    BY <2>2, <2>3 DEF ClientAccepted
  <2> QED BY <2>2, <2>4, TrustedDescends
<1> QED BY <1>1, SessionInvariant, PTL

\* The connectors of rustls and openssl refuse no server whose issuer is among the CAs they
\* were given and whose name is the one they ask for.
THEOREM IssuersSuffice == SessionSpec => []IssuerSuffices
<1>1. ASSUME SessionInv PROVE IssuerSuffices
  <2> SUFFICES ASSUME session = "refused", client.backend \in {"rustls", "openssl"},
                      shown["server"].leaf # None, Issuer[shown["server"].leaf] \in GivenCas("client"),
                      Name[shown["server"].leaf] = name \/ Said("client", "no hostnames")
               PROVE  FALSE
    BY DEF IssuerSuffices
  <2>1. RoleInv("client", client, called["client"]) /\ RoleInv("server", server, called["server"])
    BY <1>1, TwoRoles, BuilderOf DEF SessionInv, client, server
  <2>2. shown["server"].leaf \in Certs /\ shown["server"].key = KeyOf[shown["server"].leaf]
    <3>1. shown["server"] \in Complete(server)
      <4>1. shown["server"] \in Shows(server)
        BY <1>1 DEF SessionInv
      <4>2. Nothing.leaf = None
        BY DEF Nothing
      <4>3. shown["server"] # Nothing
        BY <4>2, Zenon
      <4> QED BY <4>1, <4>3, Zenon DEF Shows
    <3>2. /\ shown["server"].leaf \in server.certs /\ shown["server"].key \in server.keys
          /\ SameAlgorithm(KeyOf[shown["server"].leaf], shown["server"].key)
      BY <3>1 DEF Complete
    <3>3. /\ server.certs \subseteq Certs
          /\ \A c \in server.certs, k \in server.keys : SameAlgorithm(KeyOf[c], k) => k = KeyOf[c]
      BY <2>1 DEF RoleInv, BuilderInv, Builders
    <3> QED BY <3>2, <3>3
  <2>3. Issuer[shown["server"].leaf] \in Certs
    BY <2>2
  <2>4. Issuer[shown["server"].leaf] \in client.roots /\ client.partial
    BY <2>1, <2>3, CallsMade, TwoRoles DEF RoleInv, BuilderInv, ClientInv
  <2>5. client.hostname => Name[shown["server"].leaf] = name
    BY <2>1, CallsMade, TwoRoles DEF RoleInv, BuilderInv
  <2>6. Trusted(shown["server"].leaf, server.chain, client.roots, client.partial)
    <3>1. 1 \in DOMAIN Ancestor /\ Ancestor[1][shown["server"].leaf] = Issuer[shown["server"].leaf]
      BY <2>2, AncestorIsIssuer
    <3>2. \A k \in 1 .. 1 - 1 : Ancestor[k][shown["server"].leaf] \in server.chain \cup client.roots
      BY NoneBetween, Zenon
    <3> HIDE DEF Ancestor
    <3>3. Ancestor[1][shown["server"].leaf] \in client.roots
      BY <2>4, <3>1
    <3> QED BY <2>4, <3>1, <3>2, <3>3, Zenon DEF Trusted
  <2>7. ServerAccepted
    BY <2>2, <2>5, <2>6 DEF ServerAccepted
  <2> QED BY <1>1, <2>7 DEF SessionInv
<1> QED BY <1>1, SessionInvariant, PTL
=============================================================================
