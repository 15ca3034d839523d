----------------------------- MODULE TlsBuilder -----------------------------
(***************************************************************************)
(* The connector and acceptor builders of the three TLS backends:           *)
(* rust_tls.rs mod builder, native_tls.rs mod builder, openssl/connector.rs *)
(* and openssl/acceptor.rs.  The builders of rustls go through stages; the  *)
(* calls of the others come in any order and any number.  Every call takes  *)
(* the builder and gives it back only if all of its parts succeeded.        *)
(***************************************************************************)
EXTENDS TlsFiles, FiniteSets

CONSTANTS CertFiles, KeyFiles, CaFiles,  \* PEM files the calls are given
          Bundles,                       \* PKCS #12 files
          SystemRoots,                   \* what openssl trusts from the start
          MaxCalls                       \* bound on the calls on one builder

None == "none"
Roles == {"client", "server"}

ASSUME BuilderAssumption ==
  /\ CertFiles \cup KeyFiles \cup CaFiles \subseteq Seq(Items)
  /\ \A b \in Bundles : b.key \in Keys /\ b.certs \subseteq Certs
  /\ SystemRoots \subseteq Certs /\ None \notin Certs

VARIABLES builder,  \* per role, the builder or what it built
          called    \* history, per role: the successful calls on it, with the CA file they had

vars == <<builder, called>>

\* An IdentityBuilder has a file's bytes or what from_x509 made.
Identities ==
  Bundles \cup {from_x509(p[1], p[2]) : p \in {q \in CertFiles \X KeyFiles : from_x509_ok(q[1], q[2])}}

Blank ==
  [backend |-> None, stage |-> "none", verify |-> TRUE, hostname |-> TRUE, partial |-> FALSE,
   roots |-> {}, certs |-> {}, keys |-> {}, chain |-> {}, asks |-> "nobody"]

Init == builder = [r \in Roles |-> Blank] /\ called = [r \in Roles |-> {}]

\* A builder of the backend is at the stage.
At(r, backend, stage) ==
  /\ builder[r].backend = backend /\ builder[r].stage = stage
  /\ Cardinality(called[r]) < MaxCalls

\* A call: after it the builder is b, or gone if a part of the call failed.
Call(r, call, file, ok, b) ==
  /\ builder' = [builder EXCEPT ![r] = IF ok THEN b ELSE Blank]
  /\ called' = [called EXCEPT ![r] = IF ok THEN @ \cup {<<call, file>>} ELSE {}]

\* A new builder for what is not there yet; the server's comes first.
Start(r, calls, b) ==
  /\ builder[r] = Blank /\ (r = "server" \/ builder["server"].stage = "built")
  /\ builder' = [builder EXCEPT ![r] = b]
  /\ called' = [called EXCEPT ![r] = calls]

\* An SSL_CTX has one place for a certificate and its key per algorithm.
\* SslContextBuilder::set_certificate: the certificate takes the place of its algorithm,
\* where a key that does not go with it is forgotten.
set_certificate(b, cert) ==
  [b EXCEPT !.certs = {c \in @ : ~SameAlgorithm(KeyOf[c], KeyOf[cert])} \cup {cert},
            !.keys = {k \in @ : SameAlgorithm(KeyOf[cert], k) => k = KeyOf[cert]}]

\* SslContextBuilder::set_private_key: the key takes the place of its algorithm.  It is an
\* Err if the certificate there does not go with it; one in another place is not looked at.
set_private_key_ok(b, key) ==
  key \in Keys /\ \A c \in b.certs : SameAlgorithm(KeyOf[c], key) => KeyOf[c] = key

set_private_key(b, key) == [b EXCEPT !.keys = {k \in @ : ~SameAlgorithm(k, key)} \cup {key}]

\* How an identity is remembered: with a certificate and a key of one algorithm or of two.
IdentityCall(cert, key) == IF SameAlgorithm(KeyOf[cert], key) THEN "identity" ELSE "mixed identity"

\* Mutant: the key is set before the certificate.
SetBothKeyFirst(r, cert, key, chain) ==
  LET b == builder[r]
  IN  Call(r, IdentityCall(cert, key), <<>>, cert \in Certs /\ set_private_key_ok(b, key),
           [set_certificate(set_private_key(b, key), cert) EXCEPT !.chain = @ \cup chain])

\* Certificate, key and chain, in this order, each of which may fail.  Nothing asks at the
\* end whether they go together (check_private_key).
SetBoth(r, cert, key, chain) ==
  LET b == builder[r]
  IN  Call(r, IdentityCall(cert, key), <<>>,
           cert \in Certs /\ set_private_key_ok(set_certificate(b, cert), key),
           [set_private_key(set_certificate(b, cert), key) EXCEPT !.chain = @ \cup chain])

---------------------------------------------------------------------------
\* rustls.  The connector's stages: a verifier, a client certificate, the configuration.
with_safe_defaults(r) ==
  Start(r, {}, [Blank EXCEPT !.backend = "rustls", !.stage = "verifier", !.partial = TRUE])

\* The roots take the place of the empty store.
with_root_certificates(certs) ==
  [builder["client"] EXCEPT !.stage = "cert", !.roots = certs]

\* load_ca_cert and load_ca_cert_from_bytes.
load_ca_cert(f) ==
  /\ At("client", "rustls", "verifier")
  /\ Call("client", "ca", f, load_root_ca(f), with_root_certificates(CertsIn(f)))

rustls_no_cert_verification ==
  /\ At("client", "rustls", "verifier")
  /\ Call("client", "no verification", <<>>, TRUE,
          [builder["client"] EXCEPT !.stage = "config", !.verify = FALSE])

no_client_auth ==
  /\ At("client", "rustls", "cert")
  /\ Call("client", "anonymous", <<>>, TRUE, [builder["client"] EXCEPT !.stage = "config"])

\* with_single_cert: the first certificate must be one and go with the key.
with_single_cert(r, file, key) ==
  LET first == Min(load_certs(file))
  IN  Call(r, "identity", <<>>,
           load_certs(file) # {} /\ file[first] \in Certs /\ key = KeyOf[file[first]],
           [builder[r] EXCEPT !.stage = "config", !.certs = {file[first]}, !.keys = {key},
                              !.chain = {file[i] : i \in load_certs(file) \ {first}}])

\* All the certificates of one file, the first key of the other.  A malformed key file
\* is a panic, which takes the builder as an error does.
LoadIdentity(r, f, g) ==
  IF WellFormed(f) /\ WellFormed(g)
  THEN with_single_cert(r, f, load_first_key(g))
  ELSE Call(r, "identity", <<>>, FALSE, Blank)

\* load_client_certs and load_client_certs_from_bytes.
load_client_certs(f, g) == At("client", "rustls", "cert") /\ LoadIdentity("client", f, g)

load_server_certs(f, g) == At("server", "rustls", "cert") /\ LoadIdentity("server", f, g)

no_client_authentication ==
  /\ At("server", "rustls", "verifier")
  /\ Call("server", "anonymous", <<>>, TRUE, [builder["server"] EXCEPT !.stage = "cert"])

\* Mutant: a client without a certificate is let in.
client_authenticateOptional(f) ==
  /\ At("server", "rustls", "verifier")
  /\ Call("server", "ca", f, load_root_ca(f) /\ load_certs(f) # {},
          [builder["server"] EXCEPT !.stage = "cert", !.roots = CertsIn(f),
                                    !.asks = "whoever has one"])

\* client_authenticate: WebPkiClientVerifier wants at least one root.
client_authenticate(f) ==
  /\ At("server", "rustls", "verifier")
  /\ Call("server", "ca", f, load_root_ca(f) /\ load_certs(f) # {},
          [builder["server"] EXCEPT !.stage = "cert", !.roots = CertsIn(f),
                                    !.asks = "everybody"])

---------------------------------------------------------------------------
\* native-tls.  Whether it accepts partial chains is up to the library.
Native(partial) ==
  [Blank EXCEPT !.backend = "native", !.stage = "config", !.partial = partial, !.roots = SystemRoots]

\* ConnectorBuilder::identity and AcceptorBuilder::identity.
identity(r, bundle, partial) ==
  /\ from_pkcs12_ok(bundle)
  /\ LET id == from_pkcs12(bundle)
     IN  Start(r, {<<"identity", <<>> >>},
               [Native(partial) EXCEPT !.certs = {id.leaf}, !.keys = {id.key}, !.chain = id.chain])

anonymous(partial) ==
  Start("client", {"no verification", "no hostnames"} \X {<<>>},
        [Native(partial) EXCEPT !.verify = FALSE, !.hostname = FALSE])

\* The switches of native-tls and openssl.
AcceptInvalidCerts(backend) ==
  /\ At("client", backend, "config")
  /\ Call("client", "no verification", <<>>, TRUE, [builder["client"] EXCEPT !.verify = FALSE])

\* Mutant: with the name the certificate goes unchecked.
AcceptInvalidHostnamesAndCerts(backend) ==
  /\ At("client", backend, "config")
  /\ Call("client", "no hostnames", <<>>, TRUE,
          [builder["client"] EXCEPT !.hostname = FALSE, !.verify = FALSE])

AcceptInvalidHostnames(backend) ==
  /\ At("client", backend, "config")
  /\ Call("client", "no hostnames", <<>>, TRUE, [builder["client"] EXCEPT !.hostname = FALSE])

no_cert_verification == AcceptInvalidCerts("native")
danger_accept_invalid_hostnames == AcceptInvalidHostnames("native")

\* Roots are added to the ones that are there.
AddRoots(r, backend, f, ok, certs) ==
  /\ At(r, backend, "config")
  /\ Call(r, "ca", f, ok, [builder[r] EXCEPT !.roots = @ \cup certs])

\* The first certificate of the file only.
native_add_root_certificate(f) ==
  AddRoots("client", "native", f, X509PemBuilder(f) \in Certs, {X509PemBuilder(f)})

---------------------------------------------------------------------------
\* Mutant: PARTIAL_CHAIN is not set.
connector_builderFullChain ==
  Start("client", {}, [Blank EXCEPT !.backend = "openssl", !.stage = "config",
                                    !.roots = SystemRoots])

\* openssl.  TlsConnector::builder: partial chains are allowed, the name is checked.
connector_builder ==
  Start("client", {}, [Blank EXCEPT !.backend = "openssl", !.stage = "config",
                                    !.partial = TRUE, !.roots = SystemRoots])

\* TlsAcceptor::builder: nobody is asked for a certificate, no root is trusted.
acceptor_builder == Start("server", {}, [Blank EXCEPT !.backend = "openssl", !.stage = "config"])

with_certificate_verification_disabled == AcceptInvalidCerts("openssl")
with_hostname_verification_disabled == AcceptInvalidHostnames("openssl")

\* Of the certificate file only the first one is used: no chain.
with_certifiate_and_key_from_pem_files(r, f, g) ==
  /\ At(r, "openssl", "config")
  /\ SetBoth(r, from_pem(f), private_key_from_pem(g), {})

\* The acceptor's with_certifiate_and_key: whatever the caller has.
with_certifiate_and_key(cert, key) ==
  /\ At("server", "openssl", "config")
  /\ SetBoth("server", cert, key, {})

with_chain(chain) ==
  /\ At("server", "openssl", "config") /\ chain \subseteq Certs /\ chain # {}
  /\ Call("server", "chain", <<>>, TRUE, [builder["server"] EXCEPT !.chain = @ \cup chain])

\* set_ca_file takes all certificates of the file, and wants at least one.
with_ca_from_pem_file(r, f) ==
  AddRoots(r, "openssl", f, load_root_ca(f) /\ load_certs(f) # {}, CertsIn(f))

\* What is added was parsed before.
openssl_add_root_certificate(cert) ==
  cert \in Certs /\ AddRoots("client", "openssl", <<cert>>, TRUE, {cert})

\* The bundle may be unusable, and then the three parts are set one by one.
with_identity(bundle) ==
  /\ At("client", "openssl", "config") /\ from_pkcs12_ok(bundle)
  /\ LET id == from_pkcs12(bundle) IN SetBoth("client", id.leaf, id.key, id.chain)

with_ssl_verify_mode(mode) ==
  /\ At("server", "openssl", "config")
  /\ Call("server", mode, <<>>, TRUE, [builder["server"] EXCEPT !.asks = mode])

---------------------------------------------------------------------------
\* A file cannot be read, or is not what the call needs: the error takes the builder.
Fails(r) ==
  /\ builder[r].stage \in {"verifier", "cert", "config"}
  /\ Call(r, "nothing", <<>>, FALSE, Blank)

build(r) ==
  /\ builder[r].stage = "config"
  /\ builder' = [builder EXCEPT ![r].stage = "built"]
  /\ UNCHANGED called

RustlsStep ==
  \/ \E r \in Roles : with_safe_defaults(r)
  \/ \E f \in CertFiles, g \in KeyFiles : load_client_certs(f, g) \/ load_server_certs(f, g)
  \/ \E f \in CaFiles : load_ca_cert(f) \/ client_authenticate(f)
  \/ rustls_no_cert_verification \/ no_client_auth \/ no_client_authentication

NativeStep ==
  \/ \E partial \in BOOLEAN : anonymous(partial) \/ \E r \in Roles, b \in Identities : identity(r, b, partial)
  \/ no_cert_verification \/ danger_accept_invalid_hostnames
  \/ \E f \in CaFiles : native_add_root_certificate(f)

OpensslStep ==
  \/ connector_builder \/ acceptor_builder
  \/ with_certificate_verification_disabled \/ with_hostname_verification_disabled
  \/ \E r \in Roles : \/ \E f \in CertFiles, g \in KeyFiles : with_certifiate_and_key_from_pem_files(r, f, g)
                      \/ \E f \in CaFiles : with_ca_from_pem_file(r, f)
  \/ \E f \in CertFiles, g \in KeyFiles : with_certifiate_and_key(from_pem(f), private_key_from_pem(g))
  \/ \E f \in CaFiles : with_chain(Range(f))
  \/ \E f \in CaFiles : openssl_add_root_certificate(from_pem(f))
  \/ \E b \in Identities : with_identity(b)
  \/ \E mode \in {"nobody", "whoever has one", "everybody"} : with_ssl_verify_mode(mode)

Next ==
  \/ RustlsStep \/ NativeStep \/ OpensslStep
  \/ \E r \in Roles : build(r) \/ Fails(r)
=============================================================================
