------------------------------ MODULE TlsFiles ------------------------------
(***************************************************************************)
(* What the TLS builders make of certificate, key and PKCS #12 files:       *)
(* rust_tls.rs mod cert, native_tls.rs mod cert, openssl/connector.rs mod   *)
(* certs, openssl/certificate.rs and net/mod.rs mod certs.  A PEM file is   *)
(* the sequence of its sections: certificates, keys, a certificate section  *)
(* that holds no certificate, and a section that is not even PEM.  rustls   *)
(* reads all of a file, openssl the first section of the kind it wants.     *)
(***************************************************************************)
EXTENDS Sequences, FiniteSetsExt

CONSTANTS Certs, Keys,  \* certificates and private keys
          Issuer,       \* per certificate, the one that signed it; a root is its own
          KeyOf,        \* per certificate, the key it goes with
          Algorithm,    \* per key, what it is a key of: RSA, EC, ...
          Name          \* per certificate, the host it is for

NoKey == "no key"
Bad == "bad"              \* CERTIFICATE section without a certificate in it
Malformed == "malformed"  \* section that cannot be decoded

Items == Certs \cup Keys \cup {Bad, Malformed}

ASSUME FilesAssumption ==
  /\ Issuer \in [Certs -> Certs] /\ KeyOf \in [Certs -> Keys]
  /\ {Bad, Malformed} \cap (Certs \cup Keys) = {} /\ NoKey \notin Keys

SameAlgorithm(k, l) == Algorithm[k] = Algorithm[l]

WellFormed(file) == Malformed \notin Range(file)

\* The sections of a kind, by their places in the file.
Sections(file, kind) == {i \in DOMAIN file : file[i] \in kind}

\* rustls: every certificate section, decoded or not; an Err if the file is malformed.
load_certs(file) == Sections(file, Certs \cup {Bad})

\* rustls: the keys, whatever is between them; a panic if the file is malformed.
load_keys(file) == Sections(file, Keys)

\* rustls: the first key, an Err without one.
load_first_key(file) == IF load_keys(file) = {} THEN NoKey ELSE file[Min(load_keys(file))]

CertsIn(file) == {file[i] : i \in load_certs(file)}

\* RootCertStore::add takes real certificates only, and one Err is an Err of the store.
load_root_ca(file) == WellFormed(file) /\ CertsIn(file) \subseteq Certs

\* openssl: the first section of a kind, if none before it is malformed.
FirstOf(file, kind) ==
  LET seen == Sections(file, kind \cup {Malformed})
  IN  IF seen = {} THEN Malformed ELSE file[Min(seen)]

\* Certificate::from_pem, set_certificate_file.
from_pem(file) == FirstOf(file, Certs \cup {Bad})

\* X509PemBuilder::build and build_native.
X509PemBuilder(file) == from_pem(file)

\* PrivateKeyBuilder::build, set_private_key_file.
private_key_from_pem(file) == FirstOf(file, Keys)

---------------------------------------------------------------------------
PASSWORD == "test"

\* IdentityBuilder::from_x509: one certificate and one key, without a chain ...
from_x509(certFile, keyFile) ==
  [pass |-> PASSWORD, key |-> private_key_from_pem(keyFile), certs |-> {X509PemBuilder(certFile)}]

\* ... that Pkcs12::build2 refuses when they do not go together.
from_x509_ok(certFile, keyFile) ==
  /\ X509PemBuilder(certFile) \in Certs
  /\ KeyOf[X509PemBuilder(certFile)] = private_key_from_pem(keyFile)

\* Identity::from_pkcs12: the password must be PASSWORD, and the bundle must have a
\* private key and its certificate; the others are the chain.
from_pkcs12_ok(bundle) ==
  bundle.pass = PASSWORD /\ bundle.key \in {KeyOf[c] : c \in bundle.certs}

from_pkcs12(bundle) ==
  LET cert == CHOOSE c \in bundle.certs : KeyOf[c] = bundle.key
  IN  [leaf |-> cert, key |-> bundle.key, chain |-> bundle.certs \ {cert}]

---------------------------------------------------------------------------
\* The certificate n issuers above.
Ancestor[n \in 0 .. 3] == [c \in Certs |-> IF n = 0 THEN c ELSE Issuer[Ancestor[n - 1][c]]]

DescendsFrom(c, cas) == \E n \in DOMAIN Ancestor : Ancestor[n][c] \in cas

\* The libraries' check: a path from the leaf to a trusted certificate, over what the
\* peer sent or the verifier has.  Unless partial chains are allowed it ends at a root.
Trusted(leaf, chain, roots, partial) ==
  \E n \in DOMAIN Ancestor :
    /\ Ancestor[n][leaf] \in roots
    /\ \A k \in 1 .. n - 1 : Ancestor[k][leaf] \in chain \cup roots
    /\ partial \/ Issuer[Ancestor[n][leaf]] = Ancestor[n][leaf]
=============================================================================
