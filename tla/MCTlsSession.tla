---------------------------- MODULE MCTlsSession ----------------------------
(***************************************************************************)
(* A small public key infrastructure: a root, an intermediate below it, a   *)
(* server below the intermediate and a client below the root; and files     *)
(* with a chain, with one certificate, with the wrong things and broken.    *)
(* The client's key is of another algorithm than the other keys.            *)
(***************************************************************************)
EXTENDS TlsSession

MCIssuer == [root |-> "root", inter |-> "root", srv |-> "inter", cli |-> "root"]
MCKeyOf == [root |-> "kroot", inter |-> "kinter", srv |-> "ksrv", cli |-> "kcli"]
MCAlgorithm == [kroot |-> "RSA", kinter |-> "RSA", ksrv |-> "RSA", kcli |-> "EC"]
MCName == [root |-> "nowhere", inter |-> "nowhere", srv |-> "host", cli |-> "user"]
MCCertFiles == {<<"srv", "inter">>, <<"kcli", "cli">>, <<"bad", "srv">>}
MCKeyFiles == {<<"srv", "ksrv">>, <<"kcli", "ksrv">>, <<"kinter">>, <<"malformed", "ksrv">>, <<>>}
MCCaFiles == {<<"root", "inter">>, <<"inter">>, <<"bad", "root">>, <<>>}
MCBundles ==
  {[pass |-> "test", key |-> "ksrv", certs |-> {"srv", "inter"}],
   [pass |-> "test", key |-> "kroot", certs |-> {"srv"}],
   [pass |-> "other", key |-> "ksrv", certs |-> {"srv"}]}
=============================================================================
