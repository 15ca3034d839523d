SPECIFICATION SessionSpec
CONSTANTS
  Certs = {"root", "inter", "srv", "cli"}
  Keys = {"kroot", "kinter", "ksrv", "kcli"}
  Issuer <- MCIssuer
  KeyOf <- MCKeyOf
  Algorithm <- MCAlgorithm
  Name <- MCName
  CertFiles <- MCCertFiles
  KeyFiles <- MCKeyFiles
  CaFiles <- MCCaFiles
  Bundles <- MCBundles
  SystemRoots = {}
  MaxCalls = 3
  Names = {"host"}
INVARIANT ConnectedServerVerified AcceptedClientAuthenticated KeyMatchesCertificate IssuerSuffices
