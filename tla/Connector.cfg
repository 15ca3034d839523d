SPECIFICATION Spec
CONSTANTS
  Calls = {c1, c2}
  Fds = {f3, f4}
  Domains = {d1, d2}
  Address = address
  Backends = {"ws", "tcp", "native", "rustls", "openssl"}
  Windows = FALSE
INVARIANT FdNamesConnection NoSocketLeaks HandedOutTuned
