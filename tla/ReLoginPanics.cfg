\* A connection that is online logs in again under another id.
CONSTANTS
  Ids = {u1, u2}
  Names = {s1}
  Nobody = Nobody
  Conns = {c1, c2}
  NoConn = NoConn
  ReLogin = TRUE
  PingMayFail = FALSE
SPECIFICATION Spec
INVARIANT NeverPanics
