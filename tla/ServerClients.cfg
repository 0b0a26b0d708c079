\* Two users on two connection objects, one service name; no connection logs in
\* while it is online, though a user may log in on both; no writer gives up.
\* The server must never stop, so deadlock is checked.  No symmetry: liveness is
\* checked.
CONSTANTS
  Ids = {u1, u2}
  Names = {s1}
  Nobody = Nobody
  Conns = {c1, c2}
  NoConn = NoConn
  ReLogin = FALSE
  PingMayFail = FALSE
SPECIFICATION FairSpec
INVARIANTS SessionsConsistent EventReachesItsUser NeverPanics
PROPERTIES ImplementsStore EveryRequestAnswered GoroutinesEnd
