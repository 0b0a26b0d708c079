\* Three users, two connection objects, one service name; connections may log in
\* again and writers may give up.  The server may stop: it may block for good
\* on a writer that gave up, and it may panic.
CONSTANTS
  Ids = {u1, u2, u3}
  Names = {s1}
  Nobody = Nobody
  Conns = {c1, c2}
  NoConn = NoConn
  ReLogin = TRUE
  PingMayFail = TRUE
SPECIFICATION Spec
SYMMETRY Symmetry
INVARIANTS TypeOK DatabaseConsistent OpenWhileReading ReplyChannelOpen OnlineIsRegistered
PROPERTY ImplementsCatalogue
CHECK_DEADLOCK FALSE
