\* A writer gives up after a failed ping.
CONSTANTS
  Ids = {u1}
  Names = {s1}
  Nobody = Nobody
  Conns = {c1, c2}
  NoConn = NoConn
  ReLogin = FALSE
  PingMayFail = TRUE
SPECIFICATION FairSpec
PROPERTY EveryRequestAnswered
CHECK_DEADLOCK FALSE
