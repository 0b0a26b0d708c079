\* A peer that may fail at any time.  The program may stop: it
\* dies when Init gets as far as gathering candidates, and a stop without a
\* writer blocks for good.
SPECIFICATION FairSpec
CONSTANTS
  PeerMayFail = TRUE
INVARIANTS TypeOK WriterHoldsConn
PROPERTIES ReadErrorCloses UninitReturns
CHECK_DEADLOCK FALSE
