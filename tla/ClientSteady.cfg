\* The user never disconnects and reads notice a broken link before writes do.
\* Then a reader is gone before the next dial, so one link, used again and again,
\* is all there ever is.  No symmetry: liveness is checked.
SPECIFICATION FairSpec
CONSTANTS
  Links = {l1}
  Reqs = {r1, r2}
  None = None
  Shell = Shell
  QueueSize = 1
  Disconnects = FALSE
  LinkMayBreak = TRUE
  WriteNotices = FALSE
PROPERTIES
  Reconnects
  CommandsReturn
