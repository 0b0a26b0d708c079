\* Links never break, but the user may disconnect and connect again.  The client
\* may stop: Close blocks for good if the last Run has just returned.
SPECIFICATION FairSpec
CHECK_DEADLOCK FALSE
CONSTANTS
  Links = {l1, l2}
  Reqs = {r1}
  None = None
  Shell = Shell
  QueueSize = 1
  Disconnects = TRUE
  LinkMayBreak = FALSE
  WriteNotices = FALSE
PROPERTY ConnectionSettles
