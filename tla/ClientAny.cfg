\* Everything may happen.  Two links, so that a reader can outlive its Run, and
\* two requests for a queue of one, so that a caller can block on it.  The client
\* may stop: Close blocks for good if the last Run has just returned.
SPECIFICATION Spec
CHECK_DEADLOCK FALSE
CONSTANTS
  Links = {l1, l2}
  Reqs = {r1, r2}
  None = None
  Shell = Shell
  QueueSize = 1
  Disconnects = TRUE
  LinkMayBreak = TRUE
  WriteNotices = TRUE
SYMMETRY Symmetry
INVARIANTS
  TypeOK
  AnsweredOnce
  OnlyOwnSocketOpen
PROPERTY RunsEndWithALink
