\* All lines of up to three characters, and commands; one service name beside the
\* empty one, and one own id.  Two readers, as after a reconnection, which get every
\* event at any time.  The program may stop: it exits, and it panics.
CONSTANTS
  Letters <- MCLetters
  Wides <- MCWides
  Lines <- MCLines
  Arity <- MCArity
  CreateService <- MCCreate
  RemoveService <- MCRemove
  EnableService <- MCEnable
  DisableService <- MCDisable
  Login <- MCLogin
  Logout <- MCLogout
  Exit <- MCExit
  Help <- MCHelp
  IsServer = TRUE
  Readers = {r1, r2}
  Users = {u}
  Nobody = Nobody
SPECIFICATION Spec
SYMMETRY Symmetry
INVARIANTS TypeOK QuotingWorks SpacesSeparate NothingTypedIsLost HookFindsService ShellFindsCommand NoEventPanics
CHECK_DEADLOCK FALSE
