\* What a user does with a service, and every event at any time.
CONSTANTS
  Letters <- MCLetters
  Wides <- MCWides
  Lines <- Usual
  Arity <- MCArity
  CreateService <- MCCreate
  RemoveService <- MCRemove
  EnableService <- MCEnable
  DisableService <- MCDisable
  Login <- MCLogin
  Logout <- MCLogout
  Exit <- MCExit
  Help <- MCHelp
  IsServer = TRUE
  Readers = {r1, r2}
  Users = {u}
  Nobody = Nobody
SPECIFICATION Spec
PROPERTY OpenStartsService
CHECK_DEADLOCK FALSE
