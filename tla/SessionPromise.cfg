SPECIFICATION Spec
CONSTANTS
  CmdCodes = {0, 3}
  RcCodes = {1}
  MaxOut = 1
  MaxErr = 1
  MaxNoise = 2
  PtyCap = 1
  Daemons = TRUE
  HoldLimit = 2
  CanKill = TRUE
  CanHang = TRUE
  Banners = TRUE
  CanCut = TRUE
INVARIANTS
  ExitFreesLock LogIsTheCommand PasswordNeverEchoed
PROPERTIES
  KeepsPromise
CHECK_DEADLOCK FALSE
