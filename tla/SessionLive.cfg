SPECIFICATION FairSpec
CONSTANTS
  CmdCodes = {0, 3}
  RcCodes = {1}
  MaxOut = 1
  MaxErr = 0
  MaxNoise = 0
  PtyCap = 2
  Daemons = FALSE
  HoldLimit = 2
  CanKill = TRUE
  CanHang = FALSE
  Banners = TRUE
  CanCut = TRUE
PROPERTIES
  EveryRunIsTold LockIsLetGo
CHECK_DEADLOCK FALSE
