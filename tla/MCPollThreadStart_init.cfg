SPECIFICATION FairSpec
CONSTANTS
  m1 = m1  m2 = m2  u1 = u1
  Mgrs <- OneMgr
  UserFds <- OneUserFd
  Spurious <- NoMgr
  FreedReused = FALSE
PROPERTIES NewReturns
CHECK_DEADLOCK FALSE
