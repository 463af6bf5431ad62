SPECIFICATION FairSpec
CONSTANTS
  m1 = m1  m2 = m2  u1 = u1
  Mgrs <- TwoMgrs
  UserFds <- OneUserFd
  Spurious <- OneMgr
  FreedReused = TRUE
INVARIANTS AdminPlaces ReturnedComplete HandsOver
PROPERTIES PastInitReturns
CHECK_DEADLOCK FALSE
