SPECIFICATION Spec
CONSTANTS
  a1 = a1  a2 = a2  d1 = d1  d2 = d2  f1 = f1  f2 = f2  i1 = i1  i2 = i2
  None = None
  Spurious = TRUE
  DevTypes <- BothTypes
  Apps <- TwoApps
  Devs <- OneDev
  Fds <- TwoFds
  Ids <- TwoIds
SYMMETRY Symmetric
INVARIANTS RwDevAgree 
PROPERTIES ToldBeforeData
CHECK_DEADLOCK FALSE
