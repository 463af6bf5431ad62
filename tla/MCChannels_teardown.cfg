SPECIFICATION FairSpec
CONSTANTS
  a1 = a1  a2 = a2  d1 = d1  d2 = d2  f1 = f1  f2 = f2  i1 = i1  i2 = i2
  None = None
  Spurious = FALSE
  DevTypes <- SwitchOnly
  Apps <- OneApp
  Devs <- OneDev
  Fds <- OneFd
  Ids <- OneId
PROPERTIES TeardownReturns
CHECK_DEADLOCK FALSE
