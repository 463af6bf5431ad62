SPECIFICATION Spec
CONSTANTS
  a1 = a1  a2 = a2
  Listener = Listener  Reader = Reader  None = None
  DevTypes <- BothTypes
  Apps <- TwoApps
  Fds <- TwoFds
  CallbackCalls <- SendsBack
  PipeCap = 1
  MaxCalls = 3
  MaxEvents = 2
INVARIANTS KnownDeadlocksOnly FreeAloneOrdered
PROPERTIES CallsReturn
CHECK_DEADLOCK FALSE
