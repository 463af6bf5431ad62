SPECIFICATION Spec
CONSTANTS
  c1 = c1  c2 = c2  s1 = s1  s2 = s2  s3 = s3  p1 = p1  p2 = p2
  PriFd = PriFd  DataFd = DataFd  NoFd = NoFd  NoMsg = NoMsg
  Callers <- TwoCallers
  Sockets <- TwoSockets
  Pipes <- NoFds
  MaxSockets = 2
  MaxAppPipes = 0
  Deletable <- TwoSockets
  Readable <- NoFds
  FailingFds <- NoFds
  MsgsPerRead = 1
  CountMod = 4
  PipeCap = 2
  MaxSends = 1
  PollErrors = TRUE
  Spurious = TRUE
SYMMETRY TwoSymmetry
INVARIANTS TypeOK ListArrayAgree AdminPipesFirst DriftsForwardOnly SweepInside NoDuplicateAdd NoLostWakeup
CHECK_DEADLOCK FALSE
