SPECIFICATION Spec
CONSTANTS
  c1 = c1  c2 = c2  s1 = s1  s2 = s2  s3 = s3  p1 = p1  p2 = p2
  PriFd = PriFd  DataFd = DataFd  NoFd = NoFd  NoMsg = NoMsg
  Callers <- OneCaller
  Sockets <- TwoSockets
  Pipes <- NoFds
  MaxSockets = 2
  MaxAppPipes = 0
  Deletable <- TwoSockets
  Readable <- TwoSockets
  FailingFds <- NoFds
  MsgsPerRead = 1
  CountMod = 4
  PipeCap = 2
  MaxSends = 0
  PollErrors = FALSE
  Spurious = FALSE
INVARIANTS CorrectFd
CHECK_DEADLOCK FALSE
