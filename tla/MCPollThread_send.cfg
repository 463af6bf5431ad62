SPECIFICATION FairSendSpec
CONSTANTS
  c1 = c1  c2 = c2  s1 = s1  s2 = s2  s3 = s3  p1 = p1  p2 = p2
  PriFd = PriFd  DataFd = DataFd  NoFd = NoFd  NoMsg = NoMsg
  Callers <- OneCaller
  Sockets <- TwoSockets
  Pipes <- NoFds
  MaxSockets = 2
  MaxAppPipes = 0
  Deletable <- NoFds
  Readable <- JustS1
  FailingFds <- JustS2
  MsgsPerRead = 2
  CountMod = 4
  PipeCap = 2
  MaxSends = 3
  PollErrors = FALSE
  Spurious = FALSE
INVARIANTS SendInfoPresent   OrderedOnce
PROPERTIES HeldIsTaken
CHECK_DEADLOCK FALSE
