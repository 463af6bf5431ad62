SPECIFICATION Spec
CONSTANTS
  a1 = a1  a2 = a2  i1 = i1  i2 = i2  p = p  q = q  r = r
  Reader = Reader  None = None
  DevTypes <- BothTypes
  Apps <- TwoApps
  Fds <- OneFd
  Ids <- OneId
  Addrs <- ThreeAddrs
  Swap <- Reverse3
  MaxOpenFiles = 1
  MaxDatagrams = 3
INVARIANTS TablesAgree EntryStays NumbersApart
PROPERTIES ToldBeforeData SenderOrReverse DummyCloseReturns
CHECK_DEADLOCK FALSE
