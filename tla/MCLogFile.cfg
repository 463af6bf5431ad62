SPECIFICATION Spec
CONSTANTS
  t1 = t1  t2 = t2  None = None
  Threads <- TwoThreads
  MaxMsgs = 4
  MaxTime = 1
INVARIANTS LogComplete Writable OneStream
PROPERTIES ReadsAll ReadReturns
CHECK_DEADLOCK FALSE
