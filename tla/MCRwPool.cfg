SPECIFICATION Spec
CONSTANTS
  w1 = w1  w2 = w2  a = a  b = b  c = c  d = d
  NoWorker = NoWorker
  Workers <- TwoWorkers
  Fds <- FourFds
  MaxSockets = 2
  CountMod = 4
  AvailMod = 16
  MaxMgrs = 3
  DeletesEarly = FALSE
SYMMETRY Symmetric
INVARIANTS SortedPool AddedIsPolled PoolComplete 
PROPERTIES GrowsOnlyWhenFull
CHECK_DEADLOCK FALSE
