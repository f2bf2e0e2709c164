SPECIFICATION StdSpec
CONSTANTS
  Nil = Nil
  Loggers = {f1, f2}
  FileLoggers = {f1, f2}
  Rotating = {f2}
  Workers = {w1, w2}
  Cap = 2
  Batch = 2
  BufMax = 1
  MaxWrites = 3
  f1 = f1
  w1 = w1
  k1 = k1
  k2 = k2
  k3 = k3
  Keys = {k1, k2, k3}
  Values = {1, 2}
  Hash <- Colliding
  InitialCap = 4
  MaxCap = 8
  Empty = Empty
  Tomb = Tomb
  NoSlot = NoSlot
INVARIANTS OneDrainer ListHoldsOpen NothingLost EveryKeyFound IterationComplete
PROPERTIES CloseEnds EventuallyOnDisk FlushReturns ImplementsMap
CHECK_DEADLOCK FALSE
