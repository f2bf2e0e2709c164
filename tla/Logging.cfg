SPECIFICATION LoggingSpec
CONSTANTS
  Producers = {p1, p2}
  Consumers = {c1, c2}
  Cap = 2
  Batch = 2
  MaxWrites = 2
  Writers = {w1, w2}
  QueueCap = 2
  BufMax = 1
  MaxLines = 1
  MaxInits = 2
INVARIANTS IInv InOrder NoLostWakeup
PROPERTIES ImplementsQueue EventuallyDelivered StoppedIsWritten CleanupEnds ErrorReachesDisk
CHECK_DEADLOCK FALSE
