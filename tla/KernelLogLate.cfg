SPECIFICATION KernelSpec
CONSTANTS
  Writers = {w1, w2}
  QueueCap = 2
  BufMax = 1
  MaxLines = 2
  MaxInits = 1
SYMMETRY WriterSymmetry
INVARIANT CleanupLosesNothing
CHECK_DEADLOCK FALSE
