SPECIFICATION Spec
CONSTANTS
  Nil = Nil
  Loggers = {f1, c1}
  FileLoggers = {f1}
  Rotating = {}
  Workers = {w1, w2}
  Cap = 2
  Batch = 2
  BufMax = 1
  MaxWrites = 2
SYMMETRY WorkerSymmetry
INVARIANT CloserAlone
CHECK_DEADLOCK FALSE
