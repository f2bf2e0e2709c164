SPECIFICATION Spec
CONSTANTS
  p1 = p1
  p2 = p2
  m1 = m1
  m2 = m2
  l1 = l1
  l2 = l2
  Plugins = {p1, p2}
  Modules = {m1, m2}
  Loaders = {l1, l2}
  Deps <- SharedDeps
  Extensions = {m2}
  Handles = {h1, h2, h3, h4, h5, h6}
  HandlesReused = FALSE
  Nil = Nil
SYMMETRY HandleSymmetry
PROPERTY CleanedOnlyUnused
CHECK_DEADLOCK FALSE
