SPECIFICATION CoreSpec
CONSTANTS
  p1 = p1
  p2 = p2
  m1 = m1
  m2 = m2
  l1 = l1
  l2 = l2
  Plugins = {p1, p2}
  Modules = {m1, m2}
  Loaders = {l1, l2}
  Deps <- SharedDeps
  Extensions = {m2}
  Handles = {1, 2, 3, 4, 5, 6}
  HandlesReused = TRUE
  Nil = Nil
  f1 = f1
  f2 = f2
  t = t
  h1 = h1
  h2 = h2
  a1 = a1
  a2 = a2
  b1 = b1
  b2 = b2
  Methods = {f1, f2, t}
  Typed = {t}
  PrefixFns = {a1, a2}
  PostfixFns = {b1, b2}
  NoCallback = NoCallback
  HookHandles = {h1, h2}
  MaxId = 4
  SharedCallbacks = FALSE
  Unpatched = Unpatched
  Detour = Detour
  NoCall = NoCall
INVARIANTS NoDanglingSymbol HooksStayActive PatchedIsLive InstallOrder EveryCallbackRuns
PROPERTIES ModuleKeepsPlugins StaysBound
SYMMETRY Interchangeable
CHECK_DEADLOCK FALSE
