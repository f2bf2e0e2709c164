SPECIFICATION HookSpec
CONSTANTS
  m1 = m1
  m2 = m2
  t = t
  h1 = h1
  h2 = h2
  p1 = p1
  p2 = p2
  q1 = q1
  q2 = q2
  Methods = {m1, m2, t}
  Typed = {t}
  PrefixFns = {p1, p2}
  PostfixFns = {q1, q2}
  NoCallback = NoCallback
  HookHandles = {h1, h2}
  MaxId = 4
  SharedCallbacks = TRUE
  Unpatched = Unpatched
  Detour = Detour
  NoCall = NoCall
INVARIANT HooksStayActive
SYMMETRY Interchangeable
CHECK_DEADLOCK FALSE
