SPECIFICATION ContentSpec
CONSTANTS
  Handles = {1, 2, 3}
  NameOf <- Names
  Debuffs = {1, 2}
  Base = 2
  PrefixLimit = 3
  Players = {1, 2}
  ActiveMax = 2
  MaxTime = 2
INVARIANT EveryBuffTicks
CHECK_DEADLOCK FALSE
