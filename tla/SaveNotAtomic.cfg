SPECIFICATION SavesSpec
CONSTANTS
  Mods = {1, 3}
  Unknown = 2
  ItemBase = 2
  PrefixBase = 2
  Slots = {"inv"}
  Sanitized = {}
PROPERTY AtomicReplace
CHECK_DEADLOCK FALSE
