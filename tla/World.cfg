SPECIFICATION WorldSpec
CONSTANTS
  Handles = {1, 2, 3}
  NameOf <- Names
  Debuffs = {1, 2}
  Base = 2
  PrefixLimit = 3
  Players = {1, 2}
  ActiveMax = 2
  MaxTime = 2
  Mods = {1, 3}
  Unknown = 2
  ItemBase = 2
  PrefixBase = 2
  Slots = {"inv"}
  Sanitized = {}
  Peers = {"p", "q"}
  ClientSlots = {1}
  PeerKinds <- PeerChoice
  ServerKinds <- ServerChoice
  MaxModules = 2
  MaxMods = 2
  LongIds = {"long"}
  Contents = {"x", "y"}
  SizeOf <- Sizes
  Reserved = 2
  Fingerprints = {7}
INVARIANTS WorldInv TicksUnlessMoved KernelPeersMatch ReadsWhatWasAdded
PROPERTIES BuffsKeepTheirMeaning LoadRestores SaveEnds
CHECK_DEADLOCK FALSE
