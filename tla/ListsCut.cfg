SPECIFICATION NetSpec
CONSTANTS
  Peers = {"p"}
  ClientSlots = {1}
  PeerKinds <- PeerChoice
  ServerKinds <- ServerChoice
  MaxModules = 2
  MaxMods = 2
  LongIds = {"long"}
INVARIANT StrictComparison
CHECK_DEADLOCK FALSE
