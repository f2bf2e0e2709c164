SPECIFICATION NetSpec
CONSTANTS
  Peers = {"p"}
  ClientSlots = {1}
  PeerKinds <- PeerChoice
  ServerKinds <- ServerChoice
  MaxModules = 2
  MaxMods = 2
  LongIds = {"long"}
INVARIANT VanillaIsTurnedAway
CHECK_DEADLOCK FALSE
