SPECIFICATION TableSpec
CONSTANTS
  k1 = k1
  k2 = k2
  k3 = k3
  k4 = k4
  Keys = {k1, k2, k3, k4}
  Values = {1}
  Hash <- Spread
  InitialCap = 4
  MaxCap = 8
  Empty = Empty
  Tomb = Tomb
  NoSlot = NoSlot
INVARIANT PutFindsRoom
CHECK_DEADLOCK FALSE
