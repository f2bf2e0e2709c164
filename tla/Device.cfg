SPECIFICATION DeviceSpec
CONSTANTS
  Voices = 1
  Tracks = {1, 2}
  NoTrack = 0
  Looping = {2}
  Frames = 1
  Users = {1, 2}
  Threads = {"a", "b"}
  Caught = {"SEGV", "FPE"}
  MaxFaults = 3
  ModActions = {"a", "b"}
  RadialKeys = {"b"}
  Cursors = {1, 2}
  MaxClaims = 2
  Profiles = {"p", "q"}
  Slots = {"s"}
  PartsOf <- NoParts
  Keys = {"a"}
  Depth = 2
INVARIANTS DeviceInv SilentAfterOnePeriod OneFinger
PROPERTIES PlaysToTheEnd ReportedBeforeDeath FaultsEnd NotStuck ImplementsTimeline StoreSurvives
CHECK_DEADLOCK FALSE
