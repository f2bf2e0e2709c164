SPECIFICATION VoiceSpec
CONSTANTS
  Voices = 1
  Tracks = {1, 2}
  NoTrack = 0
  Looping = {2}
  Frames = 1
  Users = {1, 2}
PROPERTY StopFreesTheSlot
CHECK_DEADLOCK FALSE
