SPECIFICATION InputSpec
CONSTANTS
  ModActions = {"a", "b"}
  RadialKeys = {"b"}
  Cursors = {1, 2}
  MaxClaims = 2
PROPERTY StaysHeld
CHECK_DEADLOCK FALSE
