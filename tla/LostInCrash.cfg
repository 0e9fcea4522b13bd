SPECIFICATION Spec
CONSTANTS
  Msg = {m1}
  Continue = Continue
  MaxTurn = 2
  ResumeLimit = 1
  MaxControls = 0
  MaxStops = 0
  MaxCrashes = 1
INVARIANTS
  NothingLost
CHECK_DEADLOCK FALSE
