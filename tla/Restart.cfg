SPECIFICATION Spec
CONSTANTS
  Msg = {m1}
  Continue = Continue
  MaxTurn = 2
  ResumeLimit = 1
  MaxControls = 1
  MaxStops = 1
  MaxCrashes = 1
INVARIANTS
  TypeOK
  OneCopy
  AtMostOnce
PROPERTIES
  DeliversOnce
CHECK_DEADLOCK FALSE
