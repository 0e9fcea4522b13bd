SPECIFICATION Spec
CONSTANTS
  Msg = {m1, m2}
  Continue = Continue
  MaxTurn = 2
  ResumeLimit = 1
  MaxControls = 1
  MaxStops = 0
  MaxCrashes = 0
INVARIANTS
  NothingLost
  UnsentWasNotSent
  DeliveredWasAccepted
  RunningTurnIsReal
PROPERTIES
  InterruptHolds
SYMMETRY Symmetry
VIEW WithoutFile
CHECK_DEADLOCK FALSE
