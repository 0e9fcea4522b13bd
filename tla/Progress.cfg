SPECIFICATION PromptSpec
CONSTANTS
  Msg = {m1}
  Continue = Continue
  MaxTurn = 1
  ResumeLimit = 1
  MaxControls = 1
  MaxStops = 1
  MaxCrashes = 0
PROPERTIES
  WorkerReadsAll
  ShutdownEnds
CHECK_DEADLOCK FALSE
