CONSTANTS
  Notes = {"note"}
  Requests = {"request"}
  Parts <- MCParts
  MaxAsks = 3
  MaxSays = 1
  MaxTurns = 2
  MaxFaults = 1
SPECIFICATION Spec
INVARIANTS
  TypeOK
  OneResponse
  ToldIsSettled
  AnswerIsKept
  SentOnce
  PanelIsReal
CHECK_DEADLOCK FALSE
