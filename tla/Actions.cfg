SPECIFICATION Spec
CONSTANTS
  Tools = {"model", "clear"}
  Requests = {"model", "clear", "repository", "delete"}
  MaxMessages = 2
  MaxRequests = 1
  MaxFaults = 1
INVARIANTS
  TypeOK
  DeletedStaysDeleted
  NothingVanishes
  InOrder
PROPERTIES
  HeldUntilApplied
CHECK_DEADLOCK FALSE
