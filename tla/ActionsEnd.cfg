SPECIFICATION Spec
CONSTANTS
  Tools = {"model"}
  Requests = {"clear", "repository"}
  MaxMessages = 2
  MaxRequests = 1
  MaxFaults = 1
PROPERTIES
  QueueIsReleased
  ClearingEnds
CHECK_DEADLOCK FALSE
