SPECIFICATION FairSpec
CONSTANTS
  None = None
  a1 = a1
  Entry <- Stamps
  Agents = {a1}
  Edits <- Script
  MaxVersion = 2
  MaxCrashes = 1
  MaxDrops = 1
  MaxHolds = 0
  MaxEnds = 1
  MaxReads = 1
  MaxEvents = 1
  MaxWire = 1
PROPERTIES
  CatchesUp
