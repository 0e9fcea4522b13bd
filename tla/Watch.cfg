SPECIFICATION Spec
CONSTANTS
  None = None
  a1 = a1
  Entry <- Stamps
  Agents = {a1}
  Edits <- Script
  MaxVersion = 2
  MaxCrashes = 1
  MaxDrops = 0
  MaxHolds = 1
  MaxEnds = 1
  MaxReads = 0
  MaxEvents = 2
  MaxWire = 1
INVARIANTS
  TypeOK
  StreamFits
  AppInStep
  NothingIsMixed
