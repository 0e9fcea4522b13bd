SPECIFICATION Spec
CONSTANTS
  k1 = k1
  k2 = k2
  m1 = m1
  m2 = m2
  Server = Server
  Computers = {k1}
  Messages = {m1}
  MaxCopies = 3
  MaxFaults = 1
INVARIANTS
  TypeOK
  SomeCopyGoesOn
  CarriedToServer
  OneCopyGoesOn
PROPERTIES
  AskedIsSettled
CHECK_DEADLOCK FALSE
