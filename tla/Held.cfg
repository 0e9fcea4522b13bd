SPECIFICATION Spec
CONSTANTS
  m1 = m1
  m2 = m2
  m3 = m3
  s1 = s1
  s2 = s2
  Messages = {m1, m2}
  Sessions = {s1}
  SessionOf <- ToOne
  Typed <- OwnText
  Retyped <- NewText
  Fault = {"restart", "reload", "disk", "delete", "late", "unseen"}
  MaxFaults = 2
  MaxDrops = 1
INVARIANTS
  TypeOK
  HeldIsKeptUnlessCut
  InOrder
  SentOnce
  RemovedIsNotSent
VIEW Seen
SYMMETRY Symmetry
CHECK_DEADLOCK FALSE
