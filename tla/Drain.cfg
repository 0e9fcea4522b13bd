SPECIFICATION FairSpec
CONSTANTS
  m1 = m1
  m2 = m2
  m3 = m3
  s1 = s1
  s2 = s2
  Messages = {m1, m2}
  Sessions = {s1}
  SessionOf <- ToOne
  Typed <- OwnText
  Retyped <- NewText
  Fault = {"restart", "reload", "disk"}
  MaxFaults = 1
  MaxDrops = 1
PROPERTIES
  Drained
CHECK_DEADLOCK FALSE
