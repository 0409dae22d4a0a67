SPECIFICATION Spec
CONSTANTS
  u1 = u1
  u2 = u2
  m1 = m1
  m2 = m2
  m3 = m3
  Users <- TwoUsers
  Messages <- TwoMessages
  To <- Addressees
  Prefix <- Prefixes
  Rest <- Rests
  Readers = {g1, g2}
  Registered <- AsStarted
  SharedTick = FALSE
  MaxClock = 1
  MaxCrashes = 0
PROPERTY SavesSucceed
CHECK_DEADLOCK FALSE
