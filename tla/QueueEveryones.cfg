SPECIFICATION Spec
CONSTANTS
  u1 = u1
  u2 = u2
  m1 = m1
  m2 = m2
  m3 = m3
  Users <- TwoUsers
  Messages <- ThreeMessages
  To <- Addressees
  Prefix <- Prefixes
  Rest <- Rests
  Readers = {g1, g2}
  Registered <- AsIntended
  SharedTick = FALSE
  MaxClock = 2
  MaxCrashes = 0
INVARIANT OnlyOwnMessages
CHECK_DEADLOCK FALSE
