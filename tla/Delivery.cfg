SPECIFICATION FairSpec
CONSTANTS
  u1 = u1
  u2 = u2
  c1 = c1
  c2 = c2
  m1 = m1
  m2 = m2
  p1 = p1
  Users = {u1, u2}
  Replicas = {p1}
  Sends = {m1, m2}
  To <- Addressee
  Place <- Replica
  Connections = {c1, c2}
  Of <- Owner
  NoSocket = NoSocket
  MaxFaults = 1
INVARIANTS TypeOK PresenceIsTrue SteadyIsReached NotTwice
PROPERTIES Reached
ACTION_CONSTRAINTS InOrder
CHECK_DEADLOCK FALSE
