SPECIFICATION FairSpec
CONSTANTS
  q1 = q1
  q2 = q2
  p1 = p1
  p2 = p2
  Confessions <- ThreeConfessions
  Times <- TwoInstants
  SentAt <- Sendings
  Reads = {q1, q2}
  Of <- ReadOnes
  Place <- ReplicaOf
  Clients = {v1}
  Replicas = {p1, p2}
  PageSize = 2
  MaxFaults = 1
INVARIANTS TypeOK PagesInOrder SteadyIsShown ShownOrMoving
PROPERTY WalkEnds
CHECK_DEADLOCK FALSE
