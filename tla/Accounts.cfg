SPECIFICATION FairSpec
CONSTANTS
  r1 = r1
  r2 = r2
  r3 = r3
  r4 = r4
  p1 = p1
  p2 = p2
  e1 = e1
  e2 = e2
  n1 = n1
  n2 = n2
  w1 = w1
  w2 = w2
  NoEmail = NoEmail
  NoArg = NoArg
  Requests = {r1, r2, r3, r4}
  People <- TwoPeople
  Replicas = {w1, w2}
  Emails <- TwoEmails
  Names = {n1, n2}
  Bodies <- Said
  Who <- OnePerson
  Place <- OneReplica
  Box <- Boxes
  May <- Routes
  MaxFaults = 1
INVARIANTS TypeOK EmailsApart NamesApart LoginFindsOwner VerifiedOwnsMailbox
PROPERTY RequestsEnd
CHECK_DEADLOCK FALSE
