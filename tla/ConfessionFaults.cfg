SPECIFICATION FairSpec
CONSTANTS
  Confessions = {c1}
  Times <- TwoInstants
  Second <- WithinOneSecond
  Reprs = {"Date", "string"}
  DriverTakesText = FALSE
  Requests = {r1, r2, r3}
  Replicas = {p1}
  Pacing = "reply"
  MaxFaults = 1
  NoArg = NoArg
INVARIANTS UnreadHasSent AdvancedSentHasReadRow AcknowledgedIsStored StoredIsReadable
PROPERTIES RequestsEnd AcceptOpensChat
ACTION_CONSTRAINTS InOrder SameTimes
CHECK_DEADLOCK FALSE
