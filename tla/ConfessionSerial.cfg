SPECIFICATION FairSpec
CONSTANTS
  Confessions = {c1}
  Times <- OneInstant
  Second <- WholeSeconds
  Reprs = {"Date"}
  DriverTakesText = FALSE
  Requests = {r1, r2, r3, r4, r5}
  Replicas = {p1}
  Pacing = "serial"
  MaxFaults = 0
  NoArg = NoArg
INVARIANTS TablesAgree
PROPERTIES ImplementsLifecycle
ACTION_CONSTRAINTS InOrder
CHECK_DEADLOCK FALSE
