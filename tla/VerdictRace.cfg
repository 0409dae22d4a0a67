SPECIFICATION Spec
CONSTANTS
  Confessions = {c1}
  Times <- OneInstant
  Second <- WholeSeconds
  Reprs = {"Date"}
  DriverTakesText = FALSE
  Requests = {r1, r2, r3, r4}
  Replicas = {p1}
  Pacing = "free"
  MaxFaults = 0
  NoArg = NoArg
SYMMETRY RequestSymmetry
INVARIANT OneVerdict
CHECK_DEADLOCK FALSE
