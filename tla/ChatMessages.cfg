SPECIFICATION FairSpec
CONSTANTS
  Requests = {r1, r2, r3}
  Reprs = {"Date", "string"}
  DriverTakesText = FALSE
  MaxBatch = 1
  MaxFaults = 1
  NoArg = NoArg
INVARIANTS TypeOK LoneCopyIsDeleted DoneIsStored DeletedIsGone
PROPERTY UpdateIsQueued
ACTION_CONSTRAINTS InOrder SameRepr
CHECK_DEADLOCK FALSE
