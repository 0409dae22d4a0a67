------------------------- MODULE MCConfessionService -------------------------
(* ConfessionService on small instances. *)
EXTENDS ConfessionService, TLC

\* A safety run, where requests are interchangeable.
RequestSymmetry == Permutations(Requests)

\* Liveness and refinement runs, where TLC's symmetry is unsound: requests are
\* numbered as they arrive, which loses no behaviour up to renaming.  An action
\* constraint, as SameTimes below: both speak of clients, who are owed no fairness.
InOrder == \A r \in Requests :
  op'[r] # op[r] => r = CHOOSE q \in Requests : op[q] = "none"

\* Clocks: instants 1 and 2 are within one second, which begins at 1.
OneInstant == {1}
TwoInstants == {1, 2}
WholeSeconds == [t \in Times |-> t]
WithinOneSecond == [t \in Times |-> 1]

\* Clients that all write times the same way, and all name the instant that begins
\* a second or all the later one, whose milliseconds a Date loses.
SameTimes == \A q, r \in Requests : op'[q] # "none" /\ op'[r] # "none" =>
  /\ arg'[q].repr = arg'[r].repr
  /\ arg'[q].st = arg'[r].st /\ arg'[q].rt = arg'[r].st
=============================================================================
