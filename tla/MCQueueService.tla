---------------------------- MODULE MCQueueService ----------------------------
(* QueueService on small instances: two messages for one user and one for    *)
(* another, or one each.                                                      *)
EXTENDS QueueService, TLC

CONSTANTS u1, u2, m1, m2, m3

TwoUsers == {u1, u2}
TwoMessages == {m1, m3}
ThreeMessages == {m1, m2, m3}
Addressees == [m \in Messages |-> IF m = m3 THEN u2 ELSE u1]
Prefixes == [u \in Users |-> MaxClock + 1]
Rests == u1 :> 1 @@ u2 :> 2
Both == {"fresh", "filled"}
AsStarted == {"fresh"}
AsIntended == {"filled"}
=============================================================================
