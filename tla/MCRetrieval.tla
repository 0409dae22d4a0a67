---------------------------- MODULE MCRetrieval ----------------------------
(* Retrieval on a small instance: three confessions, two of one instant.     *)
EXTENDS Retrieval

CONSTANTS q1, q2, p1, p2

ThreeConfessions == 1..3
TwoInstants == 1..2
Sendings == [c \in Confessions |-> IF c = 3 THEN 2 ELSE 1]
ReadOnes == [q \in Reads |-> IF q = q1 THEN 1 ELSE 2]
ReplicaOf == [q \in Reads |-> IF q = q1 THEN p1 ELSE p2]
=============================================================================
