----------------------------- MODULE MCDelivery -----------------------------
(* Delivery on a small instance. *)
EXTENDS Delivery, TLC

CONSTANTS u1, u2, c1, c2, m1, m2, p1

Addressee == m1 :> u1 @@ m2 :> u2
Replica   == m1 :> p1 @@ m2 :> p1
Owner     == c1 :> u1 @@ c2 :> u1

\* The first socket opens first: otherwise they are these renamed
\* (an action constraint: no fairness is owed to a gateway).
InOrder == socket'[c2] # "new" => socket'[c1] # "new"
=============================================================================
