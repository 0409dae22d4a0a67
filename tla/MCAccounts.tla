----------------------------- MODULE MCAccounts -----------------------------
(* Accounts on a small instance: two people, two addresses, one replica each. *)
EXTENDS Accounts

CONSTANTS r1, r2, r3, r4, p1, p2, e1, e2, n1, n2, w1, w2

TwoPeople  == {p1, p2}
TwoEmails  == {e1, e2}
OnePerson  == [r \in Requests |-> IF r = r2 THEN p2 ELSE p1]
OneReplica == [r \in Requests |-> IF r = r2 THEN w2 ELSE w1]
Said == {[email |-> e1, name |-> n, verified |-> FALSE] : n \in Names}
        \cup {[email |-> e2, name |-> n, verified |-> n = n2] : n \in Names}
Routes     == [r \in Requests |->
  CASE r \in {r1, r2} -> {"signUp"}
    [] r = r3 -> {"changeEmail", "sendOtp"}
    [] r = r4 -> {"login", "verifyOtp"}]
Boxes      == [e \in Emails |-> IF e = e1 THEN p1 ELSE p2]
=============================================================================
