---------------------------- MODULE MCChatMessages ----------------------------
(* ChatMessages on a small instance.  Requests are numbered as they arrive,   *)
(* which loses no behaviour up to renaming, and all come the same way, over   *)
(* HTTP or in process: two action constraints, on clients only.               *)
EXTENDS ChatMessages

InOrder == \A r \in Requests :
  op'[r] # op[r] => r = CHOOSE q \in Requests : op[q] = "none"
SameRepr == \A q, r \in Requests :
  op'[q] # "none" /\ op'[r] # "none" => arg'[q].repr = arg'[r].repr
=============================================================================
