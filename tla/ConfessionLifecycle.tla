------------------------- MODULE ConfessionLifecycle -------------------------
(***************************************************************************)
(* What the confession routes promise a sender, one atomic step per route: *)
(* a confession is sent once, may be read, is then accepted or rejected,   *)
(* and every acceptance opens exactly one chat.  Reading again reopens a   *)
(* decided confession: the code has no guard against it.                   *)
(***************************************************************************)
EXTENDS Naturals

CONSTANT Confessions

VARIABLES
  status,   \* of each confession, as its sender sees it
  owed,     \* accepted, and the chat of this acceptance is not open yet
  chats     \* chats opened so far

lvars == <<status, owed, chats>>

LifecycleInit ==
  /\ status = [c \in Confessions |-> "none"]
  /\ owed   = [c \in Confessions |-> FALSE]
  /\ chats  = [c \in Confessions |-> 0]

Send(c) ==
  /\ status[c] = "none"
  /\ status' = [status EXCEPT ![c] = "Sent"]
  /\ UNCHANGED <<owed, chats>>

Read(c) ==
  /\ status[c] # "none" /\ ~owed[c]
  /\ status' = [status EXCEPT ![c] = "READ"]
  /\ UNCHANGED <<owed, chats>>

Reject(c) ==
  /\ status[c] = "READ"
  /\ status' = [status EXCEPT ![c] = "REJECTED"]
  /\ UNCHANGED <<owed, chats>>

Accept(c) ==
  /\ status[c] = "READ"
  /\ status' = [status EXCEPT ![c] = "ACCEPTED"]
  /\ owed'   = [owed EXCEPT ![c] = TRUE]
  /\ UNCHANGED chats

OpenChat(c) ==
  /\ owed[c] /\ status[c] = "ACCEPTED"
  /\ owed'  = [owed EXCEPT ![c] = FALSE]
  /\ chats' = [chats EXCEPT ![c] = @ + 1]
  /\ UNCHANGED status

LifecycleNext == \E c \in Confessions :
  Send(c) \/ Read(c) \/ Reject(c) \/ Accept(c) \/ OpenChat(c)

LifecycleSafe == LifecycleInit /\ [][LifecycleNext]_lvars

LifecycleSpec ==
  /\ LifecycleSafe
  /\ \A c \in Confessions : WF_lvars(OpenChat(c))
=============================================================================
