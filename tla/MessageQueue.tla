---------------------------- MODULE MessageQueue ----------------------------
(***************************************************************************)
(* What the web server may count on of the queue of undelivered messages,  *)
(* without clocks, keys, iterators or the process behind it: a save is     *)
(* answered once; a stream opens on a snapshot, brings messages that are   *)
(* in the queue, each at most once, and closes only when it has brought    *)
(* its user every one of that snapshot; what is lost is lost together,     *)
(* and no stream lives through it.                                         *)
(*                                                                         *)
(* It does not say whose the other messages of a stream are: that the      *)
(* service does not keep (OnlyOwnMessages of QueueService).                *)
(***************************************************************************)
CONSTANTS
  Messages,  \* messages to save, one call each
  To,        \* whom each is for
  Readers    \* streams

VARIABLES
  queued,    \* messages in the queue
  call,      \* the save of each message
  stream,    \* the state of each stream
  asker,     \* its user
  got,       \* what it brought
  owed       \* what its user had in the queue as it opened

vars == <<queued, call, stream, asker, got, owed>>

Init ==
  /\ queued = {}
  /\ call   = [m \in Messages |-> "none"]
  /\ stream = [r \in Readers |-> "none"]
  /\ got    = [r \in Readers |-> {}]
  /\ owed   = [r \in Readers |-> {}]

Save(m) ==
  /\ call[m] = "none"
  /\ call'   = [call EXCEPT ![m] = "acked"]
  /\ queued' = queued \cup {m}
  /\ UNCHANGED <<stream, asker, got, owed>>

\* Streams end early: their client goes, or the service does.
Break(B) ==
  /\ \A r \in B : stream[r] \in {"none", "open"}
  /\ stream' = [r \in Readers |-> IF r \in B THEN "broken" ELSE stream[r]]
  /\ UNCHANGED <<queued, asker, got, owed>>

\* A save that fails may be what brings the service down.
Fail(m) ==
  /\ call[m] = "none"
  /\ call' = [call EXCEPT ![m] = "error"]
  /\ \E B \in SUBSET Readers : Break(B)

Open(r) ==
  /\ stream[r] = "none"
  /\ stream' = [stream EXCEPT ![r] = "open"]
  /\ owed'   = [owed EXCEPT ![r] = {m \in queued : To[m] = asker[r]}]
  /\ UNCHANGED <<queued, call, asker, got>>

Deliver(r) ==
  /\ stream[r] = "open"
  /\ \E m \in queued \ got[r] : got' = [got EXCEPT ![r] = @ \cup {m}]
  /\ UNCHANGED <<queued, call, stream, asker, owed>>

Close(r) ==
  /\ stream[r] = "open" /\ owed[r] \subseteq got[r]
  /\ stream' = [stream EXCEPT ![r] = "closed"]
  /\ UNCHANGED <<queued, call, asker, got, owed>>

\* The queue starts anew.
Forget ==
  /\ \A r \in Readers : stream[r] # "open"
  /\ queued' = {}
  /\ UNCHANGED <<call, stream, asker, got, owed>>

Next ==
  \/ \E m \in Messages : Save(m) \/ Fail(m)
  \/ \E r \in Readers : Open(r) \/ Deliver(r) \/ Close(r)
  \/ \E B \in SUBSET Readers : Break(B) /\ UNCHANGED call
  \/ Forget

Spec == Init /\ [][Next]_vars
=============================================================================
