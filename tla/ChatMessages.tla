---------------------------- MODULE ChatMessages ----------------------------
(***************************************************************************)
(* The chat handlers of a web server process: send a message, delete it    *)
(* for everyone, delete messages for oneself, update their status.         *)
(*                                                                         *)
(* A message is stored once per owner, by two statements; it is named by   *)
(* the request that sent it, for which the server mints its id.  Sending,  *)
(* deleting for everyone and updating go through the skeleton of           *)
(* ConfessionService (look up, notify, then the closure); updating and     *)
(* deleting for oneself end in a RabbitMQ queue that no code here reads.   *)
(* The handlers that succeed answer nobody, but for an update, which is    *)
(* answered before it is begun and never awaited.                          *)
(***************************************************************************)
EXTENDS Naturals, FiniteSets

CONSTANTS
  Requests,         \* the requests of a behaviour
  Reprs,            \* how times arrive: "Date" in process, "string" over HTTP
  DriverTakesText,  \* does the driver bind text to a timestamp unprepared?
  MaxBatch,         \* most messages of a batch (50 in the code)
  MaxFaults,        \* bound on Redis, Cassandra, gRPC, RabbitMQ errors
  NoArg             \* the argument of a request not made yet

Sides == {"sender", "reciever"}
Args  == [of : SUBSET Requests, by : Sides, repr : Reprs, late : BOOLEAN]

ASSUME ParametersAssumption ==
  /\ Reprs \subseteq {"Date", "string"} /\ DriverTakesText \in BOOLEAN
  /\ MaxBatch \in Nat /\ MaxFaults \in Nat /\ NoArg \notin Args

VARIABLES
  op, arg,  \* what each request is
  pc,       \* the await it is at
  note,     \* what became of its notification
  reply,    \* what its client was answered
  mq,       \* what became of its RabbitMQ message
  rows,     \* chat_messages: message and owner
  faults    \* faults so far

vars == <<op, arg, pc, note, reply, mq, rows, faults>>

Statements == {"insertS", "insertR", "deleteOwn", "deleteOther", "produce"}
Final      == {"done", "failed", "killed"}

TypeOK ==
  /\ op    \in [Requests -> {"none", "send", "deleteAll", "deleteMine", "update"}]
  /\ arg   \in [Requests -> Args \cup {NoArg}]
  /\ pc    \in [Requests -> Statements \cup Final \cup {"idle", "check", "publish", "resolve"}]
  /\ note  \in [Requests -> {"none", "delivered", "lost", "saving", "saved", "dropped"}]
  /\ reply \in [Requests -> {"none", "ok", "error"}]
  /\ mq    \in [Requests -> {"none", "connecting", "queued", "lost"}]
  /\ rows  \subseteq Requests \X Sides
  /\ faults \in 0..MaxFaults

Init ==
  /\ op    = [r \in Requests |-> "none"]
  /\ arg   = [r \in Requests |-> NoArg]
  /\ pc    = [r \in Requests |-> "idle"]
  /\ note  = [r \in Requests |-> "none"]
  /\ reply = [r \in Requests |-> "none"]
  /\ mq    = [r \in Requests |-> "none"]
  /\ rows  = {}
  /\ faults = 0

Live(r)     == pc[r] \notin Final \cup {"idle"}
Floating(r) == note[r] \in {"saving", "saved", "dropped"} \/ op[r] = "update"
Other(side) == IF side = "sender" THEN "reciever" ELSE "sender"

\* The messages the owner of a side can name: those it was sent, or has.
Known(side) ==
  {m \in Requests : op[m] = "send" /\ (\/ <<m, side>> \in rows
                                       \/ /\ side = "reciever"
                                          /\ note[m] \in {"delivered", "saved"})}

-----------------------------------------------------------------------------
(* The controllers. *)

Start(r, o, a) ==
  /\ op[r] = "none"
  /\ op'  = [op EXCEPT ![r] = o]
  /\ arg' = [arg EXCEPT ![r] = a]

\* sendChatMessage
Send(r) ==
  /\ \E x \in Reprs :
       Start(r, "send", [of |-> {r}, by |-> "sender", repr |-> x, late |-> FALSE])
  /\ pc' = [pc EXCEPT ![r] = "check"]
  /\ UNCHANGED <<note, reply, mq, rows, faults>>

\* deleteChatMessageForEveryone; `late` when nothing of the message is on its
\* way any more.
DeleteAll(r) ==
  /\ \E side \in Sides, x \in Reprs : \E m \in Known(side) :
       Start(r, "deleteAll", [of |-> {m}, by |-> side, repr |-> x, late |-> ~Live(m)])
  /\ pc' = [pc EXCEPT ![r] = "check"]
  /\ UNCHANGED <<note, reply, mq, rows, faults>>

\* A batch of messages one side names, of one request.
StartBatch(r, o, side, B) ==
  /\ B # {}
  /\ \E x \in Reprs :
       Start(r, o, [of |-> B, by |-> side, repr |-> x, late |-> FALSE])

\* A batch above the limit is a ConflictError.
TooLarge(r) ==
  /\ \E o \in {"deleteMine", "update"}, side \in Sides : \E B \in SUBSET Known(side) :
       /\ o = "update" => side = "reciever"
       /\ Cardinality(B) > MaxBatch
       /\ StartBatch(r, o, side, B)
  /\ pc'    = [pc EXCEPT ![r] = "failed"]
  /\ reply' = [reply EXCEPT ![r] = "error"]
  /\ UNCHANGED <<note, mq, rows, faults>>

\* deleteChatMessagesForMe: createChannel only begins to connect.
DeleteMine(r) ==
  /\ \E side \in Sides : \E B \in SUBSET Known(side) :
       Cardinality(B) <= MaxBatch /\ StartBatch(r, "deleteMine", side, B)
  /\ pc' = [pc EXCEPT ![r] = "done"]
  /\ mq' = [mq EXCEPT ![r] = "connecting"]
  /\ UNCHANGED <<note, reply, rows, faults>>

\* updateStatusOfChatMessages: answered without awaiting the service.
Update(r) ==
  /\ \E B \in SUBSET Known("reciever") :
       Cardinality(B) <= MaxBatch /\ StartBatch(r, "update", "reciever", B)
  /\ pc'    = [pc EXCEPT ![r] = "check"]
  /\ reply' = [reply EXCEPT ![r] = "ok"]
  /\ UNCHANGED <<note, mq, rows, faults>>

-----------------------------------------------------------------------------
(* The skeleton, as in ConfessionService. *)

\* Mutant: the reciever's copy is stored first.
ClosureRecieverFirst(o) == CASE o = "send"      -> "insertR"
                             [] o = "deleteAll" -> "deleteOwn"
                             [] OTHER           -> "produce"
\* Where each handler's afterAcknowledgement begins.
Closure(o) == CASE o = "send"      -> "insertS"
                [] o = "deleteAll" -> "deleteOwn"
                [] OTHER           -> "produce"

CheckOnline(r) ==
  /\ pc[r] = "check"
  /\ pc' = [pc EXCEPT ![r] = "publish"]
  /\ UNCHANGED <<op, arg, note, reply, mq, rows, faults>>

\* Mutant: an offline addressee ends the handler.
CheckOfflineEnds(r) ==
  /\ pc[r] = "check"
  /\ pc'   = [pc EXCEPT ![r] = "done"]
  /\ note' = [note EXCEPT ![r] = "saving"]
  /\ UNCHANGED <<op, arg, reply, mq, rows, faults>>

CheckOffline(r) ==
  /\ pc[r] = "check"
  /\ pc'   = [pc EXCEPT ![r] = Closure(op[r])]
  /\ note' = [note EXCEPT ![r] = "saving"]
  /\ UNCHANGED <<op, arg, reply, mq, rows, faults>>

Publish(r) ==
  /\ pc[r] = "publish"
  /\ pc' = [pc EXCEPT ![r] = Closure(op[r])]
  /\ \E outcome \in {"delivered", "lost"} : note' = [note EXCEPT ![r] = outcome]
  /\ UNCHANGED <<op, arg, reply, mq, rows, faults>>

\* The closure resolved, the controller returns: nobody is answered.
Finish(r) ==
  /\ pc[r] = "resolve"
  /\ pc' = [pc EXCEPT ![r] = "done"]
  /\ UNCHANGED <<op, arg, note, reply, mq, rows, faults>>

SaveReturns(r) ==
  /\ note[r] = "saving"
  /\ note' = [note EXCEPT ![r] = "saved"]
  /\ UNCHANGED <<op, arg, pc, reply, mq, rows, faults>>

\* The process dies, with its requests, saves and RabbitMQ connections.
Kill ==
  /\ pc' = [q \in Requests |-> IF Live(q) THEN "killed" ELSE pc[q]]
  /\ mq' = [q \in Requests |-> IF mq[q] = "connecting" THEN "lost" ELSE mq[q]]
  /\ LET flying == {q \in Requests : note[q] = "saving"}
     IN  \E landed \in SUBSET flying :
           note' = [q \in Requests |-> IF q \notin flying THEN note[q]
                                       ELSE IF q \in landed THEN "saved"
                                                            ELSE "dropped"]

\* An exception: answered by an awaiting handler, else unhandled.
Throw(r) ==
  /\ IF Floating(r)
     THEN Kill /\ UNCHANGED reply
     ELSE /\ pc'    = [pc EXCEPT ![r] = "failed"]
          /\ reply' = [reply EXCEPT ![r] = "error"]
          /\ UNCHANGED <<note, mq>>
  /\ UNCHANGED <<op, arg, rows>>

-----------------------------------------------------------------------------
(* The closures. *)

Go(r, s, next) ==
  /\ pc[r] = s
  /\ pc' = [pc EXCEPT ![r] = next]
  /\ UNCHANGED <<op, arg, note, reply, faults>>

HasISOString(r) == arg[r].repr = "Date"
TimesBind(r)    == arg[r].repr = "Date" \/ DriverTakesText

(* saveChatMessage: the sender's copy, then the reciever's. *)
InsertS(r) ==
  /\ Go(r, "insertS", "insertR")
  /\ HasISOString(r)
  /\ rows' = rows \cup {<<r, "sender">>}
  /\ UNCHANGED mq

\* Mutant: owner and message swapped in the list of parameters.
InsertRSwapped(r) ==
  /\ Go(r, "insertR", "resolve")
  /\ HasISOString(r)
  /\ rows' = rows \cup {<<"reciever", r>>}
  /\ UNCHANGED mq
\* Mutant: the owner of the first statement pasted into the second.
InsertRSameOwner(r) ==
  /\ Go(r, "insertR", "resolve")
  /\ HasISOString(r)
  /\ rows' = rows \cup {<<r, "sender">>}
  /\ UNCHANGED mq
InsertR(r) ==
  /\ Go(r, "insertR", "resolve")
  /\ HasISOString(r)
  /\ rows' = rows \cup {<<r, "reciever">>}
  /\ UNCHANGED mq

(* deleteChatMessageForEveryone: the requester's copy, then the other's. *)
Copies(r, side) == arg[r].of \X {side}

DeleteOwn(r) ==
  /\ Go(r, "deleteOwn", "deleteOther")
  /\ TimesBind(r)
  /\ rows' = rows \ Copies(r, arg[r].by)
  /\ UNCHANGED mq

\* Mutant: the requester's copy again.
DeleteOtherSame(r) ==
  /\ Go(r, "deleteOther", "resolve")
  /\ TimesBind(r)
  /\ rows' = rows \ Copies(r, arg[r].by)
  /\ UNCHANGED mq
DeleteOther(r) ==
  /\ Go(r, "deleteOther", "resolve")
  /\ TimesBind(r)
  /\ rows' = rows \ Copies(r, Other(arg[r].by))
  /\ UNCHANGED mq

\* updateStatusOfChatMessages: createChannel only begins to connect.
Produce(r) ==
  /\ Go(r, "produce", "done")
  /\ mq' = [mq EXCEPT ![r] = "connecting"]
  /\ UNCHANGED rows

\* Connected, the channel sends and is closed.
Queue(r) ==
  /\ mq[r] = "connecting"
  /\ mq' = [mq EXCEPT ![r] = "queued"]
  /\ UNCHANGED <<op, arg, pc, note, reply, rows, faults>>

\* toISOString of a string; text where a DELETE binds a timestamp.
Refused(r) ==
  \/ pc[r] \in {"insertS", "insertR"} /\ ~HasISOString(r)
  \/ pc[r] \in {"deleteOwn", "deleteOther"} /\ ~TimesBind(r)

Refuse(r) == Refused(r) /\ Throw(r) /\ UNCHANGED faults

-----------------------------------------------------------------------------
(* Faults, at most MaxFaults of them. *)

Fault == faults < MaxFaults /\ faults' = faults + 1

RedisError(r) == Fault /\ pc[r] \in {"check", "publish"} /\ Throw(r)

\* Cassandra rejects the pending statement, or times out on one it applied (the
\* step before this one).
DbError(r) == Fault /\ pc[r] \in (Statements \ {"produce"}) \cup {"resolve"} /\ Throw(r)

SaveFails(r) ==
  /\ Fault
  /\ note[r] = "saving"
  /\ Kill
  /\ note'[r] = "dropped"
  /\ UNCHANGED <<op, arg, reply, rows>>

\* The pod is stopped.
Crash == Fault /\ Kill /\ UNCHANGED <<op, arg, reply, rows>>

\* No connection: `connection` is undefined, the TypeError is caught, logged.
ConnectFails(r) ==
  /\ Fault
  /\ mq[r] = "connecting"
  /\ mq' = [mq EXCEPT ![r] = "lost"]
  /\ UNCHANGED <<op, arg, pc, note, reply, rows>>

\* No channel: the error is logged and the callback run on `undefined`, outside
\* any try.
ChannelFails(r) ==
  /\ Fault
  /\ mq[r] = "connecting"
  /\ Kill
  /\ UNCHANGED <<op, arg, reply, rows>>

-----------------------------------------------------------------------------

Begin(r) == Send(r) \/ DeleteAll(r) \/ TooLarge(r) \/ DeleteMine(r) \/ Update(r)

Handle(r) ==
  \/ CheckOnline(r) \/ CheckOffline(r) \/ Publish(r)
  \/ InsertS(r) \/ InsertR(r) \/ DeleteOwn(r) \/ DeleteOther(r)
  \/ Produce(r) \/ Refuse(r) \/ Finish(r)

Faulty(r) == \/ RedisError(r) \/ DbError(r) \/ SaveFails(r)
             \/ ConnectFails(r) \/ ChannelFails(r)

Next ==
  \/ Crash
  \/ \E r \in Requests :
       Begin(r) \/ Handle(r) \/ SaveReturns(r) \/ Queue(r) \/ Faulty(r)

Spec == Init /\ [][Next]_vars

\* The event loop goes on with every request, save and connection.
Fairness == \A r \in Requests :
  WF_vars(Handle(r)) /\ WF_vars(SaveReturns(r)) /\ WF_vars(Queue(r))
FairSpec == Spec /\ Fairness

-----------------------------------------------------------------------------
\* A request to delete m for everyone that may have run the statement for a
\* side: it is past it, or was stopped.
Deleting(m, side) == \E d \in Requests :
  /\ op[d] = "deleteAll" /\ m \in arg[d].of
  /\ pc[d] \notin {"check", "publish", "deleteOwn"}
  /\ side # arg[d].by => pc[d] # "deleteOther"

\* The reciever alone has a message only while, or after, it is deleted for
\* everyone: saveChatMessage stores the sender's copy first, and no crash or
\* error between its statements leaves the reciever's behind.
LoneCopyIsDeleted ==
  \A m \in Requests :
    <<m, "reciever">> \in rows /\ <<m, "sender">> \notin rows => Deleting(m, "sender")

\* A message whose request went through has both its copies, save those that
\* were deleted (saveChatMessage's two owners).
DoneIsStored ==
  \A m \in Requests, side \in Sides :
    op[m] = "send" /\ pc[m] = "done" => <<m, side>> \in rows \/ Deleting(m, side)

\* Deleted for everyone when nothing of it was on its way, a message is gone on
\* both sides for good (deleteChatMessageForEveryone).
DeletedIsGone ==
  \A d \in Requests : op[d] = "deleteAll" /\ pc[d] = "done" /\ arg[d].late =>
    rows \cap (arg[d].of \X Sides) = {}

\* Under Fairness: a status update that was answered reaches the RabbitMQ queue,
\* unless the connection fails or the process dies meanwhile.
UpdateIsQueued ==
  \A r \in Requests : op[r] = "update" /\ reply[r] = "ok"
    ~> mq[r] \in {"queued", "lost"} \/ pc[r] = "killed"
=============================================================================
