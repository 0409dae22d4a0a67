-------------------------- MODULE ConfessionService --------------------------
(***************************************************************************)
(* The four confession handlers (send, read, accept, reject) of the web    *)
(* server.  Each HTTP request is a process that runs the same skeleton,    *)
(* SendMessageToUserService.sendMessageToUser: look the addressee up in    *)
(* Redis, notify (publish when online, a gRPC save when offline), then run *)
(* a fixed list of Cassandra statements as `afterAcknowledgement`.  Every  *)
(* `await` is a step of its own, so requests interleave between any two    *)
(* statements.                                                             *)
(*                                                                         *)
(* The asymmetry the code hides: online, the statements are awaited and    *)
(* the client is answered after them; offline, they are a floating promise *)
(* and the client is answered first.  A floating promise that rejects, and *)
(* a gRPC callback that throws, end the whole Node process.                *)
(***************************************************************************)
EXTENDS Naturals, FiniteSets

CONSTANTS
  Confessions,      \* confession ids (TimeUuid.now(), one per send request)
  Times,            \* instants a client can name, in milliseconds
  Second,           \* [Times -> Times]: an instant without its milliseconds
  Reprs,            \* how times arrive: "Date" in process, "string" over HTTP
  DriverTakesText,  \* does the driver bind text to a timestamp unprepared?
  Requests,         \* the requests of a behaviour
  Replicas,         \* web-server processes
  Pacing,           \* how long clients wait before the next request
  MaxFaults,        \* bound on crashes and on Redis, Cassandra, gRPC errors
  NoArg             \* the argument of a request not made yet

ASSUME SecondAssumption ==
  /\ Second \in [Times -> Times]
  /\ \A t \in Times : Second[Second[t]] = Second[t]
ASSUME ParametersAssumption ==
  /\ Reprs \subseteq {"Date", "string"}
  /\ DriverTakesText \in BOOLEAN
  /\ Pacing \in {"free", "reply", "serial"}
  /\ MaxFaults \in Nat

VARIABLES
  op, arg, host,    \* what each request is, on which replica it runs
  pc,               \* the await it is at
  note,             \* what became of its notification
  reply,            \* what its client was answered
  sent,             \* sent_confessions, by confession and sending_time
  unread,           \* recieved_unread_confessions: the keys present
  read,             \* recieved_read_confessions, by confession, reading_time
  chatS, chatC,     \* chats_for_sender, chats_for_crush: accepts with a row
  over,             \* history: whose row of which table another one changed
  faults            \* faults so far

client == <<op, arg, host>>
tables == <<sent, unread, read, chatS, chatC, over>>
vars   == <<op, arg, host, pc, note, reply,
            sent, unread, read, chatS, chatC, over, faults>>

Keys     == Confessions \X Times
Verdicts == {"ACCEPTED", "REJECTED"}
\* Mutant: the operation stored in place of the status.
DecidedAsGiven(o) == o

Decided(o) == IF o = "accept" THEN "ACCEPTED" ELSE "REJECTED"

Args == [c : Confessions, st : Times, rt : Times, repr : Reprs]
ASSUME NoArgAssumption == NoArg \notin Args

\* The statements of saveConfessionToCassandra, readConfession,
\* acceptOrRejectConfession and createChat, each named for its await.
DbStages ==
  {"insertSent", "insertUnread",
   "deleteUnread", "insertRead", "updateSentRead",
   "selectSent", "selectRead", "updateRead", "updateSent",
   "insertChatS", "insertChatC"}
Final  == {"done", "failed", "killed"}
Stages == DbStages \cup Final \cup {"idle", "check", "publish", "answer"}

\* A sent_confessions row: UPDATE is an upsert, so a row may exist that no
\* INSERT ever filled (full = FALSE).
Absent  == [status |-> "none", full |-> FALSE]
SentRow == [status : {"none", "Sent", "READ"} \cup Verdicts, full : BOOLEAN]

TypeOK ==
  /\ op     \in [Requests -> {"none", "send", "read", "accept", "reject"}]
  /\ arg    \in [Requests -> Args \cup {NoArg}]
  /\ host   \in [Requests -> Replicas]
  /\ pc     \in [Requests -> Stages]
  /\ note   \in [Requests -> {"none", "delivered", "lost",
                              "saving", "saved", "dropped"}]
  /\ reply  \in [Requests -> {"none", "ok", "error"}]
  /\ sent   \in [Keys -> SentRow]
  /\ unread \subseteq Keys
  /\ read   \in [Keys -> {"none", "READ"} \cup Verdicts]
  /\ chatS  \subseteq Requests
  /\ chatC  \subseteq Requests
  /\ over   \subseteq Requests \X {"sent", "unread", "read"}
  /\ faults \in 0..MaxFaults

Init ==
  /\ op     = [r \in Requests |-> "none"]
  /\ arg    = [r \in Requests |-> NoArg]
  /\ host   \in [Requests -> Replicas]
  /\ pc     = [r \in Requests |-> "idle"]
  /\ note   = [r \in Requests |-> "none"]
  /\ reply  = [r \in Requests |-> "none"]
  /\ sent   = [k \in Keys |-> Absent]
  /\ unread = {}
  /\ read   = [k \in Keys |-> "none"]
  /\ chatS  = {}
  /\ chatC  = {}
  /\ over   = {}
  /\ faults = 0

Live(r)     == pc[r] \notin Final \cup {"idle"}
Floating(r) == note[r] \in {"saving", "saved", "dropped"}

\* sending_time as its parts are used: `sending_time.toString()` drops the
\* milliseconds of a Date and leaves a string as it is; every other statement
\* passes the value on.
StoredKey(r) == <<arg[r].c, IF arg[r].repr = "Date" THEN Second[arg[r].st]
                                                    ELSE arg[r].st>>
SentKey(r)   == <<arg[r].c, arg[r].st>>
ReadKey(r)   == <<arg[r].c, arg[r].rt>>
\* The key a request writes in sent_confessions.
OwnSentKey(r) == IF op[r] = "send" THEN StoredKey(r) ELSE SentKey(r)

\* The history `over`: a request that has written its row of a table is in it
\* once the statement of another one writes that row again, or deletes it.
PastSent == {"insertUnread", "insertChatS", "insertChatC", "answer", "done"}
PastRead == {"updateSentRead", "updateSent", "insertChatS", "insertChatC",
             "answer", "done"}

WritesSent(k) ==
  over' = over \cup {q \in Requests : pc[q] \in PastSent /\ OwnSentKey(q) = k}
                    \X {"sent"}
WritesRead(k) ==
  over' = over \cup {q \in Requests : /\ op[q] # "send" /\ pc[q] \in PastRead
                                      /\ ReadKey(q) = k} \X {"read"}
DeletesUnread(k) ==
  over' = over \cup {q \in Requests : /\ op[q] = "send" /\ pc[q] \in {"answer", "done"}
                                      /\ StoredKey(q) = k} \X {"unread"}

-----------------------------------------------------------------------------
(* Clients. *)

\* What a client of confession c waits for before its next request.
Paced(c) ==
  \A q \in Requests : (op[q] # "none" /\ arg[q].c = c) =>
    CASE Pacing = "free"   -> TRUE
      [] Pacing = "reply"  -> reply[q] # "none" \/ pc[q] = "killed"
      [] Pacing = "serial" -> ~Live(q) /\ note[q] # "saving"

\* The crush learns of <<c, st>> from the push, from the offline queue, from
\* the unread table, or knows it from having read it before.
Heard(c, st) ==
  \/ \E q \in Requests : /\ op[q] = "send"
                         /\ SentKey(q) = <<c, st>>
                         /\ note[q] \in {"delivered", "saved"}
  \/ <<c, st>> \in unread
  \/ \E q \in Requests : op[q] = "read" /\ SentKey(q) = <<c, st>>

\* The crush holds a sending and a reading time for c: of a read request that
\* was answered, or whose row the read-confessions route returns.
HasRead(c, st, rt) ==
  \E q \in Requests : /\ op[q] = "read"
                      /\ SentKey(q) = <<c, st>>
                      /\ ReadKey(q) = <<c, rt>>
                      /\ reply[q] = "ok" \/ read[<<c, rt>>] # "none"

Start(r, o, a) ==
  /\ op[r] = "none"
  /\ Paced(a.c)
  /\ op'  = [op EXCEPT ![r] = o]
  /\ arg' = [arg EXCEPT ![r] = a]
  /\ pc'  = [pc EXCEPT ![r] = "check"]
  /\ UNCHANGED <<host, note, reply, tables, faults>>

\* sendConfessionToUser: the id is fresh, the time is the client's.
StartSend(r) ==
  \E a \in Args :
    /\ \A q \in Requests : op[q] = "send" => arg[q].c # a.c
    /\ a.rt = a.st
    /\ Start(r, "send", a)

\* readConfession: the reading time is the client's.
StartRead(r) ==
  \E a \in Args : Heard(a.c, a.st) /\ Start(r, "read", a)

\* acceptConfession, with the chat_id it mints; rejectConfession.
StartAccept(r) ==
  \E a \in Args : HasRead(a.c, a.st, a.rt) /\ Start(r, "accept", a)

StartReject(r) ==
  \E a \in Args : HasRead(a.c, a.st, a.rt) /\ Start(r, "reject", a)

-----------------------------------------------------------------------------
(* The skeleton: sendMessageToUser and sendMessageToOfflineUser. *)

\* Mutant: a decision that checks nothing.
FirstStatementUnchecked(o) == CASE o = "send" -> "insertSent"
                                [] o = "read" -> "deleteUnread"
                                [] OTHER      -> "updateRead"

FirstStatement(o) == CASE o = "send" -> "insertSent"
                       [] o = "read" -> "deleteUnread"
                       [] OTHER      -> "selectSent"

\* `sIsMember` says the addressee is online.
CheckOnline(r) ==
  /\ pc[r] = "check"
  /\ pc' = [pc EXCEPT ![r] = "publish"]
  /\ UNCHANGED <<client, note, reply, tables, faults>>

\* Mutant: the message for an offline addressee is forgotten.
CheckOfflineSilent(r) ==
  /\ pc[r] = "check"
  /\ pc'    = [pc EXCEPT ![r] = FirstStatement(op[r])]
  /\ reply' = [reply EXCEPT ![r] = "ok"]
  /\ UNCHANGED <<client, note, tables, faults>>

\* `sIsMember` says offline: the statements start without being awaited, the
\* gRPC save is issued and the handler returns, all before any answer comes.
CheckOffline(r) ==
  /\ pc[r] = "check"
  /\ pc'    = [pc EXCEPT ![r] = FirstStatement(op[r])]
  /\ note'  = [note EXCEPT ![r] = "saving"]
  /\ reply' = [reply EXCEPT ![r] = "ok"]
  /\ UNCHANGED <<client, tables, faults>>

\* hGet and PUBLISH resolve.  PUBLISH keeps nothing: with a stale or missing
\* socket id, or no subscriber, the message is gone and the code cannot tell.
Publish(r) ==
  /\ pc[r] = "publish"
  /\ pc' = [pc EXCEPT ![r] = FirstStatement(op[r])]
  /\ \E outcome \in {"delivered", "lost"} : note' = [note EXCEPT ![r] = outcome]
  /\ UNCHANGED <<client, reply, tables, faults>>

\* A replica dies: its live requests with it; a save in flight may have landed.
Kill(p) ==
  /\ pc' = [q \in Requests |-> IF host[q] = p /\ Live(q) THEN "killed" ELSE pc[q]]
  /\ LET flying == {q \in Requests : host[q] = p /\ note[q] = "saving"}
     IN  \E landed \in SUBSET flying :
           note' = [q \in Requests |-> IF q \notin flying THEN note[q]
                                       ELSE IF q \in landed THEN "saved"
                                                            ELSE "dropped"]

\* An exception in the statements.  Awaited, it is rethrown and answered;
\* floating, it is an unhandled rejection.
Throw(r) ==
  /\ IF Floating(r)
     THEN Kill(host[r]) /\ UNCHANGED reply
     ELSE /\ pc'    = [pc EXCEPT ![r] = "failed"]
          /\ reply' = [reply EXCEPT ![r] = "error"]
          /\ UNCHANGED note
  /\ UNCHANGED <<client, tables>>

\* The statements resolved; an awaiting handler answers its client.
Finish(r) ==
  /\ pc[r] = "answer"
  /\ pc'    = [pc EXCEPT ![r] = "done"]
  /\ reply' = [reply EXCEPT ![r] = "ok"]
  /\ UNCHANGED <<client, note, tables, faults>>

\* The gRPC save succeeds.
SaveReturns(r) ==
  /\ note[r] = "saving"
  /\ note' = [note EXCEPT ![r] = "saved"]
  /\ UNCHANGED <<client, pc, reply, tables, faults>>

-----------------------------------------------------------------------------
(* The statements, in the order the queries file runs them.  Cassandra       *)
(* applies each one alone; nothing ties two of them together.                *)

\* Request r is at statement s and goes on to the next one.
Go(r, s, next) ==
  /\ pc[r] = s
  /\ pc' = [pc EXCEPT ![r] = next]
  /\ UNCHANGED <<client, note, reply, faults>>

\* Times reach an unprepared statement as dates, or as text the driver takes.
TimesBind(r) == arg[r].repr = "Date" \/ DriverTakesText
\* `last_update.toISOString()` exists on a Date only.
HasISOString(r) == arg[r].repr = "Date"

(* saveConfessionToCassandra *)
InsertSent(r) ==
  /\ Go(r, "insertSent", "insertUnread")
  /\ sent' = [sent EXCEPT ![StoredKey(r)] = [status |-> "Sent", full |-> TRUE]]
  /\ WritesSent(StoredKey(r))
  /\ UNCHANGED <<unread, read, chatS, chatC>>

\* Mutant: the time is stored as it came, unlike in the sender's row.
InsertUnreadAsGiven(r) ==
  /\ Go(r, "insertUnread", "answer")
  /\ unread' = unread \cup {SentKey(r)}
  /\ UNCHANGED <<sent, read, chatS, chatC, over>>

InsertUnread(r) ==
  /\ Go(r, "insertUnread", "answer")
  /\ unread' = unread \cup {StoredKey(r)}
  /\ UNCHANGED <<sent, read, chatS, chatC, over>>

(* readConfession *)
\* Mutants: the crush's INSERT is left out; the DELETE is.
DeleteUnreadNoInsert(r) ==
  /\ Go(r, "deleteUnread", "updateSentRead")
  /\ TimesBind(r)
  /\ unread' = unread \ {SentKey(r)}
  /\ DeletesUnread(SentKey(r))
  /\ UNCHANGED <<sent, read, chatS, chatC>>
DeleteUnreadKeeps(r) ==
  /\ Go(r, "deleteUnread", "insertRead")
  /\ TimesBind(r)
  /\ UNCHANGED tables

DeleteUnread(r) ==
  /\ Go(r, "deleteUnread", "insertRead")
  /\ TimesBind(r)
  /\ unread' = unread \ {SentKey(r)}
  /\ DeletesUnread(SentKey(r))
  /\ UNCHANGED <<sent, read, chatS, chatC>>

InsertRead(r) ==
  /\ Go(r, "insertRead", "updateSentRead")
  /\ TimesBind(r)
  /\ read' = [read EXCEPT ![ReadKey(r)] = "READ"]
  /\ WritesRead(ReadKey(r))
  /\ UNCHANGED <<sent, unread, chatS, chatC>>

UpdateSentRead(r) ==
  /\ Go(r, "updateSentRead", "answer")
  /\ sent' = [sent EXCEPT ![SentKey(r)].status = "READ"]
  /\ WritesSent(SentKey(r))
  /\ UNCHANGED <<unread, read, chatS, chatC>>

(* acceptOrRejectConfession *)
\* Mutant: the status check is dropped.
StatusUnchecked(r) == TRUE
\* `rows[0].get('status') != 'READ'` is the one guard of a decision.
StatusIsRead(r) == sent[SentKey(r)].status = "READ"

SelectSent(r) ==
  /\ Go(r, "selectSent", "selectRead")
  /\ TimesBind(r)
  /\ StatusIsRead(r)
  /\ UNCHANGED tables

SelectRead(r) ==
  /\ Go(r, "selectRead", "updateRead")
  /\ TimesBind(r)
  /\ read[ReadKey(r)] # "none"
  /\ UNCHANGED tables

\* Mutant: the verdict never reaches the crush's table.
UpdateReadForgotten(r) ==
  /\ Go(r, "updateRead", "updateSent")
  /\ TimesBind(r)
  /\ UNCHANGED tables

UpdateRead(r) ==
  /\ Go(r, "updateRead", "updateSent")
  /\ TimesBind(r)
  /\ read' = [read EXCEPT ![ReadKey(r)] = Decided(op[r])]
  /\ WritesRead(ReadKey(r))
  /\ UNCHANGED <<sent, unread, chatS, chatC>>

\* Mutants: the crush's chat row first; a chat for a rejection; no chat.
AfterVerdictCrushFirst(o) == IF o = "accept" THEN "insertChatC" ELSE "answer"
AfterVerdictAlwaysChat(o) == "insertChatS"
AfterVerdictNoChat(o)     == "answer"
\* acceptConfession goes on to createChat, rejectConfession does not.
AfterVerdict(o) == IF o = "accept" THEN "insertChatS" ELSE "answer"

UpdateSent(r) ==
  /\ Go(r, "updateSent", AfterVerdict(op[r]))
  /\ TimesBind(r)
  /\ sent' = [sent EXCEPT ![SentKey(r)].status = Decided(op[r])]
  /\ WritesSent(SentKey(r))
  /\ UNCHANGED <<unread, read, chatS, chatC>>

(* createChat: both rows carry the chat_id this request minted. *)
InsertChatS(r) ==
  /\ Go(r, "insertChatS", "insertChatC")
  /\ HasISOString(r)
  /\ chatS' = chatS \cup {r}
  /\ UNCHANGED <<sent, unread, read, chatC, over>>

InsertChatC(r) ==
  /\ Go(r, "insertChatC", "answer")
  /\ HasISOString(r)
  /\ chatC' = chatC \cup {r}
  /\ UNCHANGED <<sent, unread, read, chatS, over>>

\* Mutant: a failed status check is swallowed instead of thrown.
RefusedSwallowed(r) ==
  \/ pc[r] = "selectRead" /\ read[ReadKey(r)] = "none"
  \/ pc[r] \in {"insertChatS", "insertChatC"} /\ ~HasISOString(r)

\* What makes the code itself throw at a statement: text where an unprepared
\* statement binds a timestamp; a sent row that is missing (rows[0] undefined)
\* or not READ (ConflictError); no read row; toISOString of a string.
Refused(r) ==
  \/ /\ pc[r] \in {"deleteUnread", "insertRead", "selectSent", "selectRead",
                   "updateRead", "updateSent"}
     /\ ~TimesBind(r)
  \/ pc[r] = "selectSent" /\ ~StatusIsRead(r)
  \/ pc[r] = "selectRead" /\ read[ReadKey(r)] = "none"
  \/ pc[r] \in {"insertChatS", "insertChatC"} /\ ~HasISOString(r)

Refuse(r) == Refused(r) /\ Throw(r) /\ UNCHANGED faults

-----------------------------------------------------------------------------
(* Faults, at most MaxFaults of them. *)

Fault == faults < MaxFaults /\ faults' = faults + 1

\* Redis rejects a lookup or the publish.
RedisError(r) == Fault /\ pc[r] \in {"check", "publish"} /\ Throw(r)

\* Cassandra rejects the pending statement, or times out on one it applied
\* (the step before this one).
DbError(r) == Fault /\ pc[r] \in DbStages \cup {"answer"} /\ Throw(r)

\* The gRPC save fails (also when `client.close()` overtakes it): the callback
\* throws with nobody to catch it.
SaveFails(r) ==
  /\ Fault
  /\ note[r] = "saving"
  /\ Kill(host[r])
  /\ note'[r] = "dropped"
  /\ UNCHANGED <<client, reply, tables>>

\* A pod dies; Kubernetes restarts it, and nothing of its requests is kept.
Crash(p) ==
  /\ Fault
  /\ Kill(p)
  /\ UNCHANGED <<client, reply, tables>>

-----------------------------------------------------------------------------

Begin(r) == StartSend(r) \/ StartRead(r) \/ StartAccept(r) \/ StartReject(r)

Statement(r) ==
  \/ InsertSent(r)   \/ InsertUnread(r)
  \/ DeleteUnread(r) \/ InsertRead(r)   \/ UpdateSentRead(r)
  \/ SelectSent(r)   \/ SelectRead(r)   \/ UpdateRead(r) \/ UpdateSent(r)
  \/ InsertChatS(r)  \/ InsertChatC(r)

\* What the server does for r once it has it.
Handle(r) ==
  \/ CheckOnline(r) \/ CheckOffline(r) \/ Publish(r)
  \/ Statement(r) \/ Refuse(r) \/ Finish(r)

Faulty == \/ \E r \in Requests : RedisError(r) \/ DbError(r) \/ SaveFails(r)
          \/ \E p \in Replicas : Crash(p)

Next == \/ \E r \in Requests : Begin(r) \/ Handle(r) \/ SaveReturns(r)
        \/ Faulty

Spec == Init /\ [][Next]_vars

\* The event loop runs every promise whose call was answered, and each driver
\* answers or times out: a request that can go on does.
Fairness == \A r \in Requests : WF_vars(Handle(r)) /\ WF_vars(SaveReturns(r))
FairSpec == Spec /\ Fairness

-----------------------------------------------------------------------------
(* Safety, whatever the clients, the interleaving and the faults. *)

\* An unread confession is one its sender has: the crush's row never exists
\* without the sender's filled row of the same key (saveConfessionToCassandra).
UnreadHasSent == \A k \in unread : sent[k].full

\* The crush never has a chat the sender does not have (createChat).
CrushChatHasSenderChat == chatC \subseteq chatS

\* A sent row past 'Sent' is backed by a read row of the same confession: the
\* sender is never told of a reading or a verdict the crush's tables have no
\* trace of, whatever crash or error cuts the statements short.
AdvancedSentHasReadRow ==
  \A c \in Confessions, t \in Times :
    sent[<<c, t>>].status \in {"READ"} \cup Verdicts =>
      \E rt \in Times : read[<<c, rt>>] # "none"

\* A stored verdict was announced: in either table it stems from a request
\* whose notification to the sender was at least attempted (sendMessageToUser
\* notifies before the statements).
Announced(c, v) == \E r \in Requests :
  /\ op[r] \in {"accept", "reject"} /\ Decided(op[r]) = v
  /\ arg[r].c = c
  /\ note[r] # "none"

VerdictAnnounced ==
  \A c \in Confessions, t \in Times, v \in Verdicts :
    sent[<<c, t>>].status = v \/ read[<<c, t>>] = v => Announced(c, v)

\* A chat is opened only for a confession whose read row the crush still has,
\* and only by a request to accept.
ChatIsOfReadConfession ==
  \A r \in chatS : op[r] = "accept" /\ read[ReadKey(r)] # "none"

\* What a request writes, all of it, each row as it wrote it unless another
\* request has written or deleted that row since.
StatusBy(o) == CASE o = "send" -> "Sent"
                 [] o = "read" -> "READ"
                 [] OTHER      -> Decided(o)

SentIs(r) ==
  /\ sent[OwnSentKey(r)].status # "none"
  /\ op[r] = "send" => sent[OwnSentKey(r)].full
  /\ sent[OwnSentKey(r)].status = StatusBy(op[r]) \/ <<r, "sent">> \in over
UnreadIs(r) ==
  op[r] = "send" => StoredKey(r) \in unread \/ <<r, "unread">> \in over
ReadIs(r) ==
  op[r] # "send" =>
    /\ read[ReadKey(r)] # "none"
    /\ read[ReadKey(r)] = StatusBy(op[r]) \/ <<r, "read">> \in over

Stored(r) ==
  /\ SentIs(r) /\ UnreadIs(r) /\ ReadIs(r)
  /\ op[r] = "accept" => r \in chatS \cap chatC

\* An acknowledgement given to an awaiting client is durable: every row its
\* request writes is there, with the status it wrote; the crush's unread row
\* goes, and a status changes, only by a later statement of another request.
AcknowledgedIsStored ==
  \A r \in Requests : reply[r] = "ok" /\ ~Floating(r) => Stored(r)

\* A verdict is only ever written over a row that was read: UPDATE, which
\* would create a row, never creates a verdict of a confession nobody read.
VerdictOverwritesReading ==
  [][\A k \in Keys : read'[k] \in Verdicts => read[k] # "none"]_read

\* A read request of the confession was cut between its DELETE and its INSERT, or
\* is there, or failed.
ReadCut(k) == \E r \in Requests :
  op[r] = "read" /\ SentKey(r) = k /\ pc[r] \in {"insertRead", "failed", "killed"}

Readable(p) ==
  \/ StoredKey(p) \in unread
  \/ \E rt \in Times : read[<<arg[p].c, rt>>] # "none"
  \/ ReadCut(StoredKey(p))

\* A confession that was stored is in one of the crush's tables, or a read of it
\* stopped: between readConfession's DELETE and its INSERT is the one place where
\* the crush can lose it.
StoredIsReadable == \A p \in Requests :
  op[p] = "send" /\ pc[p] \in {"answer", "done"} => Readable(p)

-----------------------------------------------------------------------------
(* Liveness, under FairSpec. *)

\* Every request ends: answered, failed, or killed with its process; and every
\* save is settled.
RequestsEnd == \A r \in Requests : /\ Live(r) ~> ~Live(r)
                                   /\ note[r] = "saving" ~> note[r] # "saving"

\* An accept that passed the status check opens the chat on both sides unless
\* an error or the end of its process stops it.
AcceptOpensChat == \A r \in Requests :
  op[r] = "accept" /\ pc[r] = "updateRead"
    ~> r \in chatS \cap chatC \/ pc[r] \in {"failed", "killed"}

-----------------------------------------------------------------------------
(* With clients that wait for each request to be over (Pacing = "serial"),   *)
(* whole-second dates and no faults, the three tables agree between requests. *)

Quiet(c) == \A q \in Requests :
  op[q] # "none" /\ arg[q].c = c => ~Live(q) /\ note[q] # "saving"

\* Between requests an inserted confession is in exactly the crush's table that
\* its status in the sender's table says, with that status.
TablesAgree ==
  \A c \in Confessions, t \in Times :
    Quiet(c) /\ sent[<<c, t>>].full =>
      IF sent[<<c, t>>].status = "Sent"
      THEN <<c, t>> \in unread /\ \A rt \in Times : read[<<c, rt>>] = "none"
      ELSE /\ <<c, t>> \notin unread
           /\ \E rt \in Times : read[<<c, rt>>] = sent[<<c, t>>].status

\* The handlers, run one after the other, are the atomic lifecycle: the sender's
\* row moves as ConfessionLifecycle allows and each acceptance opens one chat.
StatusOf(c) ==
  LET filled == {t \in Times : sent[<<c, t>>].full}
  IN  IF filled = {} THEN "none" ELSE sent[<<c, CHOOSE t \in filled : TRUE>>].status

Lifecycle == INSTANCE ConfessionLifecycle WITH
  status <- [c \in Confessions |-> StatusOf(c)],
  owed   <- [c \in Confessions |->
               \E r \in Requests : pc[r] = "insertChatS" /\ arg[r].c = c],
  chats  <- [c \in Confessions |-> Cardinality({r \in chatS : arg[r].c = c})]

ImplementsLifecycle == Lifecycle!LifecycleSpec

-----------------------------------------------------------------------------
(* What the repository says and the code does not keep; each is checked to   *)
(* be violated, under the circumstances its run names.                       *)

\* "If a confession is accepted, a chat will be initiated".
AcceptedHasChat ==
  \A c \in Confessions, t \in Times :
    Quiet(c) /\ sent[<<c, t>>].status = "ACCEPTED" =>
      \E r \in chatS \cap chatC : arg[r].c = c

\* "either reject or accept": a confession with a chat has no request to
\* reject it that was carried out.
OneVerdict ==
  \A q, r \in Requests :
    ~ (/\ op[q] = "reject" /\ reply[q] = "ok" /\ ~Floating(q)
       /\ r \in chatC /\ arg[r].c = arg[q].c)
=============================================================================
