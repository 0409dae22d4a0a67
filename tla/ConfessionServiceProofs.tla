----------------------- MODULE ConfessionServiceProofs -----------------------
(***************************************************************************)
(* The safety of ConfessionService, for every value of its constants: any  *)
(* number of confessions, instants, requests and replicas, any client      *)
(* pacing, any number of faults.                                           *)
(*                                                                         *)
(* The argument has two halves.  No step takes anything away: a filled     *)
(* row, a read row, a chat row, an announcement and a request's argument   *)
(* stay (Grows).  And the stage a request is at says what it has written   *)
(* (StageInv), so each statement finds what its invariant needs.           *)
(***************************************************************************)
EXTENDS ConfessionService, TLAPS

Chosen == {"send", "read", "accept", "reject"}

\* The stages of each handler.
ReadStages   == {"deleteUnread", "insertRead", "updateSentRead"}
DecideStages == {"selectSent", "selectRead", "updateRead", "updateSent"}
ChatStages   == {"insertChatS", "insertChatC"}

\* A request that is not made yet has no state; one that is has an argument.
IdleInv ==
  \A r \in Requests :
    /\ op[r] # "none" => arg[r] \in Args
    /\ op[r] = "none" => pc[r] = "idle" /\ note[r] = "none"

\* A request runs the statements of its own handler, after its notification.
HandlerInv ==
  \A r \in Requests :
    /\ pc[r] \in {"insertSent", "insertUnread"} => op[r] = "send"
    /\ pc[r] \in ReadStages => op[r] = "read"
    /\ pc[r] \in DecideStages => op[r] \in {"accept", "reject"}
    /\ pc[r] \in ChatStages => op[r] = "accept"
    /\ pc[r] \in {"check", "publish"} => note[r] = "none"
    /\ pc[r] \in DbStages \cup {"answer", "done"} => note[r] # "none"

\* What a request at a stage has written.
StageInv ==
  \A r \in Requests :
    /\ pc[r] \in PastSent => SentIs(r)
    /\ pc[r] \in PastRead => ReadIs(r)
    /\ pc[r] \in {"answer", "done"} => Stored(r)
    /\ pc[r] = "updateRead" => read[ReadKey(r)] # "none"
    /\ pc[r] = "insertChatC" => r \in chatS
    /\ reply[r] = "ok" /\ ~Floating(r) => pc[r] = "done"

IInv == /\ TypeOK /\ IdleInv /\ HandlerInv /\ StageInv
        /\ UnreadHasSent /\ CrushChatHasSenderChat /\ AdvancedSentHasReadRow
        /\ VerdictAnnounced /\ ChatIsOfReadConfession

-----------------------------------------------------------------------------
(* The shape of the steps that write no table. *)

\* A request that starts, whichever it is.
LEMMA BeginStarts ==
  ASSUME NEW r \in Requests, Begin(r)
  PROVE  \E o \in Chosen, a \in Args : Start(r, o, a)
BY DEF Begin, StartSend, StartRead, StartAccept, StartReject, Chosen

\* All that an exception or a crash does: live requests end, saves in flight
\* are settled, clients that still wait get an error.
Ends ==
  /\ UNCHANGED <<op, arg, host, sent, unread, read, chatS, chatC, over>>
  /\ pc'    \in [Requests -> Stages]
  /\ note'  \in [Requests -> {"none", "delivered", "lost",
                              "saving", "saved", "dropped"}]
  /\ reply' \in [Requests -> {"none", "ok", "error"}]
  /\ \A q \in Requests :
       /\ pc'[q] = pc[q] \/ (Live(q) /\ pc'[q] \in {"failed", "killed"})
       /\ \/ note'[q] = note[q]
          \/ note[q] = "saving" /\ note'[q] \in {"saved", "dropped"}
       /\ reply'[q] = reply[q] \/ reply'[q] = "error"

\* Kill ends requests and settles saves.
LEMMA KillEnds ==
  ASSUME TypeOK, NEW p, Kill(p), UNCHANGED <<client, reply, tables>>
  PROVE  Ends
<1>1. pc' \in [Requests -> Stages]
  BY DEF TypeOK, Kill, Stages, Final
<1>2. \A q \in Requests : pc'[q] = pc[q] \/ (Live(q) /\ pc'[q] = "killed")
  BY DEF Kill
<1>3. /\ note' \in [Requests -> {"none", "delivered", "lost",
                                 "saving", "saved", "dropped"}]
      /\ \A q \in Requests : \/ note'[q] = note[q]
                             \/ note[q] = "saving" /\ note'[q] \in {"saved", "dropped"}
  BY DEF TypeOK, Kill
<1>4. QED
  BY <1>1, <1>2, <1>3 DEF Ends, TypeOK, client, tables

\* So does an exception, awaited or not.
LEMMA ThrowEnds ==
  ASSUME TypeOK, NEW r \in Requests, Live(r), Throw(r)
  PROVE  Ends
<1>1. CASE Floating(r)
  BY <1>1, KillEnds DEF Throw
<1>2. CASE ~Floating(r)
  BY <1>2 DEF Throw, Ends, TypeOK, Stages, Final, client, tables
<1>3. QED
  BY <1>1, <1>2

\* Every refusal and every fault is of that shape.
LEMMA RefusalsAndFaultsEnd ==
  ASSUME TypeOK, (\E r \in Requests : Refuse(r)) \/ Faulty
  PROVE  Ends
<1>1. ASSUME NEW r \in Requests, Refuse(r) PROVE Ends
  <2>1. Live(r)
    BY <1>1 DEF Refuse, Refused, Live, Final
  <2>2. QED
    BY <1>1, <2>1, ThrowEnds DEF Refuse
<1>2. ASSUME NEW r \in Requests, RedisError(r) \/ DbError(r) PROVE Ends
  <2>1. Live(r)
    BY <1>2 DEF RedisError, DbError, DbStages, Live, Final
  <2>2. QED
    BY <1>2, <2>1, ThrowEnds DEF RedisError, DbError
<1>3. ASSUME NEW r \in Requests, SaveFails(r) PROVE Ends
  BY <1>3, KillEnds DEF SaveFails
<1>4. ASSUME NEW p \in Replicas, Crash(p) PROVE Ends
  BY <1>4, KillEnds DEF Crash
<1>5. QED
  BY <1>1, <1>2, <1>3, <1>4 DEF Faulty

-----------------------------------------------------------------------------
(* Types. *)

\* The keys a request with an argument uses.
LEMMA KeysOfArgs ==
  ASSUME NEW r \in Requests, arg[r] \in Args
  PROVE  /\ StoredKey(r) \in Keys /\ SentKey(r) \in Keys /\ ReadKey(r) \in Keys
         /\ arg[r].c \in Confessions /\ arg[r].rt \in Times
BY SecondAssumption DEF Args, StoredKey, SentKey, ReadKey, Keys

\* A request past its start has an argument.
LEMMA StartedHasArg ==
  ASSUME IdleInv, NEW r \in Requests, pc[r] # "idle"
  PROVE  op[r] # "none" /\ arg[r] \in Args
BY DEF IdleInv

LEMMA TypeInit == Init => TypeOK
BY ParametersAssumption DEF Init, TypeOK, Stages, Final, Absent, SentRow

\* The history only grows, and stays in its type.
LEMMA OverGrows ==
  ASSUME TypeOK, NEW k, WritesSent(k) \/ WritesRead(k) \/ DeletesUnread(k)
  PROVE  over \subseteq over' /\ over' \subseteq Requests \X {"sent", "unread", "read"}
BY DEF TypeOK, WritesSent, WritesRead, DeletesUnread

\* Types are preserved, given that a request at a statement has an argument.
LEMMA TypeStep ==
  ASSUME TypeOK, IdleInv, [Next]_vars
  PROVE  TypeOK'
<1> USE DEF TypeOK
<1>1. ASSUME NEW r \in Requests, Begin(r) PROVE TypeOK'
  BY <1>1, BeginStarts DEF Start, Chosen, Stages, tables
<1>2. ASSUME NEW r \in Requests, Statement(r) PROVE TypeOK'
  <2> USE DEF Go, client, tables, Stages, DbStages
  <2>0. arg[r] \in Args
    BY <1>2, StartedHasArg DEF Statement, InsertSent, InsertUnread, DeleteUnread,
       InsertRead, UpdateSentRead, SelectSent, SelectRead, UpdateRead,
       UpdateSent, InsertChatS, InsertChatC
  <2>1. StoredKey(r) \in Keys /\ SentKey(r) \in Keys /\ ReadKey(r) \in Keys
    BY <2>0, KeysOfArgs
  <2>2. \A k \in Keys : sent[k] \in SentRow
    OBVIOUS
  <2>a. over' \subseteq Requests \X {"sent", "unread", "read"}
    BY <1>2, OverGrows DEF Statement, InsertSent, InsertUnread, DeleteUnread,
       InsertRead, UpdateSentRead, SelectSent, SelectRead, UpdateRead, UpdateSent,
       InsertChatS, InsertChatC
  <2>3. CASE InsertSent(r)
    BY <2>1, <2>a, <2>3 DEF InsertSent, SentRow
  <2>4. CASE InsertUnread(r)
    BY <2>1, <2>4 DEF InsertUnread
  <2>5. CASE DeleteUnread(r)
    BY <2>a, <2>5 DEF DeleteUnread
  <2>6. CASE InsertRead(r)
    BY <2>1, <2>a, <2>6 DEF InsertRead
  <2>7. CASE UpdateSentRead(r)
    BY <2>1, <2>2, <2>a, <2>7 DEF UpdateSentRead, SentRow
  <2>8. CASE SelectSent(r)
    BY <2>8 DEF SelectSent
  <2>9. CASE SelectRead(r)
    BY <2>9 DEF SelectRead
  <2>10. CASE UpdateRead(r)
    BY <2>1, <2>a, <2>10 DEF UpdateRead, Decided, Verdicts
  <2>11. CASE UpdateSent(r)
    BY <2>1, <2>2, <2>a, <2>11 DEF UpdateSent, AfterVerdict, Decided, SentRow, Verdicts
  <2>12. CASE InsertChatS(r)
    BY <2>12 DEF InsertChatS
  <2>13. CASE InsertChatC(r)
    BY <2>13 DEF InsertChatC
  <2>14. QED
    BY <1>2, <2>3, <2>4, <2>5, <2>6, <2>7, <2>8, <2>9, <2>10, <2>11, <2>12,
       <2>13 DEF Statement
<1>3. ASSUME NEW r \in Requests,
             CheckOnline(r) \/ CheckOffline(r) \/ Publish(r) \/ Finish(r) \/ SaveReturns(r)
      PROVE  TypeOK'
  BY <1>3 DEF CheckOnline, CheckOffline, Publish, Finish, SaveReturns,
     FirstStatement, client, tables, Stages, DbStages, Final
<1>4. CASE (\E r \in Requests : Refuse(r)) \/ Faulty
  <2>1. Ends
    BY <1>4, RefusalsAndFaultsEnd
  <2>2. faults' \in 0..MaxFaults
    BY <1>4, ParametersAssumption
    DEF Refuse, Faulty, RedisError, DbError, SaveFails, Crash, Fault
  <2>3. QED
    BY <2>1, <2>2 DEF Ends
<1>5. CASE UNCHANGED vars
  BY <1>5 DEF vars
<1>6. QED
  BY <1>1, <1>2, <1>3, <1>4, <1>5 DEF Next, Handle

\* So is what is known of requests that are not made yet.
LEMMA IdleStep ==
  ASSUME TypeOK, IdleInv, [Next]_vars
  PROVE  IdleInv'
<1> USE DEF TypeOK, IdleInv
<1>1. ASSUME NEW r \in Requests, Begin(r) PROVE IdleInv'
  BY <1>1, BeginStarts DEF Start, Chosen
<1>2. ASSUME NEW r \in Requests, Statement(r) PROVE IdleInv'
  BY <1>2 DEF Statement, InsertSent, InsertUnread, DeleteUnread, InsertRead,
     UpdateSentRead, SelectSent, SelectRead, UpdateRead, UpdateSent,
     InsertChatS, InsertChatC, Go, client, AfterVerdict
<1>3. ASSUME NEW r \in Requests,
             CheckOnline(r) \/ CheckOffline(r) \/ Publish(r) \/ Finish(r) \/ SaveReturns(r)
      PROVE  IdleInv'
  BY <1>3 DEF CheckOnline, CheckOffline, Publish, Finish, SaveReturns, client
<1>4. CASE (\E r \in Requests : Refuse(r)) \/ Faulty
  BY <1>4, RefusalsAndFaultsEnd DEF Ends, Live
<1>5. CASE UNCHANGED vars
  BY <1>5 DEF vars
<1>6. QED
  BY <1>1, <1>2, <1>3, <1>4, <1>5 DEF Next, Handle

\* Type correctness: every variable stays in its type.
THEOREM TypeCorrect == Spec => []TypeOK
<1>1. Init => TypeOK /\ IdleInv
  BY TypeInit DEF Init, IdleInv
<1>2. TypeOK /\ IdleInv /\ [Next]_vars => (TypeOK /\ IdleInv)'
  BY TypeStep, IdleStep
<1>3. QED
  BY <1>1, <1>2, PTL DEF Spec

-----------------------------------------------------------------------------
(* Nothing is taken away: the half of the argument about other requests. *)

Grows ==
  /\ \A q \in Requests :
       /\ op[q] # "none" => op'[q] = op[q] /\ arg'[q] = arg[q]
       /\ note[q] # "none" => note'[q] # "none"
       /\ pc[q] = "done" => pc'[q] = "done"
       /\ Floating(q) => Floating(q)'
  /\ \A k \in Keys :
       /\ sent[k].full => sent'[k].full
       /\ sent[k].status # "none" => sent'[k].status # "none"
       /\ read[k] # "none" => read'[k] # "none"
  /\ chatS \subseteq chatS' /\ chatC \subseteq chatC'

LEMMA StepGrows ==
  ASSUME TypeOK, IdleInv, HandlerInv, [Next]_vars
  PROVE  Grows
<1> USE DEF TypeOK, Grows, Floating
<1>1. ASSUME NEW r \in Requests, Begin(r) PROVE Grows
  BY <1>1, BeginStarts DEF Start, Chosen, IdleInv, tables
<1>2. ASSUME NEW r \in Requests, Statement(r) PROVE Grows
  <2>1. /\ UNCHANGED <<op, arg, note>>
        /\ \A q \in Requests : pc[q] = "done" => pc'[q] = "done"
        /\ UNCHANGED read \/ InsertRead(r) \/ UpdateRead(r)
        /\ UNCHANGED sent \/ InsertSent(r) \/ UpdateSentRead(r) \/ UpdateSent(r)
        /\ chatS \subseteq chatS' /\ chatC \subseteq chatC'
    BY <1>2 DEF Statement, InsertSent, InsertUnread, DeleteUnread, InsertRead,
       UpdateSentRead, SelectSent, SelectRead, UpdateRead, UpdateSent,
       InsertChatS, InsertChatC, Go, client, tables, AfterVerdict
  <2>2. \A k \in Keys : read[k] # "none" => read'[k] # "none"
    BY <2>1 DEF InsertRead, UpdateRead, Decided
  <2>3. \A k \in Keys : sent[k] \in SentRow
    OBVIOUS
  <2>4. \A k \in Keys : /\ sent[k].full => sent'[k].full
                        /\ sent[k].status # "none" => sent'[k].status # "none"
    BY <2>1, <2>3 DEF InsertSent, UpdateSentRead, UpdateSent, Decided, SentRow
  <2>5. QED
    BY <2>1, <2>2, <2>4
<1>3. ASSUME NEW r \in Requests,
             CheckOnline(r) \/ CheckOffline(r) \/ Publish(r) \/ Finish(r) \/ SaveReturns(r)
      PROVE  Grows
  BY <1>3 DEF CheckOnline, CheckOffline, Publish, Finish, SaveReturns, client,
     tables, HandlerInv
<1>4. CASE (\E r \in Requests : Refuse(r)) \/ Faulty
  BY <1>4, RefusalsAndFaultsEnd DEF Ends, Live, Final
<1>5. CASE UNCHANGED vars
  BY <1>5 DEF vars
<1>6. QED
  BY <1>1, <1>2, <1>3, <1>4, <1>5 DEF Next, Handle

\* A request keeps to its handler.
LEMMA HandlerStep ==
  ASSUME TypeOK, IdleInv, HandlerInv, [Next]_vars
  PROVE  HandlerInv'
<1> USE DEF TypeOK, HandlerInv, ReadStages, DecideStages, ChatStages, DbStages
<1>1. ASSUME NEW r \in Requests, Begin(r) PROVE HandlerInv'
  BY <1>1, BeginStarts DEF Start, Chosen, IdleInv
<1>2. ASSUME NEW r \in Requests, Statement(r) PROVE HandlerInv'
  BY <1>2 DEF Statement, InsertSent, InsertUnread, DeleteUnread, InsertRead,
     UpdateSentRead, SelectSent, SelectRead, UpdateRead, UpdateSent,
     InsertChatS, InsertChatC, Go, client, AfterVerdict
<1>3. ASSUME NEW r \in Requests,
             CheckOnline(r) \/ CheckOffline(r) \/ Publish(r) \/ Finish(r) \/ SaveReturns(r)
      PROVE  HandlerInv'
  BY <1>3 DEF CheckOnline, CheckOffline, Publish, Finish, SaveReturns, client,
     FirstStatement, IdleInv
<1>4. CASE (\E r \in Requests : Refuse(r)) \/ Faulty
  BY <1>4, RefusalsAndFaultsEnd DEF Ends, Live
<1>5. CASE UNCHANGED vars
  BY <1>5 DEF vars
<1>6. QED
  BY <1>1, <1>2, <1>3, <1>4, <1>5 DEF Next, Handle

-----------------------------------------------------------------------------
(* What a stage has written stays written, and each statement adds to it. *)

\* The keys of a request do not move once it has an argument.
LEMMA KeysStay ==
  ASSUME IdleInv, Grows, NEW r \in Requests, op[r] # "none"
  PROVE  /\ op'[r] = op[r] /\ arg'[r] = arg[r] /\ arg[r] \in Args
         /\ StoredKey(r)' = StoredKey(r) /\ SentKey(r)' = SentKey(r)
         /\ ReadKey(r)' = ReadKey(r)
         /\ StoredKey(r) \in Keys /\ SentKey(r) \in Keys /\ ReadKey(r) \in Keys
<1>1. op'[r] = op[r] /\ arg'[r] = arg[r] /\ arg[r] \in Args
  BY DEF Grows, IdleInv
<1>2. QED
  BY <1>1, KeysOfArgs DEF StoredKey, SentKey, ReadKey

\* What a step does to the tables: nothing, or one statement of one request.
LEMMA TableSteps ==
  ASSUME TypeOK, [Next]_vars
  PROVE  UNCHANGED tables \/ \E r \in Requests : Statement(r)
<1>1. ASSUME NEW r \in Requests, Begin(r) PROVE UNCHANGED tables
  BY <1>1, BeginStarts DEF Start, tables
<1>2. ASSUME NEW r \in Requests,
             CheckOnline(r) \/ CheckOffline(r) \/ Publish(r) \/ Finish(r) \/ SaveReturns(r)
      PROVE  UNCHANGED tables
  BY <1>2 DEF CheckOnline, CheckOffline, Publish, Finish, SaveReturns
<1>3. CASE (\E r \in Requests : Refuse(r)) \/ Faulty
  BY <1>3, RefusalsAndFaultsEnd DEF Ends, tables
<1>4. CASE UNCHANGED vars
  BY <1>4 DEF vars, tables
<1>5. QED
  BY <1>1, <1>2, <1>3, <1>4 DEF Next, Handle

\* A statement is of a request with an argument, at the stage of that name.
LEMMA StatementFacts ==
  ASSUME IdleInv, NEW r \in Requests, Statement(r)
  PROVE  /\ op[r] # "none" /\ arg[r] \in Args
         /\ StoredKey(r) \in Keys /\ SentKey(r) \in Keys /\ ReadKey(r) \in Keys
         /\ arg[r].c \in Confessions /\ arg[r].rt \in Times
<1>1. pc[r] # "idle"
  BY DEF Statement, InsertSent, InsertUnread, DeleteUnread, InsertRead,
     UpdateSentRead, SelectSent, SelectRead, UpdateRead, UpdateSent,
     InsertChatS, InsertChatC, Go
<1>2. QED
  BY <1>1, StartedHasArg, KeysOfArgs

\* A row a request has written is as it wrote it, or is in the history.
LEMMA OwnStays ==
  ASSUME TypeOK, IdleInv, HandlerInv, [Next]_vars, NEW q \in Requests, op[q] # "none"
  PROVE  /\ pc[q] \in PastSent /\ SentIs(q) => SentIs(q)'
         /\ pc[q] \in PastRead /\ ReadIs(q) => ReadIs(q)'
         /\ pc[q] \in {"answer", "done"} /\ UnreadIs(q) => UnreadIs(q)'
<1> USE DEF TypeOK
<1>0. Grows
  BY StepGrows
<1>1. /\ op'[q] = op[q] /\ OwnSentKey(q)' = OwnSentKey(q) /\ OwnSentKey(q) \in Keys
      /\ StoredKey(q)' = StoredKey(q) /\ ReadKey(q)' = ReadKey(q)
      /\ StoredKey(q) \in Keys /\ ReadKey(q) \in Keys
      /\ StatusBy(op[q])' = StatusBy(op[q])
  BY <1>0, KeysStay DEF OwnSentKey, StatusBy, Decided
<1>2. over \subseteq over'
  <2>1. ASSUME NEW r \in Requests, Statement(r)
        PROVE  over' = over \/ \E k \in Keys : WritesSent(k) \/ WritesRead(k) \/ DeletesUnread(k)
    BY <2>1, StatementFacts DEF Statement, InsertSent, InsertUnread, DeleteUnread,
       InsertRead, UpdateSentRead, SelectSent, SelectRead, UpdateRead, UpdateSent,
       InsertChatS, InsertChatC, tables
  <2>2. QED
    BY <2>1, TableSteps, OverGrows DEF tables
<1>3. ASSUME pc[q] \in PastSent, SentIs(q) PROVE SentIs(q)'
  <2>1. \/ sent' = sent
        \/ \E k \in Keys : WritesSent(k) /\ \A j \in Keys : j # k => sent'[j] = sent[j]
    <3>1. ASSUME NEW r \in Requests, Statement(r)
          PROVE  \/ sent' = sent
                 \/ \E k \in Keys : WritesSent(k) /\ \A j \in Keys : j # k => sent'[j] = sent[j]
      BY <3>1, StatementFacts DEF Statement, InsertSent, InsertUnread, DeleteUnread,
         InsertRead, UpdateSentRead, SelectSent, SelectRead, UpdateRead, UpdateSent,
         InsertChatS, InsertChatC, tables
    <3>2. QED
      BY <3>1, TableSteps DEF tables
  <2>2. \/ sent'[OwnSentKey(q)] = sent[OwnSentKey(q)]
        \/ <<q, "sent">> \in over'
    BY <1>1, <1>3, <2>1 DEF WritesSent
  <2>3. QED
    BY <1>0, <1>1, <1>2, <1>3, <2>2 DEF SentIs, Grows
<1>4. ASSUME pc[q] \in PastRead, ReadIs(q) PROVE ReadIs(q)'
  <2>1. \/ read' = read
        \/ \E k \in Keys : WritesRead(k) /\ \A j \in Keys : j # k => read'[j] = read[j]
    <3>1. ASSUME NEW r \in Requests, Statement(r)
          PROVE  \/ read' = read
                 \/ \E k \in Keys : WritesRead(k) /\ \A j \in Keys : j # k => read'[j] = read[j]
      BY <3>1, StatementFacts DEF Statement, InsertSent, InsertUnread, DeleteUnread,
         InsertRead, UpdateSentRead, SelectSent, SelectRead, UpdateRead, UpdateSent,
         InsertChatS, InsertChatC, tables
    <3>2. QED
      BY <3>1, TableSteps DEF tables
  <2>2. CASE op[q] = "send"
    BY <1>1, <2>2 DEF ReadIs
  <2>3. CASE op[q] # "send"
    <3>1. \/ read'[ReadKey(q)] = read[ReadKey(q)]
          \/ <<q, "read">> \in over'
      BY <1>1, <1>4, <2>1, <2>3 DEF WritesRead
    <3>2. QED
      BY <1>0, <1>1, <1>2, <1>4, <2>3, <3>1 DEF ReadIs, Grows
  <2>4. QED
    BY <2>2, <2>3
<1>5. ASSUME pc[q] \in {"answer", "done"}, UnreadIs(q) PROVE UnreadIs(q)'
  <2>1. \/ unread \subseteq unread'
        \/ \E k \in Keys : DeletesUnread(k) /\ unread \ {k} \subseteq unread'
    <3>1. ASSUME NEW r \in Requests, Statement(r)
          PROVE  \/ unread \subseteq unread'
                 \/ \E k \in Keys : DeletesUnread(k) /\ unread \ {k} \subseteq unread'
      BY <3>1, StatementFacts DEF Statement, InsertSent, InsertUnread, DeleteUnread,
         InsertRead, UpdateSentRead, SelectSent, SelectRead, UpdateRead, UpdateSent,
         InsertChatS, InsertChatC, tables
    <3>2. QED
      BY <3>1, TableSteps DEF tables
  <2>2. CASE op[q] # "send"
    BY <1>1, <2>2 DEF UnreadIs
  <2>3. CASE op[q] = "send"
    <3>1. StoredKey(q) \in unread => StoredKey(q) \in unread' \/ <<q, "unread">> \in over'
      BY <1>1, <1>5, <2>1, <2>3 DEF DeletesUnread
    <3>2. QED
      BY <1>1, <1>2, <1>5, <2>3, <3>1 DEF UnreadIs
  <2>4. QED
    BY <2>2, <2>3
<1>6. QED
  BY <1>3, <1>4, <1>5

\* The rows of a request that has written them stay.
LEMMA StoredStays ==
  ASSUME TypeOK, IdleInv, HandlerInv, [Next]_vars,
         NEW r \in Requests, op[r] # "none", pc[r] \in {"answer", "done"}, Stored(r)
  PROVE  Stored(r)'
<1>1. op'[r] = op[r]
  BY StepGrows, KeysStay
<1>2. QED
  BY <1>1, OwnStays, StepGrows DEF Stored, Grows, PastSent, PastRead

\* A request that does not move keeps what its stage says.
StageOf(r) ==
  /\ pc[r] \in PastSent => SentIs(r)
  /\ pc[r] \in PastRead => ReadIs(r)
  /\ pc[r] \in {"answer", "done"} => Stored(r)
  /\ pc[r] = "updateRead" => read[ReadKey(r)] # "none"
  /\ pc[r] = "insertChatC" => r \in chatS
  /\ reply[r] = "ok" /\ ~Floating(r) => pc[r] = "done"

LEMMA StageStays ==
  ASSUME TypeOK, IdleInv, HandlerInv, [Next]_vars, NEW r \in Requests, StageOf(r),
         pc'[r] = pc[r], reply'[r] = reply[r]
  PROVE  StageOf(r)'
<1>0. Grows
  BY StepGrows
<1>1. CASE op[r] = "none"
  BY <1>0, <1>1 DEF StageOf, IdleInv, Grows, PastSent, PastRead
<1>2. CASE op[r] # "none"
  <2>1. pc[r] = "updateRead" => read'[ReadKey(r)'] # "none"
    BY <1>0, <1>2, KeysStay DEF StageOf, Grows
  <2>2. reply[r] = "ok" /\ ~Floating(r)' => pc[r] = "done"
    BY <1>0 DEF StageOf, Grows
  <2>3. QED
    BY <1>0, <1>2, <2>1, <2>2, OwnStays, StoredStays DEF StageOf, Grows
<1>3. QED
  BY <1>1, <1>2

LEMMA StageStep ==
  ASSUME TypeOK, IdleInv, HandlerInv, StageInv, [Next]_vars
  PROVE  StageInv'
<1>0. Grows
  BY StepGrows
<1>a. \A q \in Requests : StageOf(q)
  BY DEF StageInv, StageOf
<1> SUFFICES \A q \in Requests : StageOf(q)'
  BY DEF StageInv, StageOf
<1>1. ASSUME NEW r \in Requests, Begin(r), NEW q \in Requests PROVE StageOf(q)'
  <2>1. PICK o \in Chosen, a \in Args : Start(r, o, a)
    BY <1>1, BeginStarts
  <2>2. CASE q = r
    BY <1>a, <2>1, <2>2 DEF Start, StageOf, PastSent, PastRead, IdleInv, TypeOK, Floating
  <2>3. CASE q # r
    BY <1>0, <1>a, <2>1, <2>3, StageStays DEF Start, TypeOK
  <2>4. QED
    BY <2>2, <2>3
<1>2. ASSUME NEW r \in Requests, Statement(r), NEW q \in Requests PROVE StageOf(q)'
  <2> USE DEF TypeOK, Go, client, tables
  <2>0. pc[r] # "idle" /\ reply' = reply /\ note' = note /\ op' = op /\ arg' = arg
    BY <1>2 DEF Statement, InsertSent, InsertUnread, DeleteUnread, InsertRead,
       UpdateSentRead, SelectSent, SelectRead, UpdateRead, UpdateSent,
       InsertChatS, InsertChatC
  <2>1. CASE q # r
    <3>1. pc'[q] = pc[q]
      BY <1>2, <2>1 DEF Statement, InsertSent, InsertUnread, DeleteUnread,
         InsertRead, UpdateSentRead, SelectSent, SelectRead, UpdateRead,
         UpdateSent, InsertChatS, InsertChatC
    <3>2. QED
      BY <1>0, <1>a, <2>0, <3>1, StageStays
  <2>2. op[r] # "none" /\ arg[r] \in Args
    BY <2>0, StartedHasArg
  <2>3. /\ StoredKey(r)' = StoredKey(r) /\ SentKey(r)' = SentKey(r)
        /\ ReadKey(r)' = ReadKey(r)
        /\ StoredKey(r) \in Keys /\ SentKey(r) \in Keys /\ ReadKey(r) \in Keys
    BY <1>0, <2>2, KeysStay
  <2>4. CASE q = r
    <3> USE <2>0, <2>2, <2>3 DEF HandlerInv, ChatStages, DecideStages, ReadStages
    <3>0. StageOf(r)
      BY <1>a
    <3>a. /\ pc[r] \in PastSent => SentIs(r)'
          /\ pc[r] \in PastRead => ReadIs(r)'
      BY <3>0, OwnStays DEF StageOf
    <3>b. reply'[r] = "ok" /\ ~Floating(r)' => pc[r] = "done"
      BY <3>0 DEF StageOf, Floating
    <3>1. CASE InsertSent(r)
      <4>1. pc[r] = "insertSent" /\ pc'[r] = "insertUnread" /\ op[r] = "send"
        BY <3>1 DEF InsertSent
      <4>2. SentIs(r)'
        BY <3>1, <4>1 DEF InsertSent, SentIs, OwnSentKey, StatusBy
      <4>3. QED
        BY <2>4, <3>b, <4>1, <4>2 DEF StageOf, PastRead
    <3>2. CASE InsertUnread(r)
      <4>1. pc[r] = "insertUnread" /\ pc'[r] = "answer" /\ op[r] = "send"
        BY <3>2 DEF InsertUnread
      <4>2. UnreadIs(r)' /\ ReadIs(r)'
        BY <3>2, <4>1 DEF InsertUnread, UnreadIs, ReadIs
      <4>3. SentIs(r)'
        BY <3>a, <4>1 DEF PastSent
      <4>4. QED
        BY <2>4, <3>b, <4>1, <4>2, <4>3 DEF StageOf, Stored
    <3>3. CASE DeleteUnread(r)
      <4>1. pc[r] = "deleteUnread" /\ pc'[r] = "insertRead"
        BY <3>3 DEF DeleteUnread
      <4>2. QED
        BY <2>4, <3>b, <4>1 DEF StageOf, PastSent, PastRead
    <3>4. CASE InsertRead(r)
      <4>1. pc[r] = "insertRead" /\ pc'[r] = "updateSentRead" /\ op[r] = "read"
        BY <3>4 DEF InsertRead
      <4>2. ReadIs(r)'
        BY <3>4, <4>1 DEF InsertRead, ReadIs, StatusBy
      <4>3. QED
        BY <2>4, <3>b, <4>1, <4>2 DEF StageOf, PastSent
    <3>5. CASE UpdateSentRead(r)
      <4>1. pc[r] = "updateSentRead" /\ pc'[r] = "answer" /\ op[r] = "read"
        BY <3>5 DEF UpdateSentRead
      <4>2. SentIs(r)' /\ UnreadIs(r)'
        BY <3>5, <4>1 DEF UpdateSentRead, SentIs, UnreadIs, OwnSentKey, StatusBy, SentRow
      <4>3. ReadIs(r)'
        BY <3>a, <4>1 DEF PastRead
      <4>4. QED
        BY <2>4, <3>b, <4>1, <4>2, <4>3 DEF StageOf, Stored
    <3>6. CASE SelectSent(r)
      <4>1. pc[r] = "selectSent" /\ pc'[r] = "selectRead"
        BY <3>6 DEF SelectSent
      <4>2. QED
        BY <2>4, <3>b, <4>1 DEF StageOf, PastSent, PastRead
    <3>7. CASE SelectRead(r)
      <4>1. /\ pc[r] = "selectRead" /\ pc'[r] = "updateRead"
            /\ read'[ReadKey(r)'] # "none"
        BY <3>7 DEF SelectRead
      <4>2. QED
        BY <2>4, <3>b, <4>1 DEF StageOf, PastSent, PastRead
    <3>8. CASE UpdateRead(r)
      <4>1. /\ pc[r] = "updateRead" /\ pc'[r] = "updateSent"
            /\ op[r] \in {"accept", "reject"}
        BY <3>8 DEF UpdateRead
      <4>2. ReadIs(r)'
        BY <3>8, <4>1 DEF UpdateRead, ReadIs, StatusBy, Decided
      <4>3. QED
        BY <2>4, <3>b, <4>1, <4>2 DEF StageOf, PastSent
    <3>9. CASE UpdateSent(r)
      <4>1. /\ pc[r] = "updateSent" /\ op[r] \in {"accept", "reject"}
            /\ pc'[r] = AfterVerdict(op[r])
        BY <3>9 DEF UpdateSent
      <4>2. SentIs(r)' /\ UnreadIs(r)'
        BY <3>9, <4>1 DEF UpdateSent, SentIs, UnreadIs, OwnSentKey, StatusBy, Decided,
           SentRow
      <4>3. ReadIs(r)'
        BY <3>a, <4>1 DEF PastRead
      <4>4. QED
        BY <2>4, <3>b, <4>1, <4>2, <4>3 DEF StageOf, Stored, AfterVerdict
    <3>10. CASE InsertChatS(r)
      <4>1. /\ pc[r] = "insertChatS" /\ pc'[r] = "insertChatC" /\ r \in chatS'
        BY <3>10 DEF InsertChatS
      <4>2. QED
        BY <2>4, <3>a, <3>b, <4>1 DEF StageOf, PastSent, PastRead
    <3>11. CASE InsertChatC(r)
      <4>1. /\ pc[r] = "insertChatC" /\ pc'[r] = "answer" /\ op[r] = "accept"
            /\ r \in chatS' /\ r \in chatC'
        BY <3>0, <3>11 DEF InsertChatC, StageOf
      <4>2. SentIs(r)' /\ ReadIs(r)' /\ UnreadIs(r)'
        BY <3>a, <4>1 DEF PastSent, PastRead, UnreadIs
      <4>3. QED
        BY <2>4, <3>b, <4>1, <4>2 DEF StageOf, Stored
    <3>12. QED
      BY <1>2, <3>1, <3>2, <3>3, <3>4, <3>5, <3>6, <3>7, <3>8, <3>9, <3>10,
         <3>11 DEF Statement
  <2>5. QED
    BY <2>1, <2>4
<1>3. ASSUME NEW r \in Requests,
             CheckOnline(r) \/ CheckOffline(r) \/ Publish(r) \/ Finish(r) \/ SaveReturns(r),
             NEW q \in Requests
      PROVE  StageOf(q)'
  <2> USE DEF CheckOnline, CheckOffline, Publish, Finish, SaveReturns, client, TypeOK
  <2>1. CASE q # r \/ SaveReturns(r)
    BY <1>0, <1>3, <1>a, <2>1, StageStays
  <2>2. CASE q = r /\ ~SaveReturns(r)
    <3>1. StageOf(r) /\ op[r] # "none"
      BY <1>3, <1>a, <2>2 DEF IdleInv
    <3>2. CASE Finish(r)
      <4>1. pc[r] = "answer" /\ pc'[r] = "done"
        BY <3>2
      <4>2. Stored(r)' /\ SentIs(r)' /\ ReadIs(r)'
        BY <3>1, <4>1, StoredStays DEF StageOf, Stored
      <4>3. QED
        BY <2>2, <4>1, <4>2 DEF StageOf
    <3>3. CASE CheckOnline(r) \/ CheckOffline(r) \/ Publish(r)
      BY <2>2, <3>1, <3>3 DEF StageOf, PastSent, PastRead, FirstStatement, HandlerInv,
         Floating
    <3>4. QED
      BY <1>3, <2>2, <3>2, <3>3
  <2>3. QED
    BY <2>1, <2>2
<1>4. ASSUME (\E r \in Requests : Refuse(r)) \/ Faulty, NEW q \in Requests
      PROVE  StageOf(q)'
  <2>1. Ends
    BY <1>4, RefusalsAndFaultsEnd
  <2>2. CASE pc'[q] = pc[q] /\ reply'[q] = reply[q]
    BY <1>0, <1>a, <2>2, StageStays
  <2>3. CASE pc'[q] = pc[q] /\ reply'[q] = "error"
    <3>1. CASE op[q] = "none"
      BY <1>0, <2>3, <3>1 DEF StageOf, IdleInv, PastSent, PastRead
    <3>2. CASE op[q] # "none"
      <4>1. pc[q] = "updateRead" => read'[ReadKey(q)'] # "none"
        BY <1>0, <1>a, <3>2, KeysStay DEF StageOf, Grows
      <4>2. QED
        BY <1>0, <1>a, <2>3, <3>2, <4>1, OwnStays, StoredStays DEF StageOf, Grows
    <3>3. QED
      BY <3>1, <3>2
  <2>4. CASE Live(q) /\ pc'[q] \in {"failed", "killed"}
    BY <1>0, <1>a, <2>1, <2>4 DEF Ends, StageOf, PastSent, PastRead, Live, Final, Grows
  <2>5. QED
    BY <2>1, <2>2, <2>3, <2>4 DEF Ends
<1>5. ASSUME UNCHANGED vars, NEW q \in Requests PROVE StageOf(q)'
  BY <1>0, <1>5, <1>a, StageStays DEF vars
<1>6. QED
  BY <1>1, <1>2, <1>3, <1>4, <1>5 DEF Next, Handle

-----------------------------------------------------------------------------
(* The invariants.  Each names the statements that touch its tables. *)

LEMMA UnreadHasSentStep ==
  ASSUME TypeOK, IdleInv, HandlerInv, StageInv, UnreadHasSent, [Next]_vars
  PROVE  UnreadHasSent'
<1> USE DEF UnreadHasSent, TypeOK
<1>0. Grows
  BY StepGrows
<1>1. ASSUME NEW r \in Requests, InsertUnread(r) PROVE UnreadHasSent'
  <2>1. sent[StoredKey(r)].full
    BY <1>1 DEF InsertUnread, Go, StageInv, HandlerInv, PastSent, SentIs, OwnSentKey
  <2>2. QED
    BY <1>1, <2>1 DEF InsertUnread
<1>2. CASE unread' \subseteq unread
  BY <1>0, <1>2 DEF Grows
<1>3. QED
  BY <1>1, <1>2, TableSteps DEF tables, Statement, InsertSent, DeleteUnread,
     InsertRead, UpdateSentRead, SelectSent, SelectRead, UpdateRead, UpdateSent,
     InsertChatS, InsertChatC

LEMMA ChatsStep ==
  ASSUME TypeOK, IdleInv, HandlerInv, StageInv, CrushChatHasSenderChat,
         ChatIsOfReadConfession, [Next]_vars
  PROVE  CrushChatHasSenderChat' /\ ChatIsOfReadConfession'
<1> USE DEF TypeOK, CrushChatHasSenderChat, ChatIsOfReadConfession
<1>0. Grows
  BY StepGrows
<1>1. /\ chatC' = chatC \/ \E r \in Requests : InsertChatC(r)
      /\ chatS' = chatS \/ \E r \in Requests : InsertChatS(r)
  BY TableSteps DEF tables, Statement, InsertSent, InsertUnread, DeleteUnread,
     InsertRead, UpdateSentRead, SelectSent, SelectRead, UpdateRead, UpdateSent,
     InsertChatS, InsertChatC
<1>2. CrushChatHasSenderChat'
  BY <1>0, <1>1 DEF Grows, InsertChatC, Go, StageInv
<1>3. ASSUME NEW r \in chatS PROVE (op[r] = "accept" /\ read[ReadKey(r)] # "none")'
  BY <1>0, <1>3, KeysStay DEF Grows
<1>4. ASSUME NEW r \in Requests, InsertChatS(r)
      PROVE (op[r] = "accept" /\ read[ReadKey(r)] # "none")'
  <2>1. op[r] = "accept" /\ read[ReadKey(r)] # "none"
    BY <1>4 DEF InsertChatS, Go, HandlerInv, StageInv, ChatStages, PastRead, ReadIs
  <2>2. QED
    BY <1>0, <2>1, KeysStay DEF Grows
<1>5. QED
  BY <1>1, <1>2, <1>3, <1>4 DEF InsertChatS

LEMMA AdvancedSentStep ==
  ASSUME TypeOK, IdleInv, HandlerInv, StageInv, AdvancedSentHasReadRow, [Next]_vars
  PROVE  AdvancedSentHasReadRow'
<1>0. Grows
  BY StepGrows
<1> SUFFICES ASSUME NEW c \in Confessions, NEW t \in Times,
                    sent'[<<c, t>>].status \in {"READ"} \cup Verdicts
             PROVE  \E rt \in Times : read'[<<c, rt>>] # "none"
  BY DEF AdvancedSentHasReadRow
<1>1. CASE sent'[<<c, t>>].status = sent[<<c, t>>].status
  BY <1>0, <1>1 DEF AdvancedSentHasReadRow, Grows, Keys
<1>2. ASSUME NEW r \in Requests, UpdateSentRead(r) \/ UpdateSent(r),
             <<c, t>> = SentKey(r)
      PROVE  \E rt \in Times : read'[<<c, rt>>] # "none"
  <2>1. arg[r].c = c /\ arg[r].rt \in Times
    BY <1>2, StatementFacts DEF Statement, SentKey
  <2>2. read[ReadKey(r)] # "none" /\ read' = read
    BY <1>2 DEF UpdateSentRead, UpdateSent, Go, StageInv, HandlerInv, ReadStages,
       DecideStages, PastRead, ReadIs
  <2>3. QED
    BY <2>1, <2>2 DEF ReadKey
<1>3. ASSUME NEW r \in Requests, InsertSent(r), <<c, t>> = StoredKey(r)
      PROVE  FALSE
  BY <1>3 DEF InsertSent, TypeOK, Keys, Verdicts
<1>4. \/ sent' = sent
      \/ \E r \in Requests : InsertSent(r) \/ UpdateSentRead(r) \/ UpdateSent(r)
  BY TableSteps DEF tables, Statement, InsertSent, InsertUnread, DeleteUnread,
     InsertRead, UpdateSentRead, SelectSent, SelectRead, UpdateRead, UpdateSent,
     InsertChatS, InsertChatC
<1>5. ASSUME NEW r \in Requests, InsertSent(r), <<c, t>> # StoredKey(r)
      PROVE  sent'[<<c, t>>].status = sent[<<c, t>>].status
  BY <1>5 DEF InsertSent, TypeOK, Keys
<1>6. ASSUME NEW r \in Requests, UpdateSentRead(r) \/ UpdateSent(r), <<c, t>> # SentKey(r)
      PROVE  sent'[<<c, t>>].status = sent[<<c, t>>].status
  BY <1>6 DEF UpdateSentRead, UpdateSent, TypeOK, Keys
<1>7. QED
  BY <1>1, <1>2, <1>3, <1>4, <1>5, <1>6

LEMMA VerdictStep ==
  ASSUME TypeOK, IdleInv, HandlerInv, VerdictAnnounced, [Next]_vars
  PROVE  VerdictAnnounced'
<1>0. Grows
  BY StepGrows
<1>1. ASSUME NEW c \in Confessions, NEW v \in Verdicts, Announced(c, v)
      PROVE  Announced(c, v)'
  <2>1. PICK r \in Requests : /\ op[r] \in {"accept", "reject"} /\ Decided(op[r]) = v
                              /\ arg[r].c = c /\ note[r] # "none"
    BY <1>1 DEF Announced
  <2>2. op'[r] = op[r] /\ arg'[r] = arg[r] /\ note'[r] # "none"
    BY <1>0, <2>1 DEF Grows
  <2>3. QED
    BY <2>1, <2>2 DEF Announced, Decided
<1> SUFFICES ASSUME NEW c \in Confessions, NEW t \in Times, NEW v \in Verdicts,
                    sent'[<<c, t>>].status = v \/ read'[<<c, t>>] = v
             PROVE  Announced(c, v)'
  BY DEF VerdictAnnounced
<1>2. CASE sent[<<c, t>>].status = v \/ read[<<c, t>>] = v
  BY <1>1, <1>2 DEF VerdictAnnounced
<1>3. ASSUME NEW r \in Requests, UpdateRead(r) \/ UpdateSent(r),
             arg[r].c = c, Decided(op[r]) = v
      PROVE  Announced(c, v)'
  <2>1. op[r] \in {"accept", "reject"} /\ note[r] # "none"
    BY <1>3 DEF UpdateRead, UpdateSent, Go, HandlerInv, DecideStages, DbStages
  <2>2. QED
    BY <1>1, <1>3, <2>1 DEF Announced
<1>4. UNCHANGED tables \/ \E r \in Requests : Statement(r)
  BY TableSteps
<1>5. ASSUME NEW r \in Requests, Statement(r),
             ~(sent[<<c, t>>].status = v \/ read[<<c, t>>] = v)
      PROVE  Announced(c, v)'
  <2> USE DEF TypeOK, Verdicts, Keys
  <2>0. \A k \in Keys : sent[k] \in SentRow
    OBVIOUS
  <2>1. arg[r].c \in Confessions /\ StoredKey(r) \in Keys /\ SentKey(r) \in Keys
        /\ ReadKey(r) \in Keys
    BY <1>5, StatementFacts
  <2>2. CASE UpdateRead(r)
    <3>1. <<c, t>> = ReadKey(r) /\ Decided(op[r]) = v
      BY <1>5, <2>1, <2>2 DEF UpdateRead, tables
    <3>2. QED
      BY <1>3, <2>2, <3>1 DEF ReadKey
  <2>3. CASE UpdateSent(r)
    <3>1. <<c, t>> = SentKey(r) /\ Decided(op[r]) = v
      BY <1>5, <2>0, <2>1, <2>3 DEF UpdateSent, SentRow
    <3>2. QED
      BY <1>3, <2>3, <3>1 DEF SentKey
  <2>4. CASE InsertSent(r) \/ UpdateSentRead(r) \/ InsertRead(r)
    BY <1>5, <2>0, <2>1, <2>4 DEF InsertSent, UpdateSentRead, InsertRead, SentRow
  <2>5. CASE UNCHANGED <<sent, read>>
    BY <1>5, <2>5
  <2>6. QED
    BY <1>5, <2>2, <2>3, <2>4, <2>5 DEF Statement, InsertUnread, DeleteUnread,
       SelectSent, SelectRead, InsertChatS, InsertChatC, tables
<1>6. QED
  BY <1>2, <1>4, <1>5 DEF tables

-----------------------------------------------------------------------------
(* The theorems. *)

LEMMA InitIInv == Init => IInv
BY TypeInit DEF Init, IInv, IdleInv, HandlerInv, StageInv, UnreadHasSent,
   CrushChatHasSenderChat, AdvancedSentHasReadRow, VerdictAnnounced,
   ChatIsOfReadConfession, ReadStages, DecideStages, ChatStages, DbStages,
   Absent, Verdicts, Keys, PastSent, PastRead

LEMMA StepIInv == IInv /\ [Next]_vars => IInv'
BY TypeStep, IdleStep, HandlerStep, StageStep, UnreadHasSentStep, ChatsStep,
   AdvancedSentStep, VerdictStep DEF IInv

\* IInv is an invariant: it holds at first and every step keeps it.
THEOREM Inductive == Spec => []IInv
BY InitIInv, StepIInv, PTL DEF Spec

\* The crush's unread row never exists without the sender's filled row.
THEOREM UnreadHasSentAlways == Spec => []UnreadHasSent
<1>1. IInv => UnreadHasSent
  BY DEF IInv
<1>2. QED
  BY <1>1, Inductive, PTL

\* Every chat of the crush is a chat of the sender.
THEOREM ChatsPaired == Spec => []CrushChatHasSenderChat
<1>1. IInv => CrushChatHasSenderChat
  BY DEF IInv
<1>2. QED
  BY <1>1, Inductive, PTL

\* Every chat of the sender is of a confession that an accept found read.
THEOREM ChatIsOfReadConfessionAlways == Spec => []ChatIsOfReadConfession
<1>1. IInv => ChatIsOfReadConfession
  BY DEF IInv
<1>2. QED
  BY <1>1, Inductive, PTL

\* A reading or a verdict in the sender's table has a row in the crush's.
THEOREM AdvancedSentAlways == Spec => []AdvancedSentHasReadRow
<1>1. IInv => AdvancedSentHasReadRow
  BY DEF IInv
<1>2. QED
  BY <1>1, Inductive, PTL

\* No verdict is stored that no notification preceded.
THEOREM VerdictAnnouncedAlways == Spec => []VerdictAnnounced
<1>1. IInv => VerdictAnnounced
  BY DEF IInv
<1>2. QED
  BY <1>1, Inductive, PTL

\* What a waiting client was answered is stored, whatever happens later.
THEOREM AcknowledgedIsStoredAlways == Spec => []AcknowledgedIsStored
<1>1. IInv => AcknowledgedIsStored
  BY DEF IInv, StageInv, AcknowledgedIsStored
<1>2. QED
  BY <1>1, Inductive, PTL

\* The upsert of a verdict never creates a row: it overwrites a read one.
THEOREM VerdictOverwrites == Spec => VerdictOverwritesReading
<1>1. ASSUME IInv, [Next]_vars, NEW k \in Keys, read' # read,
             read'[k] \in Verdicts
      PROVE  read[k] # "none"
  <2>1. PICK r \in Requests : Statement(r)
    BY <1>1, TableSteps DEF IInv, tables
  <2>2. InsertRead(r) \/ UpdateRead(r)
    BY <1>1, <2>1 DEF Statement, InsertSent, InsertUnread, DeleteUnread,
       UpdateSentRead, SelectSent, SelectRead, UpdateSent, InsertChatS,
       InsertChatC, tables
  <2>3. ReadKey(r) \in Keys
    BY <1>1, <2>1, StatementFacts DEF IInv
  <2>4. CASE InsertRead(r)
    BY <1>1, <2>3, <2>4 DEF InsertRead, IInv, TypeOK, Verdicts
  <2>5. CASE UpdateRead(r)
    <3>1. read[ReadKey(r)] # "none"
      BY <1>1, <2>5 DEF UpdateRead, Go, IInv, StageInv
    <3>2. QED
      BY <1>1, <2>3, <2>5, <3>1 DEF UpdateRead, IInv, TypeOK, Verdicts
  <2>6. QED
    BY <2>2, <2>4, <2>5
<1>2. IInv /\ [Next]_vars => [\A k \in Keys : read'[k] \in Verdicts => read[k] # "none"]_read
  BY <1>1
<1>3. QED
  BY <1>2, Inductive, PTL DEF Spec, VerdictOverwritesReading

-----------------------------------------------------------------------------
(* A client hears one answer. *)

\* A floating request was answered; an awaiting one is not while it is under way.
AnswerInv == \A r \in Requests :
  /\ Floating(r) => reply[r] = "ok"
  /\ ~Floating(r) /\ (Live(r) \/ op[r] = "none") => reply[r] = "none"

AnsweredOnce ==
  [][\A r \in Requests : reply[r] # "none" => reply'[r] = reply[r]]_vars

\* A step answers only a request that had no answer.
AnswersKept == \A q \in Requests : reply[q] # "none" => reply'[q] = reply[q]

LEMMA AnswerStep ==
  ASSUME TypeOK, IdleInv, HandlerInv, AnswerInv, [Next]_vars
  PROVE  AnswerInv' /\ AnswersKept
<1> USE DEF TypeOK, AnswerInv, AnswersKept, Floating, Live, Final
<1>1. ASSUME NEW r \in Requests, Begin(r) PROVE AnswerInv' /\ AnswersKept
  <2>1. PICK o \in Chosen, a \in Args : Start(r, o, a)
    BY <1>1, BeginStarts
  <2>2. QED
    BY <2>1 DEF Start, IdleInv, Chosen
<1>2. ASSUME NEW r \in Requests, Statement(r) PROVE AnswerInv' /\ AnswersKept
  <2>1. /\ UNCHANGED <<op, note, reply>>
        /\ \A q \in Requests : pc'[q] = pc[q] \/ (q = r /\ pc[r] \in DbStages)
    BY <1>2 DEF Statement, InsertSent, InsertUnread, DeleteUnread, InsertRead,
       UpdateSentRead, SelectSent, SelectRead, UpdateRead, UpdateSent,
       InsertChatS, InsertChatC, Go, client, DbStages
  <2>2. QED
    BY <2>1 DEF DbStages
<1>3. ASSUME NEW r \in Requests,
             CheckOnline(r) \/ CheckOffline(r) \/ Publish(r) \/ Finish(r) \/ SaveReturns(r)
      PROVE  AnswerInv' /\ AnswersKept
  <2>1. CASE CheckOnline(r) \/ CheckOffline(r) \/ Publish(r)
    <3>1. pc[r] \in {"check", "publish"} /\ note[r] = "none" /\ reply[r] = "none"
      BY <2>1 DEF CheckOnline, CheckOffline, Publish, HandlerInv
    <3>2. QED
      BY <2>1, <3>1 DEF CheckOnline, CheckOffline, Publish, client, IdleInv
  <2>2. CASE Finish(r)
    BY <2>2 DEF Finish, client, IdleInv
  <2>3. CASE SaveReturns(r)
    BY <2>3 DEF SaveReturns, client
  <2>4. QED
    BY <1>3, <2>1, <2>2, <2>3
<1>4. ASSUME NEW p, Kill(p), UNCHANGED <<op, reply>> PROVE AnswerInv' /\ AnswersKept
  BY <1>4 DEF Kill
<1>5. ASSUME NEW r \in Requests, Live(r), Throw(r) PROVE AnswerInv' /\ AnswersKept
  <2>1. CASE Floating(r)
    BY <1>4, <1>5, <2>1 DEF Throw, client
  <2>2. CASE ~Floating(r)
    BY <1>5, <2>2 DEF Throw, client, IdleInv
  <2>3. QED
    BY <2>1, <2>2
<1>6. ASSUME NEW r \in Requests, Refuse(r) \/ RedisError(r) \/ DbError(r)
      PROVE  AnswerInv' /\ AnswersKept
  <2>1. Live(r)
    BY <1>6 DEF Refuse, Refused, RedisError, DbError, DbStages
  <2>2. QED
    BY <1>5, <1>6, <2>1 DEF Refuse, RedisError, DbError
<1>7. ASSUME NEW r \in Requests, SaveFails(r) PROVE AnswerInv' /\ AnswersKept
  BY <1>4, <1>7 DEF SaveFails, client
<1>8. ASSUME NEW p \in Replicas, Crash(p) PROVE AnswerInv' /\ AnswersKept
  BY <1>4, <1>8 DEF Crash, client
<1>9. CASE UNCHANGED vars
  BY <1>9 DEF vars
<1>10. QED
  BY <1>1, <1>2, <1>3, <1>6, <1>7, <1>8, <1>9 DEF Next, Handle, Faulty

\* A client is answered once: an answer given before the floating statements is
\* not taken back by their exception, nor is one sent a second time.
THEOREM AnsweredOnceAlways == Spec => AnsweredOnce
<1>1. Init => AnswerInv
  BY DEF Init, AnswerInv, Floating
<1>2. IInv /\ AnswerInv /\ [Next]_vars => AnswerInv'
  BY AnswerStep DEF IInv
<1>3. IInv /\ AnswerInv /\ [Next]_vars
        => [\A r \in Requests : reply[r] # "none" => reply'[r] = reply[r]]_vars
  BY AnswerStep DEF IInv, AnswersKept
<1>4. QED
  BY <1>1, <1>2, <1>3, Inductive, PTL DEF Spec, AnsweredOnce

-----------------------------------------------------------------------------
(* What is lost when statements are cut short, and that nothing else is.     *)
(* The code promises more: that a confession the crush was sent can be read, *)
(* and that an accepted one has a chat.                                      *)

\* An accept that has its chat on both sides, is at one of these stages, or was
\* stopped.
Opens(r, stages) ==
  op[r] = "accept" /\ (r \in chatS \cap chatC \/ pc[r] \in stages \cup {"failed", "killed"})

\* A confession is accepted, in either table, only by an accept that opened its
\* chat, is about to, or was stopped.
AcceptedIsOpened == \A k \in Keys :
  /\ sent[k].status = "ACCEPTED" =>
       \E r \in Requests : SentKey(r) = k /\ Opens(r, ChatStages)
  /\ read[k] = "ACCEPTED" =>
       \E r \in Requests : ReadKey(r) = k /\ Opens(r, ChatStages \cup {"updateSent"})

\* How the stage of a request moves: by its own statement, its answer, or its end.
LEMMA StageMoves ==
  ASSUME TypeOK, IdleInv, HandlerInv, [Next]_vars, NEW q \in Requests, op[q] # "none"
  PROVE  \/ pc'[q] = pc[q]
         \/ pc'[q] \in {"failed", "killed"}
         \/ Statement(q)
         \/ pc[q] = "answer" /\ pc'[q] = "done"
         \/ pc[q] \in {"check", "publish"} /\ pc'[q] \in {"publish", FirstStatement(op[q])}
<1> USE DEF TypeOK
<1>1. ASSUME NEW r \in Requests, Begin(r) PROVE pc'[q] = pc[q]
  BY <1>1, BeginStarts DEF Start
<1>2. ASSUME NEW r \in Requests, Statement(r) PROVE pc'[q] = pc[q] \/ Statement(q)
  BY <1>2 DEF Statement, InsertSent, InsertUnread, DeleteUnread, InsertRead,
     UpdateSentRead, SelectSent, SelectRead, UpdateRead, UpdateSent,
     InsertChatS, InsertChatC, Go
<1>3. CASE (\E r \in Requests : Refuse(r)) \/ Faulty
  BY <1>3, RefusalsAndFaultsEnd DEF Ends
<1>4. ASSUME NEW r \in Requests,
             CheckOnline(r) \/ CheckOffline(r) \/ Publish(r) \/ Finish(r) \/ SaveReturns(r)
      PROVE  \/ pc'[q] = pc[q]
             \/ pc[q] = "answer" /\ pc'[q] = "done"
             \/ pc[q] \in {"check", "publish"} /\ pc'[q] \in {"publish", FirstStatement(op[q])}
  BY <1>4 DEF CheckOnline, CheckOffline, Publish, Finish, SaveReturns
<1>5. CASE UNCHANGED vars
  BY <1>5 DEF vars
<1>6. QED
  BY <1>1, <1>2, <1>3, <1>4, <1>5 DEF Next, Handle

\* A request that is not made yet is not over after a step.
LEMMA IdleStays ==
  ASSUME TypeOK, IdleInv, HandlerInv, [Next]_vars, NEW q \in Requests, op[q] = "none"
  PROVE  pc'[q] \in {"idle", "check"}
<1> USE DEF TypeOK
<1>0. pc[q] = "idle" /\ note[q] = "none"
  BY DEF IdleInv
<1>1. ASSUME NEW r \in Requests, Begin(r) PROVE pc'[q] \in {"idle", "check"}
  BY <1>0, <1>1, BeginStarts DEF Start
<1>2. ASSUME NEW r \in Requests, Statement(r) PROVE pc'[q] = pc[q]
  BY <1>0, <1>2 DEF Statement, InsertSent, InsertUnread, DeleteUnread, InsertRead,
     UpdateSentRead, SelectSent, SelectRead, UpdateRead, UpdateSent,
     InsertChatS, InsertChatC, Go
<1>3. CASE (\E r \in Requests : Refuse(r)) \/ Faulty
  BY <1>0, <1>3, RefusalsAndFaultsEnd DEF Ends, Live
<1>4. ASSUME NEW r \in Requests,
             CheckOnline(r) \/ CheckOffline(r) \/ Publish(r) \/ Finish(r) \/ SaveReturns(r)
      PROVE  pc'[q] = pc[q]
  BY <1>0, <1>4 DEF CheckOnline, CheckOffline, Publish, Finish, SaveReturns
<1>5. CASE UNCHANGED vars
  BY <1>0, <1>5 DEF vars
<1>6. QED
  BY <1>0, <1>1, <1>2, <1>3, <1>4, <1>5 DEF Next, Handle

\* A read that stopped stays stopped; one that goes on writes the crush's row.
LEMMA ReadCutStays ==
  ASSUME IInv, [Next]_vars, NEW k \in Keys, ReadCut(k)
  PROVE  ReadCut(k)' \/ \E rt \in Times : read'[<<k[1], rt>>] # "none"
<1> USE DEF IInv
<1>1. PICK r \in Requests : /\ op[r] = "read" /\ SentKey(r) = k
                            /\ pc[r] \in {"insertRead", "failed", "killed"}
  BY DEF ReadCut
<1>2. op'[r] = "read" /\ SentKey(r)' = k /\ arg[r] \in Args
  BY <1>1, StepGrows, KeysStay
<1>3. CASE pc'[r] \in {"insertRead", "failed", "killed"}
  BY <1>2, <1>3 DEF ReadCut
<1>4. CASE InsertRead(r)
  <2>1. ReadKey(r) \in Keys /\ ReadKey(r) = <<k[1], arg[r].rt>> /\ arg[r].rt \in Times
    BY <1>1, <1>2, KeysOfArgs DEF ReadKey, SentKey
  <2>2. read'[ReadKey(r)] = "READ"
    BY <1>4, <2>1 DEF InsertRead, TypeOK
  <2>3. QED
    BY <2>1, <2>2
<1>5. pc'[r] \in {"insertRead", "failed", "killed"} \/ InsertRead(r)
  <2>1. Statement(r) => InsertRead(r)
    BY <1>1 DEF Statement, InsertSent, InsertUnread, DeleteUnread, InsertRead,
       UpdateSentRead, SelectSent, SelectRead, UpdateRead, UpdateSent,
       InsertChatS, InsertChatC, Go
  <2>2. QED
    BY <1>1, <2>1, StageMoves
<1>6. QED
  BY <1>3, <1>4, <1>5

LEMMA StoredIsReadableStep ==
  ASSUME IInv, StoredIsReadable, [Next]_vars
  PROVE  StoredIsReadable'
<1> USE DEF IInv
<1>0. Grows
  BY StepGrows
<1> SUFFICES ASSUME NEW p \in Requests, (op[p] = "send" /\ pc[p] \in {"answer", "done"})'
             PROVE  Readable(p)'
  BY DEF StoredIsReadable
<1>1. op[p] = "send"
  BY <1>0, IdleStays DEF Grows
<1>2. arg'[p] = arg[p] /\ arg[p].c \in Confessions
  BY <1>0, <1>1, KeysStay DEF Args
<1>3. PICK k \in Keys : StoredKey(p) = k /\ StoredKey(p)' = k /\ k[1] = arg[p].c
  BY <1>0, <1>1, KeysStay DEF StoredKey
<1>4. CASE InsertUnread(p)
  BY <1>3, <1>4 DEF InsertUnread, Readable
<1>5. CASE pc[p] \in {"answer", "done"} /\ k \in unread /\ k \notin unread'
  <2>1. PICK r \in Requests : DeleteUnread(r) /\ SentKey(r) = k
    BY <1>5, TableSteps DEF tables, Statement, InsertSent, InsertUnread,
       DeleteUnread, InsertRead, UpdateSentRead, SelectSent, SelectRead, UpdateRead,
       UpdateSent, InsertChatS, InsertChatC
  <2>2. op[r] = "read" /\ pc'[r] = "insertRead"
    BY <2>1 DEF DeleteUnread, Go, HandlerInv, ReadStages, TypeOK
  <2>3. op'[r] = "read" /\ SentKey(r)' = k
    BY <1>0, <2>1, <2>2, KeysStay
  <2>4. QED
    BY <1>3, <2>2, <2>3 DEF ReadCut, Readable
<1>6. CASE \E rt \in Times : read[<<arg[p].c, rt>>] # "none"
  BY <1>0, <1>2, <1>6 DEF Grows, Keys, Readable
<1>7. CASE ReadCut(k)
  <2>1. ReadCut(k)' \/ \E rt \in Times : read'[<<k[1], rt>>] # "none"
    BY <1>7, ReadCutStays
  <2>2. QED
    BY <1>2, <1>3, <2>1 DEF ReadCut, Readable
<1>8. pc[p] \in {"answer", "done"} \/ InsertUnread(p)
  <2>1. Statement(p) => InsertUnread(p)
    BY <1>1 DEF Statement, InsertSent, InsertUnread, DeleteUnread, InsertRead,
       UpdateSentRead, SelectSent, SelectRead, UpdateRead, UpdateSent,
       InsertChatS, InsertChatC, Go, HandlerInv, ReadStages, DecideStages,
       ChatStages, TypeOK
  <2>2. QED
    BY <1>1, <2>1, StageMoves DEF FirstStatement
<1>9. CASE pc[p] \in {"answer", "done"} /\ k \in unread'
  BY <1>3, <1>9 DEF Readable
<1>10. pc[p] \in {"answer", "done"} => k \in unread \/ ReadCut(k)
         \/ \E rt \in Times : read[<<arg[p].c, rt>>] # "none"
  BY <1>1, <1>3 DEF StoredIsReadable, Readable, ReadCut
<1>11. QED
  BY <1>4, <1>5, <1>6, <1>7, <1>8, <1>9, <1>10

\* An accept past one of its updates stays so.
LEMMA OpensStays ==
  ASSUME IInv, [Next]_vars, NEW r \in Requests,
         NEW S \in {ChatStages, ChatStages \cup {"updateSent"}}, Opens(r, S)
  PROVE  Opens(r, S)' /\ SentKey(r)' = SentKey(r) /\ ReadKey(r)' = ReadKey(r)
<1> USE DEF IInv, Opens
<1>0. Grows
  BY StepGrows
<1>1. op[r] = "accept" /\ op'[r] = "accept"
      /\ SentKey(r)' = SentKey(r) /\ ReadKey(r)' = ReadKey(r)
  BY <1>0, KeysStay
<1>2. CASE r \in chatS \cap chatC
  BY <1>0, <1>1, <1>2 DEF Grows
<1>3. CASE pc'[r] \in S \cup {"failed", "killed"}
  BY <1>1, <1>3
<1>4. CASE pc[r] \in S /\ Statement(r)
  <2>1. UpdateSent(r) \/ InsertChatS(r) \/ InsertChatC(r)
    BY <1>4 DEF Statement, InsertSent, InsertUnread, DeleteUnread, InsertRead,
       UpdateSentRead, SelectSent, SelectRead, UpdateRead, UpdateSent,
       InsertChatS, InsertChatC, Go, ChatStages
  <2>2. CASE UpdateSent(r)
    BY <1>1, <2>2 DEF UpdateSent, Go, AfterVerdict, ChatStages, TypeOK
  <2>3. CASE InsertChatS(r)
    BY <1>1, <2>3 DEF InsertChatS, Go, ChatStages, TypeOK
  <2>4. CASE InsertChatC(r)
    BY <1>1, <2>4 DEF InsertChatC, Go, StageInv
  <2>5. QED
    BY <2>1, <2>2, <2>3, <2>4
<1>5. CASE pc[r] \in {"failed", "killed"} \cup S /\ ~Statement(r)
  BY <1>1, <1>5, StageMoves DEF ChatStages
<1>6. CASE pc[r] \in {"failed", "killed"} /\ Statement(r)
  BY <1>6 DEF Statement, InsertSent, InsertUnread, DeleteUnread, InsertRead,
     UpdateSentRead, SelectSent, SelectRead, UpdateRead, UpdateSent,
     InsertChatS, InsertChatC, Go
<1>7. QED
  BY <1>1, <1>2, <1>4, <1>5, <1>6

LEMMA AcceptedIsOpenedStep ==
  ASSUME IInv, AcceptedIsOpened, [Next]_vars
  PROVE  AcceptedIsOpened'
<1> USE DEF IInv
<1>0. Grows
  BY StepGrows
<1>1. ASSUME NEW k \in Keys, sent'[k].status = "ACCEPTED", sent[k].status # "ACCEPTED"
      PROVE  \E r \in Requests : SentKey(r)' = k /\ Opens(r, ChatStages)'
  <2>1. PICK r \in Requests : UpdateSent(r) /\ k = SentKey(r)
    <3>1. PICK r \in Requests : InsertSent(r) \/ UpdateSentRead(r) \/ UpdateSent(r)
      BY <1>1, TableSteps DEF tables, Statement, InsertSent,
         InsertUnread, DeleteUnread, InsertRead, UpdateSentRead, SelectSent, SelectRead,
         UpdateRead, UpdateSent, InsertChatS, InsertChatC
    <3>2. StoredKey(r) \in Keys /\ SentKey(r) \in Keys /\ sent[k] \in SentRow
      BY <3>1, StatementFacts DEF Statement, TypeOK
    <3>3. ~InsertSent(r) /\ ~UpdateSentRead(r)
      BY <1>1, <3>2 DEF InsertSent, UpdateSentRead, TypeOK, SentRow
    <3>4. QED
      BY <1>1, <3>1, <3>2, <3>3 DEF UpdateSent, TypeOK
  <2>2. Decided(op[r]) = "ACCEPTED" /\ op[r] # "none"
    BY <1>1, <2>1, StatementFacts DEF UpdateSent, Statement, TypeOK, SentRow
  <2>3. op'[r] = "accept" /\ SentKey(r)' = k
    BY <1>0, <2>1, <2>2, KeysStay DEF Decided
  <2>4. pc'[r] \in ChatStages
    BY <1>0, <2>1, <2>2, <2>3 DEF UpdateSent, Go, AfterVerdict, Decided, ChatStages, TypeOK
  <2>5. QED
    BY <2>3, <2>4 DEF Opens
<1>2. ASSUME NEW k \in Keys, read'[k] = "ACCEPTED", read[k] # "ACCEPTED"
      PROVE  \E r \in Requests :
               ReadKey(r)' = k /\ Opens(r, ChatStages \cup {"updateSent"})'
  <2>1. PICK r \in Requests : UpdateRead(r) /\ k = ReadKey(r)
    BY <1>2, TableSteps, StatementFacts DEF tables, Statement, InsertSent,
       InsertUnread, DeleteUnread, InsertRead, UpdateSentRead, SelectSent, SelectRead,
       UpdateRead, UpdateSent, InsertChatS, InsertChatC, TypeOK
  <2>2. Decided(op[r]) = "ACCEPTED" /\ op[r] # "none"
    BY <1>2, <2>1, StatementFacts DEF UpdateRead, Statement, TypeOK
  <2>3. op'[r] = "accept" /\ ReadKey(r)' = k
    BY <1>0, <2>1, <2>2, KeysStay DEF Decided
  <2>4. pc'[r] = "updateSent"
    BY <2>1 DEF UpdateRead, Go, TypeOK
  <2>5. QED
    BY <2>3, <2>4 DEF Opens
<1>3. ASSUME NEW k \in Keys, sent[k].status = "ACCEPTED"
      PROVE  \E r \in Requests : SentKey(r)' = k /\ Opens(r, ChatStages)'
  BY <1>3, OpensStays DEF AcceptedIsOpened
<1>4. ASSUME NEW k \in Keys, read[k] = "ACCEPTED"
      PROVE  \E r \in Requests :
               ReadKey(r)' = k /\ Opens(r, ChatStages \cup {"updateSent"})'
  BY <1>4, OpensStays DEF AcceptedIsOpened
<1>5. QED
  BY <1>1, <1>2, <1>3, <1>4 DEF AcceptedIsOpened

\* A stored confession is not lost but by a read of it that stopped: in every
\* interleaving, and whatever fails, it stays in one of the crush's tables.
THEOREM StoredIsReadableAlways == Spec => []StoredIsReadable
<1>1. Init => StoredIsReadable
  BY DEF Init, StoredIsReadable
<1>2. IInv /\ StoredIsReadable /\ [Next]_vars => StoredIsReadable'
  BY StoredIsReadableStep
<1>3. QED
  BY <1>1, <1>2, Inductive, PTL DEF Spec

\* An acceptance without a chat is one that was stopped: no interleaving of
\* accepts and rejects alone makes one.
THEOREM AcceptedIsOpenedAlways == Spec => []AcceptedIsOpened
<1>1. Init => AcceptedIsOpened
  BY DEF Init, AcceptedIsOpened, Keys, Absent
<1>2. IInv /\ AcceptedIsOpened /\ [Next]_vars => AcceptedIsOpened'
  BY AcceptedIsOpenedStep
<1>3. QED
  BY <1>1, <1>2, Inductive, PTL DEF Spec

=============================================================================
