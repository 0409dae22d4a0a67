------------------------ MODULE ConfessionSerialProofs ------------------------
(***************************************************************************)
(* What ConfessionService promises clients that wait: when the requests of *)
(* a confession come one after the other, times are whole seconds and      *)
(* nothing fails, the three tables agree between requests, an accepted     *)
(* confession has its chat, and the handlers implement the atomic          *)
(* ConfessionLifecycle.  For any number of confessions, instants, requests *)
(* and replicas.                                                           *)
(*                                                                         *)
(* Waiting is not enough when a replica serves several confessions: a      *)
(* floating refusal of one ends the process, and with it the half-written  *)
(* statements of the others.  Spared names the circumstance that excludes  *)
(* it; with one confession it always holds.                                *)
(*                                                                         *)
(* The argument: a confession has one live request at most (OneLive) and   *)
(* one send, which is over before any other of its requests starts         *)
(* (AfterSend).  So between two statements only the live request has moved *)
(* the rows of its confession, how far its stage says (Midway), and where  *)
(* no request is midway the tables agree (Agreement).  Refusals come       *)
(* before the first write or after the last.                               *)
(***************************************************************************)
EXTENDS ConfessionServiceProofs

\* The circumstances: patient clients, whole seconds, no faults.
PatientClients ==
  /\ Pacing = "serial" /\ MaxFaults = 0
  /\ \A t \in Times : Second[t] = t

\* When a floating request is refused, which ends its process, the live requests of
\* its replica are of its own confession.
Spared == \A q, r \in Requests :
  Refused(r) /\ Floating(r) /\ Live(q) /\ host[q] = host[r] => arg[q].c = arg[r].c

-----------------------------------------------------------------------------
(* The invariant. *)

\* A confession has one live request at most.
OneLive == \A q, r \in Requests :
  Live(q) /\ Live(r) /\ arg[q].c = arg[r].c => q = r

\* It has one send, which nothing stops.
OneSend ==
  /\ \A q, r \in Requests :
       op[q] = "send" /\ op[r] = "send" /\ arg[q].c = arg[r].c => q = r
  /\ \A q \in Requests : op[q] = "send" => pc[q] \notin {"failed", "killed"}
  /\ \A q \in Requests : op[q] # "none" => pc[q] # "idle"

\* Requests, rows and unread keys name a confession as it was sent.
SentAs(k) == \E p \in Requests : op[p] = "send" /\ SentKey(p) = k

Known ==
  /\ \A q \in Requests : op[q] # "none" => SentAs(SentKey(q))
  /\ \A k \in Keys : sent[k] # Absent \/ k \in unread => SentAs(k)
  /\ \A c \in Confessions, t \in Times : read[<<c, t>>] # "none" =>
       \E q \in Requests : op[q] \notin {"none", "send"} /\ arg[q].c = c

\* The other requests of a confession come after its send is over.
AfterSend == \A p, q \in Requests :
  op[p] = "send" /\ op[q] \notin {"none", "send"} /\ arg[p].c = arg[q].c
    => pc[p] = "done"

\* What the live request of a confession finds in the tables at its stage.
MidwayOf(r) ==
  /\ op[r] = "send" /\ pc[r] \in {"check", "publish", "insertSent"}
       => sent[SentKey(r)] = Absent
  /\ pc[r] = "insertUnread" => sent[SentKey(r)].status = "Sent"
  /\ pc[r] \in {"insertRead", "updateSent"} => TimesBind(r)
  /\ pc[r] \in {"insertRead", "updateSentRead", "updateSent"}
       => SentKey(r) \notin unread
  /\ pc[r] = "updateSentRead" => read[ReadKey(r)] = "READ"
  /\ pc[r] \in {"selectRead", "updateRead", "updateSent"}
       => TimesBind(r) /\ sent[SentKey(r)].status = "READ"
  /\ pc[r] = "updateSent" => read[ReadKey(r)] = Decided(op[r])
  /\ pc[r] \in ChatStages => sent[SentKey(r)].status = "ACCEPTED"

Midway == \A r \in Requests : MidwayOf(r)

\* The stages between the first and the last write to a confession's rows.
Mid == {"insertUnread", "insertRead", "updateSentRead", "updateSent"}

Agree(k) ==
  IF sent[k].status = "Sent"
  THEN k \in unread /\ \A rt \in Times : read[<<k[1], rt>>] = "none"
  ELSE k \notin unread /\ \E rt \in Times : read[<<k[1], rt>>] = sent[k].status

Agreement == \A k \in Keys :
  sent[k].full /\ (\A q \in Requests : pc[q] \in Mid => arg[q].c # k[1]) => Agree(k)

SInv == OneLive /\ OneSend /\ Known /\ AfterSend /\ Midway /\ Agreement

-----------------------------------------------------------------------------
(* The steps that are left when clients wait and nothing fails. *)

\* A send stores its confession under the very time it was given.
LEMMA StoredIsSent ==
  ASSUME PatientClients, NEW r \in Requests, arg[r] \in Args
  PROVE  StoredKey(r) = SentKey(r)
BY DEF PatientClients, Args, StoredKey, SentKey

Skeleton(r) == \/ CheckOnline(r) \/ CheckOffline(r) \/ Publish(r)
               \/ Finish(r) \/ SaveReturns(r)

LEMMA SerialSteps ==
  ASSUME PatientClients, TypeOK, [Next]_vars
  PROVE  \/ \E r \in Requests : Begin(r) \/ Statement(r) \/ Skeleton(r) \/ Refuse(r)
         \/ UNCHANGED vars
<1>1. ~Faulty
  BY DEF PatientClients, TypeOK, Faulty, RedisError, DbError, SaveFails, Crash, Fault
<1>2. QED
  BY <1>1 DEF Next, Handle, Skeleton

\* The stages a refusal happens at.
RefusedAt ==
  {"deleteUnread", "insertRead", "selectSent", "selectRead", "updateRead",
   "updateSent", "insertChatS", "insertChatC"}

\* A refusal ends the refused request and, where its replica has no other
\* confession, no other request.
LEMMA RefuseEndsOne ==
  ASSUME TypeOK, IdleInv, OneLive, Spared, NEW r \in Requests, Refuse(r)
  PROVE  /\ pc[r] \in RefusedAt /\ pc'[r] \in {"failed", "killed"}
         /\ \A q \in Requests : q # r => pc'[q] = pc[q]
         /\ pc' \in [Requests -> Stages]
         /\ UNCHANGED <<op, arg, host, sent, unread, read, chatS, chatC, over>>
<1>1. pc[r] \in RefusedAt
  BY DEF Refuse, Refused, RefusedAt
<1>2. Ends
  BY RefusalsAndFaultsEnd
<1>3. Live(r)
  BY <1>1 DEF RefusedAt, Live, Final
<1>4. CASE Floating(r)
  <2>1. Kill(host[r])
    BY <1>4 DEF Refuse, Throw
  <2>2. pc'[r] = "killed"
    BY <1>3, <2>1 DEF Kill, TypeOK
  <2>3. ASSUME NEW q \in Requests, q # r PROVE pc'[q] = pc[q]
    BY <1>3, <1>4, <2>1, <2>3 DEF Kill, Refuse, Spared, OneLive
  <2>4. QED
    BY <1>1, <1>2, <2>2, <2>3 DEF Ends
<1>5. CASE ~Floating(r)
  BY <1>1, <1>2, <1>5 DEF Refuse, Throw, Ends, TypeOK
<1>6. QED
  BY <1>4, <1>5

\* Every step of a request it has already made moves that request alone, and
\* does not revive it; sends are not refused.
Moves(r) ==
  /\ UNCHANGED <<op, arg>>
  /\ \A q \in Requests : q # r => pc'[q] = pc[q]
  /\ pc[r] \in Final \cup {"idle"} => pc'[r] = pc[r]
  /\ pc'[r] = "idle" => pc[r] = "idle"
  /\ op[r] = "send" /\ pc'[r] \in {"failed", "killed"} => pc'[r] = pc[r]

LEMMA StatementMoves ==
  ASSUME TypeOK, NEW r \in Requests, Statement(r)
  PROVE  Moves(r)
BY DEF TypeOK, Statement, InsertSent, InsertUnread, DeleteUnread, InsertRead,
   UpdateSentRead, SelectSent, SelectRead, UpdateRead, UpdateSent, InsertChatS,
   InsertChatC, Go, AfterVerdict, client, Moves, Final

LEMMA SkeletonMoves ==
  ASSUME TypeOK, NEW r \in Requests, Skeleton(r)
  PROVE  Moves(r) /\ UNCHANGED tables
BY DEF TypeOK, Skeleton, CheckOnline, CheckOffline, Publish, Finish, SaveReturns,
   FirstStatement, client, tables, Moves, Final

LEMMA RefuseMoves ==
  ASSUME TypeOK, IdleInv, HandlerInv, OneLive, Spared, NEW r \in Requests, Refuse(r)
  PROVE  Moves(r) /\ UNCHANGED tables
BY RefuseEndsOne DEF RefusedAt, HandlerInv, ReadStages, DecideStages, ChatStages,
   Moves, Final, tables

\* A statement changes no row but those of the keys of its request.
LEMMA RowsOfStatement ==
  ASSUME PatientClients, TypeOK, IdleInv, HandlerInv, NEW r \in Requests, Statement(r)
  PROVE  /\ arg[r] \in Args /\ op[r] # "none" /\ Live(r)
         /\ SentKey(r) \in Keys /\ ReadKey(r) \in Keys
         /\ \A k \in Keys : k # SentKey(r) =>
              sent'[k] = sent[k] /\ (k \in unread' <=> k \in unread)
         /\ \A k \in Keys : k # ReadKey(r) \/ op[r] = "send" => read'[k] = read[k]
<1>1. arg[r] \in Args /\ op[r] # "none" /\ SentKey(r) \in Keys /\ ReadKey(r) \in Keys
  BY StatementFacts
<1>2. StoredKey(r) = SentKey(r)
  BY <1>1, StoredIsSent
<1>3. \A k \in Keys : k # SentKey(r) =>
        sent'[k] = sent[k] /\ (k \in unread' <=> k \in unread)
  BY <1>1, <1>2 DEF TypeOK, Statement, InsertSent, InsertUnread, DeleteUnread,
     InsertRead, UpdateSentRead, SelectSent, SelectRead, UpdateRead, UpdateSent,
     InsertChatS, InsertChatC, tables
<1>4. \A k \in Keys : k # ReadKey(r) \/ op[r] = "send" => read'[k] = read[k]
  BY <1>1 DEF TypeOK, Statement, InsertSent, InsertUnread, DeleteUnread,
     InsertRead, UpdateSentRead, SelectSent, SelectRead, UpdateRead, UpdateSent,
     InsertChatS, InsertChatC, tables, Go, HandlerInv, ReadStages, DecideStages
<1>5. Live(r)
  BY DEF Statement, InsertSent, InsertUnread, DeleteUnread, InsertRead,
     UpdateSentRead, SelectSent, SelectRead, UpdateRead, UpdateSent, InsertChatS,
     InsertChatC, Go, Live, Final
<1>6. QED
  BY <1>1, <1>3, <1>4, <1>5

-----------------------------------------------------------------------------
(* A request that starts: what its client had waited for. *)

LEMMA BeginFacts ==
  ASSUME PatientClients, TypeOK, IdleInv, OneSend, Known, NEW r \in Requests, Begin(r)
  PROVE  \E o \in Chosen, a \in Args :
           /\ Start(r, o, a)
           /\ o = "send" =>
                \A q \in Requests : op[q] # "none" => arg[q].c # a.c
           /\ o # "send" => SentAs(<<a.c, a.st>>)
           /\ \A q \in Requests : op[q] # "none" /\ arg[q].c = a.c => pc[q] \in Final
<1>1. ASSUME NEW a \in Args, NEW o \in Chosen, Start(r, o, a)
      PROVE  \A q \in Requests : op[q] # "none" /\ arg[q].c = a.c => pc[q] \in Final
  BY <1>1 DEF Start, Paced, PatientClients, OneSend, Live
<1>2. ASSUME NEW a \in Args, \A q \in Requests : op[q] = "send" => arg[q].c # a.c
      PROVE  \A q \in Requests : op[q] # "none" => arg[q].c # a.c
  BY <1>2 DEF Known, SentAs, SentKey
<1>3. ASSUME NEW a \in Args, Heard(a.c, a.st) PROVE SentAs(<<a.c, a.st>>)
  BY <1>3 DEF Heard, Known, SentAs, Args, Keys
<1>4. ASSUME NEW a \in Args, HasRead(a.c, a.st, a.rt) PROVE SentAs(<<a.c, a.st>>)
  BY <1>4 DEF HasRead, Known
<1>5. CASE StartSend(r)
  BY <1>1, <1>2, <1>5 DEF StartSend, Chosen
<1>6. CASE StartRead(r)
  BY <1>1, <1>3, <1>6 DEF StartRead, Chosen
<1>7. CASE StartAccept(r) \/ StartReject(r)
  BY <1>1, <1>4, <1>7 DEF StartAccept, StartReject, Chosen
<1>8. QED
  BY <1>5, <1>6, <1>7 DEF Begin

\* How a start looks to the invariant.
LEMMA StartFacts ==
  ASSUME TypeOK, IdleInv, NEW r \in Requests, NEW o \in Chosen, NEW a \in Args,
         Start(r, o, a)
  PROVE  /\ op[r] = "none" /\ pc[r] = "idle" /\ op'[r] = o /\ arg'[r] = a
         /\ pc'[r] = "check" /\ o # "none"
         /\ \A q \in Requests : q # r =>
              op'[q] = op[q] /\ arg'[q] = arg[q] /\ pc'[q] = pc[q]
         /\ UNCHANGED <<sent, unread, read, chatS, chatC>>
BY DEF Start, TypeOK, IdleInv, Chosen, tables

-----------------------------------------------------------------------------
(* One live request, one send, and it comes first. *)

LEMMA OrderOfBegin ==
  ASSUME PatientClients, TypeOK, IdleInv, OneLive, OneSend, Known, AfterSend,
         NEW r \in Requests, Begin(r)
  PROVE  OneLive' /\ OneSend' /\ AfterSend'
<1>1. PICK o \in Chosen, a \in Args :
        /\ Start(r, o, a)
        /\ o = "send" => \A q \in Requests : op[q] # "none" => arg[q].c # a.c
        /\ o # "send" => SentAs(<<a.c, a.st>>)
        /\ \A q \in Requests : op[q] # "none" /\ arg[q].c = a.c => pc[q] \in Final
  BY BeginFacts
<1>2. /\ op[r] = "none" /\ pc[r] = "idle" /\ op'[r] = o /\ arg'[r] = a
      /\ pc'[r] = "check" /\ o # "none"
      /\ \A q \in Requests : q # r =>
           op'[q] = op[q] /\ arg'[q] = arg[q] /\ pc'[q] = pc[q]
  BY <1>1, StartFacts
<1>3. \A q \in Requests : Live(q) => op[q] # "none"
  BY DEF Live, IdleInv
<1>4. OneLive'
  BY <1>1, <1>2, <1>3 DEF OneLive, Live
<1>5. OneSend'
  BY <1>1, <1>2 DEF OneSend
<1>6. ASSUME NEW p \in Requests, NEW q \in Requests,
             op'[p] = "send", op'[q] \notin {"none", "send"}, arg'[p].c = arg'[q].c
      PROVE  pc'[p] = "done"
  <2>1. CASE p = r
    BY <1>1, <1>2, <1>6, <2>1
  <2>2. CASE p # r /\ q = r
    BY <1>1, <1>2, <1>6, <2>2 DEF OneSend, Final
  <2>3. CASE p # r /\ q # r
    BY <1>2, <1>6, <2>3 DEF AfterSend
  <2>4. QED
    BY <2>1, <2>2, <2>3
<1>7. QED
  BY <1>4, <1>5, <1>6 DEF AfterSend

LEMMA OrderOfMoves ==
  ASSUME IdleInv, OneLive, OneSend, AfterSend, NEW r \in Requests, Moves(r)
  PROVE  OneLive' /\ OneSend' /\ AfterSend'
<1>1. \A q \in Requests : Live(q)' => Live(q)
  BY DEF Moves, Live
<1>2. OneLive'
  BY <1>1 DEF OneLive, Moves
<1>3. OneSend'
  BY DEF OneSend, Moves
<1>4. AfterSend'
  BY DEF AfterSend, Moves, Final
<1>5. QED
  BY <1>2, <1>3, <1>4

-----------------------------------------------------------------------------
(* Every row is of a confession that was sent. *)

LEMMA KnownOfBegin ==
  ASSUME PatientClients, TypeOK, IdleInv, OneSend, Known, NEW r \in Requests, Begin(r)
  PROVE  Known'
<1>1. PICK o \in Chosen, a \in Args :
        Start(r, o, a) /\ (o # "send" => SentAs(<<a.c, a.st>>))
  BY BeginFacts
<1>2. /\ op[r] = "none" /\ op'[r] = o /\ arg'[r] = a /\ o # "none"
      /\ \A q \in Requests : q # r => op'[q] = op[q] /\ arg'[q] = arg[q]
      /\ UNCHANGED <<sent, unread, read>>
  BY <1>1, StartFacts
<1>3. \A k : SentAs(k) => SentAs(k)'
  BY <1>2 DEF SentAs, SentKey
<1>4. SentAs(SentKey(r))'
  BY <1>1, <1>2, <1>3 DEF SentAs, SentKey
<1>5. ASSUME NEW q \in Requests, q # r, op'[q] # "none" PROVE SentAs(SentKey(q))'
  BY <1>2, <1>3, <1>5 DEF Known, SentKey
<1>6. \A k \in Keys : sent'[k] # Absent \/ k \in unread' => SentAs(k)'
  BY <1>2, <1>3 DEF Known
<1>7. \A c \in Confessions, t \in Times : read'[<<c, t>>] # "none" =>
        \E q \in Requests : op'[q] \notin {"none", "send"} /\ arg'[q].c = c
  BY <1>2 DEF Known
<1>8. QED
  BY <1>4, <1>5, <1>6, <1>7 DEF Known, Absent

LEMMA KnownOfMoves ==
  ASSUME PatientClients, TypeOK, IdleInv, HandlerInv, Known, NEW r \in Requests, Moves(r),
         UNCHANGED tables \/ Statement(r)
  PROVE  Known'
<1>1. \A k : SentAs(k)' <=> SentAs(k)
  BY DEF SentAs, SentKey, Moves
<1>2. \A q \in Requests : SentKey(q)' = SentKey(q) /\ op'[q] = op[q] /\ arg'[q] = arg[q]
  BY DEF Moves, SentKey
<1>3. CASE UNCHANGED tables
  BY <1>1, <1>2, <1>3 DEF Known, tables, Absent
<1>4. CASE Statement(r)
  <2>1. /\ op[r] # "none" /\ SentKey(r) \in Keys /\ ReadKey(r) \in Keys
        /\ \A k \in Keys : k # SentKey(r) =>
             sent'[k] = sent[k] /\ (k \in unread' <=> k \in unread)
        /\ \A k \in Keys : k # ReadKey(r) \/ op[r] = "send" => read'[k] = read[k]
    BY <1>4, RowsOfStatement
  <2>2. \A q \in Requests : op'[q] # "none" => SentAs(SentKey(q))'
    BY <1>1, <1>2 DEF Known
  <2>3. \A k \in Keys : sent'[k] # Absent \/ k \in unread' => SentAs(k)'
    BY <1>1, <2>1 DEF Known
  <2>4. ASSUME NEW c \in Confessions, NEW t \in Times, read'[<<c, t>>] # "none"
        PROVE  \E q \in Requests : op'[q] \notin {"none", "send"} /\ arg'[q].c = c
    <3>1. CASE read[<<c, t>>] # "none"
      BY <1>2, <3>1 DEF Known
    <3>2. CASE read[<<c, t>>] = "none"
      BY <1>2, <2>1, <2>4, <3>2 DEF ReadKey, Keys
    <3>3. QED
      BY <3>1, <3>2
  <2>5. QED
    BY <2>2, <2>3, <2>4 DEF Known, Absent
<1>5. QED
  BY <1>3, <1>4

-----------------------------------------------------------------------------
(* What the live request finds. *)

LEMMA MidwayOfBegin ==
  ASSUME PatientClients, TypeOK, IdleInv, HandlerInv, OneSend, Known, Midway,
         NEW r \in Requests, Begin(r)
  PROVE  Midway'
<1>1. PICK o \in Chosen, a \in Args :
        /\ Start(r, o, a)
        /\ o = "send" => \A q \in Requests : op[q] # "none" => arg[q].c # a.c
  BY BeginFacts
<1>2. /\ op[r] = "none" /\ op'[r] = o /\ arg'[r] = a /\ pc'[r] = "check"
      /\ \A q \in Requests : q # r =>
           op'[q] = op[q] /\ arg'[q] = arg[q] /\ pc'[q] = pc[q]
      /\ UNCHANGED <<sent, unread, read>>
  BY <1>1, StartFacts
<1>3. ASSUME NEW q \in Requests, q # r PROVE MidwayOf(q)'
  <2>1. MidwayOf(q)
    BY DEF Midway
  <2>2. SentKey(q)' = SentKey(q) /\ ReadKey(q)' = ReadKey(q) /\ TimesBind(q)' = TimesBind(q)
    BY <1>2, <1>3 DEF SentKey, ReadKey, TimesBind
  <2>3. QED
    BY <1>2, <1>3, <2>1, <2>2 DEF MidwayOf, Absent, Decided
<1>4. MidwayOf(r)'
  <2>1. ASSUME o = "send" PROVE sent'[<<a.c, a.st>>] = Absent
    <3>1. ~SentAs(<<a.c, a.st>>)
      BY <1>1, <2>1 DEF SentAs, SentKey
    <3>2. QED
      BY <1>2, <3>1 DEF Known, Keys, Args
  <2>2. QED
    BY <1>2, <2>1 DEF MidwayOf, SentKey, ChatStages, Absent
<1>5. QED
  BY <1>3, <1>4 DEF Midway

\* A request that does not move keeps what it found: another one that moves is
\* of another confession, or it has ended.
LEMMA MidwayOfOthers ==
  ASSUME PatientClients, TypeOK, IdleInv, HandlerInv, OneLive, Midway,
         NEW r \in Requests, Moves(r), UNCHANGED tables \/ Statement(r),
         NEW q \in Requests, q # r
  PROVE  MidwayOf(q)'
<1>1. MidwayOf(q) /\ op'[q] = op[q] /\ pc'[q] = pc[q]
  BY DEF Midway, Moves
<1>2. SentKey(q)' = SentKey(q) /\ ReadKey(q)' = ReadKey(q) /\ TimesBind(q)' = TimesBind(q)
  BY DEF Moves, SentKey, ReadKey, TimesBind
<1>3. CASE ~Live(q)
  BY <1>1, <1>3 DEF MidwayOf, Live, Final, ChatStages
<1>4. CASE UNCHANGED tables
  BY <1>1, <1>2, <1>4 DEF MidwayOf, tables, Absent, Decided
<1>5. CASE Live(q) /\ Statement(r)
  <2>1. arg[q].c # arg[r].c
    BY <1>5, RowsOfStatement DEF OneLive
  <2>2. SentKey(q) # SentKey(r) /\ ReadKey(q) # ReadKey(r)
    BY <2>1 DEF SentKey, ReadKey
  <2>3. SentKey(q) \in Keys /\ ReadKey(q) \in Keys
    BY <1>5, StartedHasArg, KeysOfArgs DEF Live
  <2>4. /\ sent'[SentKey(q)] = sent[SentKey(q)] /\ read'[ReadKey(q)] = read[ReadKey(q)]
        /\ SentKey(q) \in unread' <=> SentKey(q) \in unread
    BY <1>5, <2>2, <2>3, RowsOfStatement
  <2>5. QED
    BY <1>1, <1>2, <2>4 DEF MidwayOf, Absent, Decided
<1>6. QED
  BY <1>3, <1>4, <1>5

\* The confession of a request that is not its send has a filled row.
LEMMA FullOfRequest ==
  ASSUME PatientClients, IdleInv, Known, AfterSend, StageInv, NEW r \in Requests,
         op[r] \notin {"none", "send"}
  PROVE  sent[SentKey(r)].full
<1>1. PICK p \in Requests : op[p] = "send" /\ SentKey(p) = SentKey(r)
  BY DEF Known, SentAs
<1>2. pc[p] = "done"
  BY <1>1 DEF AfterSend, SentKey
<1>3. sent[StoredKey(p)].full
  BY <1>1, <1>2 DEF StageInv, Stored, SentIs, OwnSentKey
<1>4. QED
  BY <1>1, <1>3, StoredIsSent DEF IdleInv

\* Where the live request of a confession is not midway, the tables agree.
LEMMA AgreeWhenNotMidway ==
  ASSUME PatientClients, IdleInv, Known, AfterSend, StageInv, OneLive, Agreement,
         NEW r \in Requests, op[r] \notin {"none", "send"}, Live(r), pc[r] \notin Mid
  PROVE  Agree(SentKey(r))
<1>1. sent[SentKey(r)].full /\ SentKey(r) \in Keys
  BY FullOfRequest, KeysOfArgs DEF IdleInv
<1>2. \A q \in Requests : pc[q] \in Mid => arg[q].c # SentKey(r)[1]
  BY DEF OneLive, Live, Mid, Final, SentKey
<1>3. QED
  BY <1>1, <1>2 DEF Agreement

\* Each statement leaves what the next one finds.
LEMMA MidwayOfStatement ==
  ASSUME PatientClients, TypeOK, IdleInv, HandlerInv, Agreement, AfterSend, Known, OneLive,
         StageInv, Midway, NEW r \in Requests, Statement(r)
  PROVE  MidwayOf(r)'
<1> USE DEF TypeOK
<1>1. Moves(r) /\ arg[r] \in Args /\ SentKey(r) \in Keys /\ ReadKey(r) \in Keys
  BY StatementMoves, RowsOfStatement
<1>2. SentKey(r)' = SentKey(r) /\ ReadKey(r)' = ReadKey(r) /\ TimesBind(r)' = TimesBind(r)
      /\ op'[r] = op[r] /\ StoredKey(r) = SentKey(r)
  BY <1>1, StoredIsSent DEF Moves, SentKey, ReadKey, TimesBind
<1>3. MidwayOf(r) /\ sent[SentKey(r)] \in SentRow
  BY <1>1 DEF Midway
<1> USE DEF MidwayOf, ChatStages, Go, tables
<1>4. CASE InsertSent(r)
  BY <1>1, <1>2, <1>4 DEF InsertSent
<1>5. CASE InsertUnread(r)
  BY <1>1, <1>2, <1>5 DEF InsertUnread
<1>6. CASE DeleteUnread(r)
  BY <1>1, <1>2, <1>6 DEF DeleteUnread
<1>7. CASE InsertRead(r)
  BY <1>1, <1>2, <1>3, <1>7 DEF InsertRead
<1>8. CASE UpdateSentRead(r)
  BY <1>1, <1>2, <1>8 DEF UpdateSentRead
<1>9. CASE SelectSent(r)
  BY <1>1, <1>2, <1>9 DEF SelectSent, StatusIsRead
<1>10. CASE SelectRead(r)
  BY <1>1, <1>2, <1>3, <1>10 DEF SelectRead
<1>11. CASE UpdateRead(r)
  <2>1. Agree(SentKey(r))
    BY <1>11, AgreeWhenNotMidway DEF UpdateRead, HandlerInv, DecideStages, Live, Final, Mid
  <2>2. SentKey(r) \notin unread
    BY <1>3, <1>11, <2>1 DEF UpdateRead, Agree
  <2>3. QED
    BY <1>1, <1>2, <1>3, <1>11, <2>2 DEF UpdateRead, Decided
<1>12. CASE UpdateSent(r)
  BY <1>1, <1>2, <1>3, <1>12 DEF UpdateSent, AfterVerdict, Decided, SentRow
<1>13. CASE InsertChatS(r)
  BY <1>1, <1>2, <1>3, <1>13 DEF InsertChatS
<1>14. CASE InsertChatC(r)
  BY <1>1, <1>2, <1>14 DEF InsertChatC
<1>15. QED
  BY <1>4, <1>5, <1>6, <1>7, <1>8, <1>9, <1>10, <1>11, <1>12, <1>13, <1>14
  DEF Statement

\* So does the skeleton, and a refused request has nothing left to find.
LEMMA MidwayOfSkeleton ==
  ASSUME TypeOK, IdleInv, HandlerInv, Midway, NEW r \in Requests, Skeleton(r)
  PROVE  MidwayOf(r)'
<1>1. Moves(r) /\ UNCHANGED tables /\ MidwayOf(r)
  BY SkeletonMoves DEF Midway
<1>2. SentKey(r)' = SentKey(r) /\ ReadKey(r)' = ReadKey(r) /\ TimesBind(r)' = TimesBind(r)
      /\ op'[r] = op[r]
  BY <1>1 DEF Moves, SentKey, ReadKey, TimesBind
<1>3. \/ pc'[r] = pc[r]
      \/ pc[r] = "check" /\ pc'[r] \in {"publish", FirstStatement(op[r])}
      \/ pc[r] = "publish" /\ pc'[r] = FirstStatement(op[r])
      \/ pc'[r] = "done"
  BY DEF TypeOK, Skeleton, CheckOnline, CheckOffline, Publish, Finish, SaveReturns
<1>4. QED
  BY <1>1, <1>2, <1>3
  DEF MidwayOf, FirstStatement, ChatStages, tables, Absent, Decided, HandlerInv

LEMMA MidwayOfStep ==
  ASSUME PatientClients, TypeOK, IdleInv, HandlerInv, StageInv, SInv, Spared, [Next]_vars
  PROVE  Midway'
<1>1. ASSUME NEW r \in Requests, Moves(r), UNCHANGED tables \/ Statement(r), MidwayOf(r)'
      PROVE  Midway'
  BY <1>1, MidwayOfOthers DEF SInv, Midway
<1>2. ASSUME NEW r \in Requests, Begin(r) PROVE Midway'
  BY <1>2, MidwayOfBegin DEF SInv
<1>3. ASSUME NEW r \in Requests, Statement(r) PROVE Midway'
  BY <1>1, <1>3, StatementMoves, MidwayOfStatement DEF SInv
<1>4. ASSUME NEW r \in Requests, Skeleton(r) PROVE Midway'
  BY <1>1, <1>4, SkeletonMoves, MidwayOfSkeleton DEF SInv
<1>5. ASSUME NEW r \in Requests, Refuse(r) PROVE Midway'
  <2>1. Moves(r) /\ UNCHANGED tables /\ pc'[r] \in {"failed", "killed"}
    BY <1>5, RefuseMoves, RefuseEndsOne DEF SInv
  <2>2. MidwayOf(r)'
    BY <2>1 DEF MidwayOf, ChatStages
  <2>3. QED
    BY <1>1, <2>1, <2>2
<1>6. CASE UNCHANGED vars
  BY <1>6 DEF SInv, vars, Midway, MidwayOf, SentKey, ReadKey, TimesBind, Absent, Decided
<1>7. QED
  BY <1>2, <1>3, <1>4, <1>5, <1>6, SerialSteps

-----------------------------------------------------------------------------
(* Agreement. *)

AgreementOf(k) ==
  sent[k].full /\ (\A q \in Requests : pc[q] \in Mid => arg[q].c # k[1]) => Agree(k)

\* A step that writes no row, and moves no request out of the middle of its
\* statements, keeps the agreement.
LEMMA AgreementKept ==
  ASSUME TypeOK, NEW k \in Keys, AgreementOf(k),
         sent'[k] = sent[k], k \in unread' <=> k \in unread,
         \A rt \in Times : read'[<<k[1], rt>>] = read[<<k[1], rt>>],
         (\E q \in Requests : pc[q] \in Mid /\ arg[q].c = k[1]) =>
            \E q \in Requests : pc'[q] \in Mid /\ arg'[q].c = k[1]
  PROVE  AgreementOf(k)'
BY DEF AgreementOf, Agree

\* The rows of a confession have one key in the sender's table.
LEMMA OneKey ==
  ASSUME Known, OneSend, NEW r \in Requests, op[r] # "none", NEW k \in Keys,
         sent[k].full, k[1] = arg[r].c
  PROVE  k = SentKey(r)
<1>1. sent[k] # Absent
  BY DEF Absent
<1>2. PICK p \in Requests : op[p] = "send" /\ SentKey(p) = k
  BY <1>1 DEF Known, SentAs
<1>3. PICK q \in Requests : op[q] = "send" /\ SentKey(q) = SentKey(r)
  BY DEF Known, SentAs
<1>4. p = q
  BY <1>2, <1>3 DEF OneSend, SentKey
<1>5. QED
  BY <1>2, <1>3, <1>4

\* What a statement leaves of its own confession: it is midway, or it agrees.
LEMMA AgreementOfStatement ==
  ASSUME PatientClients, TypeOK, IdleInv, HandlerInv, StageInv, SInv,
         NEW r \in Requests, Statement(r), pc'[r] \notin Mid
  PROVE  Agree(SentKey(r))'
<1> USE DEF TypeOK
<1>1. Moves(r) /\ arg[r] \in Args /\ SentKey(r) \in Keys /\ ReadKey(r) \in Keys /\ Live(r)
      /\ op[r] # "none"
  BY StatementMoves, RowsOfStatement
<1>2. SentKey(r)' = SentKey(r) /\ ReadKey(r)' = ReadKey(r)
      /\ op'[r] = op[r] /\ StoredKey(r) = SentKey(r) /\ SentKey(r)[1] = arg[r].c
      /\ ReadKey(r) = <<arg[r].c, arg[r].rt>> /\ arg[r].rt \in Times
  BY <1>1, StoredIsSent, KeysOfArgs DEF Moves, SentKey, ReadKey
<1>3. MidwayOf(r) /\ sent[SentKey(r)] \in SentRow
  BY <1>1 DEF SInv, Midway
<1>4. ASSUME UNCHANGED <<sent, unread, read>>, pc[r] \notin Mid, op[r] \notin {"none", "send"}
      PROVE  Agree(SentKey(r))'
  <2>1. Agree(SentKey(r))
    BY <1>1, <1>4, AgreeWhenNotMidway DEF SInv
  <2>2. QED
    BY <1>2, <1>4, <2>1 DEF Agree
<1> USE DEF Go, tables
<1>5. CASE InsertUnread(r)
  <2>1. op[r] = "send" /\ pc[r] = "insertUnread"
    BY <1>5 DEF InsertUnread, HandlerInv
  <2>2. \A rt \in Times : read[<<arg[r].c, rt>>] = "none"
    BY <1>1, <2>1, KeysOfArgs DEF SInv, Known, AfterSend
  <2>3. QED
    BY <1>1, <1>2, <1>3, <1>5, <2>1, <2>2 DEF InsertUnread, MidwayOf, Agree
<1>6. CASE UpdateSentRead(r)
  <2>1. sent'[SentKey(r)].status = "READ" /\ UNCHANGED <<unread, read>>
    BY <1>1, <1>3, <1>6 DEF UpdateSentRead, SentRow
  <2>2. SentKey(r) \notin unread /\ read[<<arg[r].c, arg[r].rt>>] = "READ"
    BY <1>2, <1>3, <1>6 DEF UpdateSentRead, MidwayOf
  <2>3. QED
    BY <1>2, <2>1, <2>2 DEF Agree
<1>7. CASE UpdateSent(r)
  <2>1. /\ sent'[SentKey(r)].status = Decided(op[r]) /\ Decided(op[r]) # "Sent"
        /\ UNCHANGED <<unread, read>>
    BY <1>1, <1>3, <1>7 DEF UpdateSent, SentRow, Decided
  <2>2. SentKey(r) \notin unread /\ read[<<arg[r].c, arg[r].rt>>] = Decided(op[r])
    BY <1>2, <1>3, <1>7 DEF UpdateSent, MidwayOf
  <2>3. QED
    BY <1>2, <2>1, <2>2 DEF Agree
<1>8. CASE SelectSent(r) \/ SelectRead(r) \/ InsertChatS(r) \/ InsertChatC(r)
  BY <1>4, <1>8 DEF SelectSent, SelectRead, InsertChatS, InsertChatC, HandlerInv,
     DecideStages, ChatStages, Mid
<1>9. CASE InsertSent(r) \/ DeleteUnread(r) \/ InsertRead(r) \/ UpdateRead(r)
  BY <1>9 DEF InsertSent, DeleteUnread, InsertRead, UpdateRead, Mid
<1>10. QED
  BY <1>5, <1>6, <1>7, <1>8, <1>9 DEF Statement

LEMMA AgreementOfStep ==
  ASSUME PatientClients, TypeOK, IdleInv, HandlerInv, StageInv, SInv, Spared, [Next]_vars
  PROVE  Agreement'
<1>0. \A k \in Keys : AgreementOf(k)
  BY DEF SInv, Agreement, AgreementOf
<1> SUFFICES ASSUME NEW k \in Keys PROVE AgreementOf(k)'
  BY DEF Agreement, AgreementOf, Agree
<1>1. ASSUME NEW r \in Requests, Begin(r) PROVE AgreementOf(k)'
  <2>1. PICK o \in Chosen, a \in Args : Start(r, o, a)
    BY <1>1, BeginStarts
  <2>2. /\ pc[r] = "idle" /\ UNCHANGED <<sent, unread, read>>
        /\ \A q \in Requests : q # r => arg'[q] = arg[q] /\ pc'[q] = pc[q]
    BY <2>1, StartFacts
  <2>3. QED
    BY <1>0, <2>2, AgreementKept DEF Mid
<1>2. ASSUME NEW r \in Requests, Statement(r) PROVE AgreementOf(k)'
  <2>1. /\ Moves(r) /\ arg[r] \in Args /\ op[r] # "none"
        /\ SentKey(r) \in Keys /\ ReadKey(r) \in Keys
        /\ \A j \in Keys : j # SentKey(r) =>
             sent'[j] = sent[j] /\ (j \in unread' <=> j \in unread)
        /\ \A j \in Keys : j # ReadKey(r) \/ op[r] = "send" => read'[j] = read[j]
    BY <1>2, StatementMoves, RowsOfStatement
  <2>2. SentKey(r)' = SentKey(r) /\ SentKey(r)[1] = arg[r].c /\ ReadKey(r)[1] = arg[r].c
    BY <2>1 DEF Moves, SentKey, ReadKey
  <2>3. CASE k[1] # arg[r].c
    <3>1. \A rt \in Times : <<k[1], rt>> \in Keys /\ <<k[1], rt>> # ReadKey(r)
      BY <2>2, <2>3 DEF Keys
    <3>2. \A q \in Requests : pc[q] \in Mid /\ arg[q].c = k[1] =>
                              pc'[q] \in Mid /\ arg'[q].c = k[1]
      BY <2>1, <2>3 DEF Moves
    <3>3. QED
      BY <1>0, <2>1, <2>2, <2>3, <3>1, <3>2, AgreementKept
  <2>4. CASE k[1] = arg[r].c /\ pc'[r] \in Mid
    BY <2>1, <2>4 DEF AgreementOf, Moves
  <2>5. CASE k[1] = arg[r].c /\ pc'[r] \notin Mid /\ sent'[k].full
    <3>1. k = SentKey(r)
      BY <2>1, <2>5, OneKey DEF SInv
    <3>2. QED
      BY <1>2, <2>2, <2>5, <3>1, AgreementOfStatement DEF AgreementOf, Agree
  <2>6. QED
    BY <2>3, <2>4, <2>5 DEF AgreementOf

<1>3. ASSUME NEW r \in Requests, Moves(r), UNCHANGED tables,
             pc'[r] = pc[r] \/ pc[r] \notin Mid
      PROVE  AgreementOf(k)'
  BY <1>0, <1>3, AgreementKept DEF Moves, tables
<1>4. ASSUME NEW r \in Requests, Skeleton(r) PROVE AgreementOf(k)'
  <2>1. pc'[r] = pc[r] \/ pc[r] \notin Mid
    BY <1>4 DEF TypeOK, Skeleton, CheckOnline, CheckOffline, Publish, Finish,
       SaveReturns, Mid
  <2>2. QED
    BY <1>3, <1>4, <2>1, SkeletonMoves
<1>5. ASSUME NEW r \in Requests, Refuse(r) PROVE AgreementOf(k)'
  <2>1. Moves(r) /\ UNCHANGED tables
    BY <1>5, RefuseMoves DEF SInv
  <2>2. pc[r] \notin Mid
    BY <1>5 DEF SInv, Midway, MidwayOf, Refuse, Refused, Mid
  <2>3. QED
    BY <1>3, <2>1, <2>2
<1>6. CASE UNCHANGED vars
  BY <1>0, <1>6, AgreementKept DEF vars
<1>7. QED
  BY <1>1, <1>2, <1>4, <1>5, <1>6, SerialSteps

-----------------------------------------------------------------------------
(* The tables agree. *)

LEMMA InitSInv == Init => SInv
BY DEF Init, SInv, OneLive, OneSend, Known, AfterSend, Midway, MidwayOf, Agreement,
   Live, Final, ChatStages, Absent, Keys

LEMMA StepSInv ==
  ASSUME PatientClients, IInv, SInv, Spared, [Next]_vars
  PROVE  SInv'
<1> USE DEF IInv
<1>1. ASSUME NEW r \in Requests, Moves(r), UNCHANGED tables \/ Statement(r)
      PROVE  OneLive' /\ OneSend' /\ AfterSend' /\ Known'
  BY <1>1, OrderOfMoves, KnownOfMoves DEF SInv
<1>2. ASSUME NEW r \in Requests, Begin(r)
      PROVE  OneLive' /\ OneSend' /\ AfterSend' /\ Known'
  BY <1>2, OrderOfBegin, KnownOfBegin DEF SInv
<1>3. ASSUME UNCHANGED vars PROVE OneLive' /\ OneSend' /\ AfterSend' /\ Known'
  BY <1>3 DEF SInv, vars, OneLive, OneSend, AfterSend, Known, Live, SentAs, SentKey, Absent
<1>4. OneLive' /\ OneSend' /\ AfterSend' /\ Known'
  BY <1>1, <1>2, <1>3, SerialSteps, StatementMoves, SkeletonMoves, RefuseMoves DEF SInv
<1>5. QED
  BY <1>4, MidwayOfStep, AgreementOfStep DEF SInv

LEMMA SerialInductive == PatientClients => (Spec /\ []Spared => [](IInv /\ SInv))
<1> SUFFICES ASSUME PatientClients PROVE Spec /\ []Spared => [](IInv /\ SInv)
  OBVIOUS
<1>1. Init => SInv
  BY InitSInv
<1>2. IInv /\ SInv /\ Spared /\ [Next]_vars => SInv'
  BY StepSInv
<1>3. QED
  BY <1>1, <1>2, Inductive, PTL DEF Spec

\* Between requests an inserted confession is in exactly the crush's table that
\* its status in the sender's says, with that status, when clients wait for each
\* request to be over, times are whole seconds, nothing fails and no refusal takes
\* the requests of other confessions with it.
THEOREM TablesAgreeAlways ==
  PatientClients => (Spec /\ []Spared => []TablesAgree)
<1> SUFFICES ASSUME PatientClients PROVE Spec /\ []Spared => []TablesAgree
  OBVIOUS
<1>1. IInv /\ SInv => TablesAgree
  <2> SUFFICES ASSUME IInv, SInv, NEW c \in Confessions, NEW t \in Times,
                      Quiet(c), sent[<<c, t>>].full
               PROVE  Agree(<<c, t>>)
    BY DEF TablesAgree, Agree
  <2>1. \A q \in Requests : pc[q] \in Mid => arg[q].c # c
    BY DEF Quiet, IInv, IdleInv, Live, Mid, Final
  <2>2. QED
    BY <2>1 DEF SInv, Agreement, Keys
<1>2. QED
  BY <1>1, SerialInductive, PTL

\* With one confession Spared always holds: a refusal has no request of another
\* confession to end, and the theorems above and those of ConfessionLifecycleProofs
\* need patient clients only.
THEOREM SparedOfOne ==
  (\A c, d \in Confessions : c = d) => (Spec => []Spared)
<1> SUFFICES ASSUME \A c, d \in Confessions : c = d PROVE Spec => []Spared
  OBVIOUS
<1>1. IInv => Spared
  <2> SUFFICES ASSUME IInv, NEW q \in Requests, NEW r \in Requests, Live(q), Refused(r)
               PROVE  arg[q].c = arg[r].c
    BY DEF Spared
  <2>0. Live(r)
    BY DEF Refused, Live, Final
  <2>1. arg[q] \in Args /\ arg[r] \in Args
    BY <2>0, StartedHasArg DEF IInv, Live
  <2>2. arg[q].c \in Confessions /\ arg[r].c \in Confessions
    BY <2>1, KeysOfArgs
  <2>3. QED
    BY <2>2
<1>2. QED
  BY <1>1, Inductive, PTL

=============================================================================
