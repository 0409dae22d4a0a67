---------------------- MODULE ConfessionLifecycleProofs ----------------------
(***************************************************************************)
(* In the circumstances of ConfessionSerialProofs, and with dates instead  *)
(* of text (createChat throws at text, after the verdict is written), the  *)
(* confession handlers implement the atomic ConfessionLifecycle: every     *)
(* step of a request is a step of its confession there or a stutter.  And  *)
(* an accepted confession has its chat once its requests are over.         *)
(*                                                                         *)
(* The safety part only: that an owed chat is opened is liveness.          *)
(***************************************************************************)
EXTENDS ConfessionSerialProofs, FiniteSetTheorems

\* Times arrive as dates.
Dates == Reprs \subseteq {"Date"}

\* A chat row is written once.
ChatOnce ==
  /\ IsFiniteSet(chatS)
  /\ \A r \in chatS : pc[r] \in {"insertChatC", "answer"} \cup Final

\* An acceptance has its chat, or its request is still opening it.
AcceptedHasOpener == \A k \in Keys : sent[k].status = "ACCEPTED" =>
  \E r \in Requests : /\ op[r] # "none" /\ arg[r].c = k[1]
                      /\ pc[r] \in ChatStages \/ r \in chatS \cap chatC

\* A filled row has a status.
FullHasStatus == \A k \in Keys : sent[k].full => sent[k].status # "none"

DInv == ChatOnce /\ AcceptedHasOpener /\ FullHasStatus

-----------------------------------------------------------------------------

\* createChat does not throw at a date.
LEMMA ChatsNotRefused ==
  ASSUME Dates, TypeOK, IdleInv, NEW r \in Requests, Refuse(r)
  PROVE  pc[r] \notin ChatStages
<1> SUFFICES ASSUME pc[r] \in ChatStages PROVE FALSE
  OBVIOUS
<1>1. arg[r] \in Args
  BY StartedHasArg DEF ChatStages
<1>2. HasISOString(r)
  BY <1>1 DEF Dates, HasISOString, Args
<1>3. QED
  BY <1>2 DEF Refuse, Refused, ChatStages

LEMMA ChatOnceStep ==
  ASSUME PatientClients, TypeOK, IdleInv, HandlerInv, OneLive, Spared, ChatOnce, [Next]_vars
  PROVE  ChatOnce'
<1> USE DEF ChatOnce
<1>1. ASSUME NEW r \in Requests, Begin(r) PROVE ChatOnce'
  <2>1. PICK o \in Chosen, a \in Args : Start(r, o, a)
    BY <1>1, BeginStarts
  <2>2. /\ pc[r] = "idle" /\ chatS' = chatS
        /\ \A q \in Requests : q # r => pc'[q] = pc[q]
    BY <2>1, StartFacts
  <2>3. QED
    BY <2>2 DEF TypeOK, Final
<1>2. ASSUME NEW r \in Requests, Moves(r), chatS' = chatS,
             pc[r] \in {"insertChatC", "answer"} \cup Final =>
               pc'[r] \in {"insertChatC", "answer"} \cup Final
      PROVE  ChatOnce'
  BY <1>2 DEF TypeOK, Moves
<1>3. ASSUME NEW r \in Requests, InsertChatS(r) PROVE ChatOnce'
  <2>1. chatS' = chatS \cup {r} /\ pc' = [pc EXCEPT ![r] = "insertChatC"]
    BY <1>3 DEF InsertChatS, Go
  <2>2. IsFiniteSet(chatS')
    BY <2>1, FS_AddElement
  <2>3. QED
    BY <2>1, <2>2 DEF TypeOK
<1>4. ASSUME NEW r \in Requests, Statement(r), ~InsertChatS(r) PROVE ChatOnce'
  <2>1. chatS' = chatS
    BY <1>4 DEF Statement, InsertSent, InsertUnread, DeleteUnread, InsertRead,
       UpdateSentRead, SelectSent, SelectRead, UpdateRead, UpdateSent,
       InsertChatC, tables
  <2>2. pc[r] \in {"insertChatC", "answer"} \cup Final => pc'[r] = "answer"
    BY <1>4 DEF TypeOK, Statement, InsertSent, InsertUnread, DeleteUnread,
       InsertRead, UpdateSentRead, SelectSent, SelectRead, UpdateRead, UpdateSent,
       InsertChatC, Go, Final
  <2>3. QED
    BY <1>2, <1>4, <2>1, <2>2, StatementMoves
<1>5. ASSUME NEW r \in Requests, Skeleton(r) PROVE ChatOnce'
  <2>1. Moves(r) /\ chatS' = chatS
    BY <1>5, SkeletonMoves DEF tables
  <2>2. pc[r] \in {"insertChatC", "answer"} \cup Final =>
          pc'[r] = pc[r] \/ pc'[r] = "done"
    BY <1>5 DEF TypeOK, Skeleton, CheckOnline, CheckOffline, Publish, Finish,
       SaveReturns, Final
  <2>3. QED
    BY <1>2, <2>1, <2>2 DEF Final
<1>6. ASSUME NEW r \in Requests, Refuse(r) PROVE ChatOnce'
  BY <1>2, <1>6, RefuseMoves, RefuseEndsOne DEF tables, Final
<1>7. CASE UNCHANGED vars
  BY <1>7 DEF vars
<1>8. QED
  BY <1>1, <1>3, <1>4, <1>5, <1>6, <1>7, SerialSteps

\* Nothing comes between an acceptance and its chat.
LEMMA OpenerStep ==
  ASSUME PatientClients, Dates, IInv, SInv, Spared, AcceptedHasOpener, [Next]_vars
  PROVE  AcceptedHasOpener'
<1> USE DEF IInv
<1>0. Grows
  BY StepGrows
<1>1. ASSUME NEW r \in Requests, op[r] # "none", r \in chatS \cap chatC
      PROVE  (op[r] # "none" /\ r \in chatS \cap chatC)' /\ arg'[r] = arg[r]
  BY <1>0, <1>1 DEF Grows
<1>2. ASSUME NEW r \in Requests, op[r] # "none", pc[r] \in ChatStages
      PROVE  /\ op'[r] # "none" /\ arg'[r] = arg[r]
             /\ pc'[r] \in ChatStages \/ r \in chatS' \cap chatC'
  <2>0. op'[r] # "none" /\ arg'[r] = arg[r]
    BY <1>0, <1>2 DEF Grows
  <2>1. ASSUME NEW q \in Requests, Begin(q) PROVE pc'[r] = pc[r]
    BY <1>2, <2>1, BeginStarts, StartFacts
  <2>2. ASSUME NEW q \in Requests, q # r, Moves(q) PROVE pc'[r] = pc[r]
    BY <2>2 DEF Moves
  <2>3. ASSUME Statement(r) PROVE pc'[r] \in ChatStages \/ r \in chatS' \cap chatC'
    <3>1. InsertChatS(r) \/ InsertChatC(r)
      BY <1>2, <2>3 DEF Statement, InsertSent, InsertUnread, DeleteUnread,
         InsertRead, UpdateSentRead, SelectSent, SelectRead, UpdateRead,
         UpdateSent, Go, ChatStages
    <3>2. QED
      BY <3>1 DEF InsertChatS, InsertChatC, Go, TypeOK, ChatStages, StageInv
  <2>4. ASSUME Skeleton(r) PROVE pc'[r] = pc[r]
    BY <1>2, <2>4 DEF Skeleton, CheckOnline, CheckOffline, Publish, Finish,
       SaveReturns, ChatStages
  <2>5. ~Refuse(r)
    BY <1>2, ChatsNotRefused
  <2>6. CASE UNCHANGED vars
    BY <1>2, <2>0, <2>6 DEF vars
  <2>7. QED
    BY <1>2, <2>0, <2>1, <2>2, <2>3, <2>4, <2>5, <2>6, SerialSteps, StatementMoves,
       SkeletonMoves, RefuseMoves DEF SInv
<1> SUFFICES ASSUME NEW k \in Keys, sent'[k].status = "ACCEPTED"
             PROVE  \E r \in Requests : /\ op'[r] # "none" /\ arg'[r].c = k[1]
                                        /\ pc'[r] \in ChatStages \/ r \in chatS' \cap chatC'
  BY DEF AcceptedHasOpener
<1>3. CASE sent[k].status = "ACCEPTED"
  BY <1>1, <1>2, <1>3 DEF AcceptedHasOpener
<1>4. CASE sent[k].status # "ACCEPTED"
  <2>1. PICK r \in Requests : Statement(r)
    BY <1>4, TableSteps DEF tables
  <2>2. /\ arg[r] \in Args /\ SentKey(r) \in Keys /\ op[r] # "none" /\ k = SentKey(r)
        /\ StoredKey(r) = SentKey(r) /\ sent[SentKey(r)] \in SentRow
    BY <1>4, <2>1, RowsOfStatement, StoredIsSent DEF TypeOK
  <2>3. UpdateSent(r) /\ Decided(op[r]) = "ACCEPTED"
    BY <1>4, <2>1, <2>2 DEF TypeOK, SentRow, Statement, InsertSent, InsertUnread,
       DeleteUnread, InsertRead, UpdateSentRead, SelectSent, SelectRead,
       UpdateRead, UpdateSent, InsertChatS, InsertChatC, tables
  <2>4. pc'[r] \in ChatStages
    BY <2>3 DEF UpdateSent, Go, TypeOK, Decided, AfterVerdict, ChatStages
  <2>5. op'[r] # "none" /\ arg'[r] = arg[r] /\ arg[r].c = k[1]
    BY <1>0, <2>2 DEF Grows, SentKey
  <2>6. QED
    BY <2>4, <2>5
<1>5. QED
  BY <1>3, <1>4

LEMMA FullHasStatusStep ==
  ASSUME TypeOK, IdleInv, HandlerInv, FullHasStatus, [Next]_vars
  PROVE  FullHasStatus'
<1>1. Grows
  BY StepGrows
<1>2. ASSUME NEW k \in Keys, sent'[k].full, ~sent[k].full
      PROVE  sent'[k].status # "none"
  <2>1. PICK r \in Requests : Statement(r)
    BY <1>2, TableSteps DEF tables
  <2>2. SentKey(r) \in Keys /\ StoredKey(r) \in Keys /\ sent[k] \in SentRow
    BY <2>1, StatementFacts DEF TypeOK
  <2>3. InsertSent(r)
    BY <1>2, <2>1, <2>2 DEF TypeOK, SentRow, Statement, InsertUnread, DeleteUnread,
       InsertRead, UpdateSentRead, SelectSent, SelectRead, UpdateRead, UpdateSent,
       InsertChatS, InsertChatC, tables
  <2>4. QED
    BY <1>2, <2>2, <2>3 DEF InsertSent, TypeOK
<1>3. QED
  BY <1>1, <1>2 DEF FullHasStatus, Grows

LEMMA InitDInv == Init => DInv
BY FS_EmptySet DEF Init, DInv, ChatOnce, AcceptedHasOpener, FullHasStatus, Absent, Keys

LEMMA SafeInductive ==
  PatientClients /\ Dates => (Spec /\ []Spared => [](IInv /\ SInv /\ DInv))
<1> SUFFICES ASSUME PatientClients, Dates
             PROVE  Spec /\ []Spared => [](IInv /\ SInv /\ DInv)
  OBVIOUS
<1>1. Init => DInv
  BY InitDInv
<1>2. IInv /\ SInv /\ Spared /\ DInv /\ [Next]_vars => DInv'
  BY ChatOnceStep, OpenerStep, FullHasStatusStep DEF DInv, IInv, SInv
<1>3. QED
  BY <1>1, <1>2, SerialInductive, PTL DEF Spec

\* An accepted confession has a chat that both sides hold, once its requests are
\* over: without faults, for patient clients, dates, and refusals that end no other
\* confession's requests.  Clients that do not wait can lose it.
THEOREM AcceptedHasChatAlways ==
  PatientClients /\ Dates => (Spec /\ []Spared => []AcceptedHasChat)
<1> SUFFICES ASSUME PatientClients, Dates PROVE Spec /\ []Spared => []AcceptedHasChat
  OBVIOUS
<1>1. IInv /\ DInv => AcceptedHasChat
  BY DEF AcceptedHasChat, IInv, DInv, AcceptedHasOpener, Quiet, Live, Final,
     ChatStages, Keys
<1>2. QED
  BY <1>1, SafeInductive, PTL

-----------------------------------------------------------------------------
(* The refinement mapping, by parts. *)

\* StatusOf, of any table.
StatusIn(f, c) ==
  LET filled == {t \in Times : f[<<c, t>>].full}
  IN  IF filled = {} THEN "none" ELSE f[<<c, CHOOSE t \in filled : TRUE>>].status

Owed(c) == \E r \in Requests : pc[r] = "insertChatS" /\ arg[r].c = c

ChatsOf(c) == Cardinality({r \in chatS : arg[r].c = c})

LEMMA StatusOfOne ==
  ASSUME NEW f, NEW c, NEW t \in Times, f[<<c, t>>].full,
         \A u \in Times : f[<<c, u>>].full => u = t
  PROVE  StatusIn(f, c) = f[<<c, t>>].status
<1> DEFINE filled == {u \in Times : f[<<c, u>>].full}
<1>1. filled = {t}
  OBVIOUS
<1>2. (CHOOSE u \in filled : TRUE) = t
  BY <1>1
<1>3. QED
  BY <1>1, <1>2 DEF StatusIn

LEMMA StatusOfNone ==
  ASSUME NEW f, NEW c, \A u \in Times : ~f[<<c, u>>].full
  PROVE  StatusIn(f, c) = "none"
<1> DEFINE filled == {u \in Times : f[<<c, u>>].full}
<1>1. filled = {}
  OBVIOUS
<1>2. QED
  BY <1>1 DEF StatusIn

LEMMA StatusOfSame ==
  ASSUME NEW f, NEW g, NEW c, \A u \in Times : f[<<c, u>>] = g[<<c, u>>]
  PROVE  StatusIn(f, c) = StatusIn(g, c)
<1>1. {u \in Times : f[<<c, u>>].full} = {u \in Times : g[<<c, u>>].full}
  OBVIOUS
<1> DEFINE filled == {u \in Times : f[<<c, u>>].full}
<1>2. filled # {} => (CHOOSE u \in filled : TRUE) \in Times
  OBVIOUS
<1>3. QED
  BY <1>1, <1>2 DEF StatusIn

\* Where the three parts stay, or move at one confession, the mapped step is a
\* stutter or the lifecycle's step of that name.
PartsStay(d) == /\ StatusOf(d)' = StatusOf(d)
                /\ Owed(d)' <=> Owed(d)
                /\ ChatsOf(d)' = ChatsOf(d)

LEMMA MapsToStutter ==
  ASSUME \A d \in Confessions : PartsStay(d)
  PROVE  UNCHANGED Lifecycle!lvars
BY DEF PartsStay, Lifecycle!lvars, Owed, ChatsOf

LEMMA MapsToSend ==
  ASSUME NEW c \in Confessions, \A d \in Confessions : d # c => PartsStay(d),
         StatusOf(c) = "none", StatusOf(c)' = "Sent",
         Owed(c)' <=> Owed(c), ChatsOf(c)' = ChatsOf(c)
  PROVE  Lifecycle!Send(c)
<1>1. [d \in Confessions |-> StatusOf(d)]' =
      [[d \in Confessions |-> StatusOf(d)] EXCEPT ![c] = "Sent"]
  BY DEF PartsStay
<1>2. [d \in Confessions |-> Owed(d)]' =
      [d \in Confessions |-> Owed(d)]
  BY DEF PartsStay, Owed
<1>3. [d \in Confessions |-> ChatsOf(d)]' =
      [d \in Confessions |-> ChatsOf(d)]
  BY DEF PartsStay
<1>4. QED
  BY <1>1, <1>2, <1>3 DEF Lifecycle!Send, Owed, ChatsOf

LEMMA MapsToRead ==
  ASSUME NEW c \in Confessions, \A d \in Confessions : d # c => PartsStay(d),
         StatusOf(c) # "none", StatusOf(c)' = "READ",
         ~Owed(c), ~Owed(c)', ChatsOf(c)' = ChatsOf(c)
  PROVE  Lifecycle!Read(c)
<1>1. [d \in Confessions |-> StatusOf(d)]' =
      [[d \in Confessions |-> StatusOf(d)] EXCEPT ![c] = "READ"]
  BY DEF PartsStay
<1>2. [d \in Confessions |-> Owed(d)]' =
      [d \in Confessions |-> Owed(d)]
  BY DEF PartsStay, Owed
<1>3. [d \in Confessions |-> ChatsOf(d)]' =
      [d \in Confessions |-> ChatsOf(d)]
  BY DEF PartsStay
<1>4. QED
  BY <1>1, <1>2, <1>3 DEF Lifecycle!Read, Owed, ChatsOf

LEMMA MapsToReject ==
  ASSUME NEW c \in Confessions, \A d \in Confessions : d # c => PartsStay(d),
         StatusOf(c) = "READ", StatusOf(c)' = "REJECTED",
         ~Owed(c), ~Owed(c)', ChatsOf(c)' = ChatsOf(c)
  PROVE  Lifecycle!Reject(c)
<1>1. [d \in Confessions |-> StatusOf(d)]' =
      [[d \in Confessions |-> StatusOf(d)] EXCEPT ![c] = "REJECTED"]
  BY DEF PartsStay
<1>2. [d \in Confessions |-> Owed(d)]' =
      [d \in Confessions |-> Owed(d)]
  BY DEF PartsStay, Owed
<1>3. [d \in Confessions |-> ChatsOf(d)]' =
      [d \in Confessions |-> ChatsOf(d)]
  BY DEF PartsStay
<1>4. QED
  BY <1>1, <1>2, <1>3 DEF Lifecycle!Reject, Owed, ChatsOf

LEMMA MapsToAccept ==
  ASSUME NEW c \in Confessions, \A d \in Confessions : d # c => PartsStay(d),
         StatusOf(c) = "READ", StatusOf(c)' = "ACCEPTED",
         Owed(c)', ChatsOf(c)' = ChatsOf(c)
  PROVE  Lifecycle!Accept(c)
<1>1. [d \in Confessions |-> StatusOf(d)]' =
      [[d \in Confessions |-> StatusOf(d)] EXCEPT ![c] = "ACCEPTED"]
  BY DEF PartsStay
<1>2. [d \in Confessions |-> Owed(d)]' =
      [[d \in Confessions |-> Owed(d)] EXCEPT ![c] = TRUE]
  <2>1. ASSUME NEW d \in Confessions
        PROVE  Owed(d)' = IF d = c THEN TRUE ELSE Owed(d)
    BY <2>1 DEF PartsStay, Owed
  <2>2. QED
    BY <2>1, Zenon
<1>3. [d \in Confessions |-> ChatsOf(d)]' =
      [d \in Confessions |-> ChatsOf(d)]
  BY DEF PartsStay
<1>4. QED
  BY <1>1, <1>2, <1>3 DEF Lifecycle!Accept, Owed, ChatsOf

LEMMA MapsToOpenChat ==
  ASSUME NEW c \in Confessions, \A d \in Confessions : d # c => PartsStay(d),
         StatusOf(c) = "ACCEPTED", StatusOf(c)' = "ACCEPTED",
         Owed(c), ~Owed(c)', ChatsOf(c)' = ChatsOf(c) + 1
  PROVE  Lifecycle!OpenChat(c)
<1>1. [d \in Confessions |-> StatusOf(d)]' =
      [d \in Confessions |-> StatusOf(d)]
  BY DEF PartsStay
<1>2. [d \in Confessions |-> Owed(d)]' =
      [[d \in Confessions |-> Owed(d)] EXCEPT ![c] = FALSE]
  <2>1. ASSUME NEW d \in Confessions
        PROVE  Owed(d)' = IF d = c THEN FALSE ELSE Owed(d)
    BY <2>1 DEF PartsStay, Owed
  <2>2. QED
    BY <2>1, Zenon
<1>3. [d \in Confessions |-> ChatsOf(d)]' =
      [[d \in Confessions |-> ChatsOf(d)] EXCEPT ![c] = @ + 1]
  BY DEF PartsStay
<1>4. QED
  BY <1>1, <1>2, <1>3 DEF Lifecycle!OpenChat, Owed, ChatsOf

-----------------------------------------------------------------------------
(* How a step moves the three parts. *)

\* The sender's row of a request's confession is the status of that confession,
\* before and after a statement.
LEMMA StatusBefore ==
  ASSUME Known, OneSend, NEW r \in Requests, op[r] # "none", arg[r] \in Args,
         sent[SentKey(r)].full
  PROVE  StatusOf(arg[r].c) = sent[SentKey(r)].status
<1>1. arg[r].st \in Times /\ SentKey(r) = <<arg[r].c, arg[r].st>> /\ arg[r].c \in Confessions
  BY DEF Args, SentKey
<1>2. \A u \in Times : sent[<<arg[r].c, u>>].full => u = arg[r].st
  BY <1>1, OneKey DEF Keys
<1>3. QED
  BY <1>1, <1>2, StatusOfOne DEF StatusOf, StatusIn

LEMMA StatusAfter ==
  ASSUME PatientClients, TypeOK, IdleInv, HandlerInv, Known, OneSend,
         NEW r \in Requests, Statement(r), NEW c, c = arg[r].c, sent'[SentKey(r)].full
  PROVE  StatusOf(c)' = sent'[SentKey(r)].status
<1>1. arg[r].st \in Times /\ SentKey(r) = <<arg[r].c, arg[r].st>> /\ arg[r].c \in Confessions
      /\ op[r] # "none" /\ arg'[r] = arg[r]
  BY RowsOfStatement, StatementMoves DEF Args, SentKey, Moves
<1>2. \A u \in Times : sent'[<<arg[r].c, u>>].full => u = arg[r].st
  BY <1>1, RowsOfStatement, OneKey DEF Keys
<1>3. StatusIn(sent', arg[r].c) = sent'[SentKey(r)].status
  BY <1>1, <1>2, StatusOfOne
<1>4. QED
  BY <1>1, <1>3 DEF StatusOf, StatusIn

\* Another confession's status stays.
LEMMA StatusOfOthers ==
  ASSUME PatientClients, TypeOK, IdleInv, HandlerInv, NEW r \in Requests, Statement(r),
         NEW d \in Confessions, d # arg[r].c
  PROVE  StatusOf(d)' = StatusOf(d)
<1>1. \A u \in Times : sent'[<<d, u>>] = sent[<<d, u>>]
  BY RowsOfStatement DEF Keys, SentKey
<1>2. StatusIn(sent', d) = StatusIn(sent, d)
  BY <1>1, StatusOfSame
<1>3. QED
  BY <1>2 DEF StatusOf, StatusIn

\* A chat is owed where the live request of the confession is about to open it.
LEMMA OwedOfStatement ==
  ASSUME OneLive, NEW r \in Requests, Moves(r), Live(r), NEW c, c = arg[r].c
  PROVE  /\ \A d \in Confessions : d # c => (Owed(d)' <=> Owed(d))
         /\ Owed(c) <=> pc[r] = "insertChatS"
         /\ Owed(c)' <=> pc'[r] = "insertChatS"
<1>1. \A q \in Requests : q # r /\ arg[q].c = arg[r].c => pc[q] # "insertChatS"
  BY DEF OneLive, Live, Final
<1>2. Owed(c) <=> pc[r] = "insertChatS"
  BY <1>1 DEF Owed
<1>3. \A d \in Confessions : d # c => (Owed(d)' <=> Owed(d))
  BY DEF Owed, Moves
<1>4. Owed(c)' <=> pc'[r] = "insertChatS"
  BY <1>1 DEF Owed, Moves
<1>5. QED
  BY <1>2, <1>3, <1>4

LEMMA OwedSame ==
  ASSUME NEW r \in Requests, Moves(r), pc'[r] = "insertChatS" <=> pc[r] = "insertChatS",
         NEW d
  PROVE  Owed(d)' <=> Owed(d)
BY DEF Owed, Moves

\* Only insertChatS writes the sender's chat rows.
LEMMA ChatsOfOpen ==
  ASSUME ChatOnce, NEW r \in Requests, InsertChatS(r), NEW d
  PROVE  ChatsOf(d)' = IF d = arg[r].c THEN ChatsOf(d) + 1 ELSE ChatsOf(d)
<1>1. r \notin chatS /\ chatS' = chatS \cup {r} /\ arg' = arg
  BY DEF ChatOnce, InsertChatS, Go, client, Final
<1> DEFINE S == {q \in chatS : arg[q].c = d}
<1>2. IsFiniteSet(S)
  BY FS_Subset DEF ChatOnce
<1>3. CASE d = arg[r].c
  <2>1. {q \in chatS' : arg'[q].c = d} = S \cup {r}
    BY <1>1, <1>3
  <2>2. Cardinality(S \cup {r}) = Cardinality(S) + 1
    BY <1>1, <1>2, FS_AddElement
  <2>3. QED
    BY <1>3, <2>1, <2>2 DEF ChatsOf
<1>4. CASE d # arg[r].c
  <2>1. {q \in chatS' : arg'[q].c = d} = S
    BY <1>1, <1>4
  <2>2. QED
    BY <1>4, <2>1 DEF ChatsOf
<1>5. QED
  BY <1>3, <1>4

-----------------------------------------------------------------------------
(* The refinement. *)

LifecycleStep == Lifecycle!LifecycleNext \/ UNCHANGED Lifecycle!lvars

\* A step that writes neither table of the mapping, and opens no acceptance, is
\* a stutter.
LEMMA OtherStepsStutter ==
  ASSUME NEW r \in Requests, Moves(r), sent' = sent, chatS' = chatS,
         pc'[r] = "insertChatS" <=> pc[r] = "insertChatS"
  PROVE  LifecycleStep
<1>1. ASSUME NEW d \in Confessions PROVE PartsStay(d)
  <2>1. StatusOf(d)' = StatusOf(d)
    BY DEF StatusOf
  <2>2. Owed(d)' <=> Owed(d)
    BY OwedSame
  <2>3. ChatsOf(d)' = ChatsOf(d)
    BY DEF ChatsOf, Moves
  <2>4. QED
    BY <2>1, <2>2, <2>3 DEF PartsStay
<1>2. QED
  BY <1>1, MapsToStutter DEF LifecycleStep

\* A request that starts moves nothing: it has no chat and owes none.
LEMMA BeginStutters ==
  ASSUME TypeOK, IdleInv, ChatOnce, NEW r \in Requests, Begin(r)
  PROVE  LifecycleStep
<1>1. PICK o \in Chosen, a \in Args : Start(r, o, a)
  BY BeginStarts
<1>2. /\ pc[r] = "idle" /\ pc'[r] = "check" /\ UNCHANGED <<sent, chatS>>
      /\ \A q \in Requests : q # r => arg'[q] = arg[q] /\ pc'[q] = pc[q]
  BY <1>1, StartFacts
<1>3. ASSUME NEW d \in Confessions PROVE PartsStay(d)
  <2>1. StatusOf(d)' = StatusOf(d)
    BY <1>2 DEF StatusOf
  <2>2. Owed(d)' <=> Owed(d)
    BY <1>2 DEF Owed
  <2>3. {q \in chatS' : arg'[q].c = d} = {q \in chatS : arg[q].c = d}
    BY <1>2 DEF ChatOnce, Final, TypeOK
  <2>4. QED
    BY <2>1, <2>2, <2>3 DEF PartsStay, ChatsOf
<1>4. QED
  BY <1>3, MapsToStutter DEF LifecycleStep

\* Each statement is its step of the lifecycle, or none.
LEMMA StatementMaps ==
  ASSUME PatientClients, IInv, SInv, DInv, NEW r \in Requests, Statement(r)
  PROVE  LifecycleStep
<1> USE DEF IInv, SInv, DInv
<1>1. /\ arg[r] \in Args /\ SentKey(r) \in Keys /\ Live(r) /\ op[r] # "none" /\ Moves(r)
      /\ StoredKey(r) = SentKey(r) /\ sent[SentKey(r)] \in SentRow /\ MidwayOf(r)
  BY RowsOfStatement, StatementMoves, StoredIsSent DEF TypeOK, Midway
<1>2. PICK c \in Confessions : c = arg[r].c
  BY <1>1 DEF Args
<1>3. \A d \in Confessions : d # c => StatusOf(d)' = StatusOf(d) /\ (Owed(d)' <=> Owed(d))
  BY <1>1, <1>2, StatusOfOthers, OwedOfStatement
<1>4. Owed(c) <=> pc[r] = "insertChatS"
  BY <1>1, <1>2, OwedOfStatement
<1>5. Owed(c)' <=> pc'[r] = "insertChatS"
  BY <1>1, <1>2, OwedOfStatement
<1>6. sent'[SentKey(r)].full => StatusOf(c)' = sent'[SentKey(r)].status
  BY <1>2, StatusAfter
<1>7. sent[SentKey(r)].full => StatusOf(c) = sent[SentKey(r)].status
  BY <1>1, <1>2, StatusBefore
<1>8. op[r] # "send" => sent[SentKey(r)].full
  BY <1>1, FullOfRequest
<1>9. ASSUME chatS' = chatS, NEW d \in Confessions PROVE ChatsOf(d)' = ChatsOf(d)
  BY <1>1, <1>9 DEF ChatsOf, Moves
<1>10. ASSUME chatS' = chatS PROVE \A d \in Confessions : d # c => PartsStay(d)
  BY <1>3, <1>9, <1>10 DEF PartsStay
<1>11. CASE InsertSent(r)
  <2>1. pc[r] = "insertSent" /\ pc'[r] = "insertUnread" /\ chatS' = chatS /\ op[r] = "send"
    BY <1>11 DEF InsertSent, Go, TypeOK, HandlerInv
  <2>2. sent'[SentKey(r)] = [status |-> "Sent", full |-> TRUE]
    BY <1>1, <1>11 DEF InsertSent, TypeOK
  <2>3. StatusOf(c) = "none"
    <3>1. sent[SentKey(r)] = Absent
      BY <1>1, <2>1 DEF MidwayOf
    <3>2. \A u \in Times : ~sent[<<c, u>>].full
      BY <1>1, <1>2, <3>1, OneKey DEF Keys, Absent
    <3>3. QED
      BY <3>2, StatusOfNone DEF StatusOf, StatusIn
  <2>4. Lifecycle!Send(c)
    BY <1>4, <1>5, <1>6, <1>9, <1>10, <2>1, <2>2, <2>3, MapsToSend
  <2>5. QED
    BY <2>4 DEF LifecycleStep, Lifecycle!LifecycleNext
<1>12. CASE UpdateSentRead(r)
  <2>1. pc[r] = "updateSentRead" /\ pc'[r] = "answer" /\ chatS' = chatS /\ op[r] = "read"
    BY <1>12 DEF UpdateSentRead, Go, TypeOK, HandlerInv, ReadStages
  <2>2. sent'[SentKey(r)].status = "READ" /\ sent'[SentKey(r)].full = sent[SentKey(r)].full
    BY <1>1, <1>12 DEF UpdateSentRead, TypeOK, SentRow
  <2>3. StatusOf(c) # "none"
    BY <1>1, <1>7, <1>8, <2>1 DEF FullHasStatus
  <2>4. Lifecycle!Read(c)
    BY <1>4, <1>5, <1>6, <1>8, <1>9, <1>10, <2>1, <2>2, <2>3, MapsToRead
  <2>5. QED
    BY <2>4 DEF LifecycleStep, Lifecycle!LifecycleNext

<1>13. CASE UpdateSent(r)
  <2>1. /\ pc[r] = "updateSent" /\ pc'[r] = AfterVerdict(op[r]) /\ chatS' = chatS
        /\ op[r] \in {"accept", "reject"}
    BY <1>13 DEF UpdateSent, Go, TypeOK, HandlerInv, DecideStages
  <2>2. /\ sent'[SentKey(r)].status = Decided(op[r])
        /\ sent'[SentKey(r)].full = sent[SentKey(r)].full
    BY <1>1, <1>13 DEF UpdateSent, TypeOK, SentRow
  <2>3. StatusOf(c) = "READ"
    BY <1>1, <1>7, <1>8, <2>1 DEF MidwayOf
  <2>4. StatusOf(c)' = Decided(op[r])
    BY <1>6, <1>8, <2>1, <2>2
  <2>5. CASE op[r] = "accept"
    <3>1. Owed(c)'
      BY <1>5, <2>1, <2>5 DEF AfterVerdict
    <3>2. Lifecycle!Accept(c)
      BY <1>9, <1>10, <2>1, <2>3, <2>4, <2>5, <3>1, MapsToAccept DEF Decided
    <3>3. QED
      BY <3>2 DEF LifecycleStep, Lifecycle!LifecycleNext
  <2>6. CASE op[r] = "reject"
    <3>1. ~Owed(c) /\ ~Owed(c)'
      BY <1>4, <1>5, <2>1, <2>6 DEF AfterVerdict
    <3>2. Lifecycle!Reject(c)
      BY <1>9, <1>10, <2>1, <2>3, <2>4, <2>6, <3>1, MapsToReject DEF Decided
    <3>3. QED
      BY <3>2 DEF LifecycleStep, Lifecycle!LifecycleNext
  <2>7. QED
    BY <2>1, <2>5, <2>6
<1>14. CASE InsertChatS(r)
  <2>1. pc[r] = "insertChatS" /\ pc'[r] = "insertChatC" /\ sent' = sent /\ op[r] = "accept"
    BY <1>14 DEF InsertChatS, Go, TypeOK, HandlerInv, ChatStages
  <2>2. \A d \in Confessions :
          ChatsOf(d)' = IF d = c THEN ChatsOf(d) + 1 ELSE ChatsOf(d)
    BY <1>2, <1>14, ChatsOfOpen
  <2>3. StatusOf(c) = "ACCEPTED"
    BY <1>1, <1>7, <1>8, <2>1 DEF MidwayOf, ChatStages
  <2>4. StatusOf(c)' = StatusOf(c)
    BY <2>1 DEF StatusOf
  <2>5. \A d \in Confessions : d # c => PartsStay(d)
    BY <1>3, <2>2 DEF PartsStay
  <2>6. Lifecycle!OpenChat(c)
    BY <1>4, <1>5, <2>1, <2>2, <2>3, <2>4, <2>5, MapsToOpenChat
  <2>7. QED
    BY <2>6 DEF LifecycleStep, Lifecycle!LifecycleNext
<1>15. CASE \/ InsertUnread(r) \/ DeleteUnread(r) \/ InsertRead(r) \/ SelectSent(r)
            \/ SelectRead(r) \/ UpdateRead(r) \/ InsertChatC(r)
  <2>1. /\ sent' = sent /\ chatS' = chatS
        /\ pc'[r] # "insertChatS" /\ pc[r] # "insertChatS"
    BY <1>15 DEF InsertUnread, DeleteUnread, InsertRead, SelectSent, SelectRead,
       UpdateRead, InsertChatC, Go, tables, TypeOK
  <2>2. QED
    BY <1>1, <2>1, OtherStepsStutter
<1>16. QED
  BY <1>11, <1>12, <1>13, <1>14, <1>15 DEF Statement

LEMMA EveryStepMaps ==
  ASSUME PatientClients, Dates, IInv, SInv, DInv, Spared, [Next]_vars
  PROVE  LifecycleStep
<1> USE DEF IInv, SInv, DInv
<1>1. ASSUME NEW r \in Requests, Begin(r) PROVE LifecycleStep
  BY <1>1, BeginStutters
<1>2. ASSUME NEW r \in Requests, Statement(r) PROVE LifecycleStep
  BY <1>2, StatementMaps
<1>3. ASSUME NEW r \in Requests, Skeleton(r) PROVE LifecycleStep
  <2>1. pc'[r] = "insertChatS" <=> pc[r] = "insertChatS"
    BY <1>3 DEF TypeOK, Skeleton, CheckOnline, CheckOffline, Publish, Finish,
       SaveReturns, FirstStatement
  <2>2. QED
    BY <1>3, <2>1, SkeletonMoves, OtherStepsStutter DEF tables
<1>4. ASSUME NEW r \in Requests, Refuse(r) PROVE LifecycleStep
  <2>1. pc[r] # "insertChatS" /\ pc'[r] # "insertChatS"
    BY <1>4, ChatsNotRefused, RefuseEndsOne DEF ChatStages
  <2>2. QED
    BY <1>4, <2>1, RefuseMoves, OtherStepsStutter DEF tables
<1>5. CASE UNCHANGED vars
  <2>1. UNCHANGED Lifecycle!lvars
    BY <1>5, MapsToStutter DEF vars, PartsStay, StatusOf, Owed, ChatsOf
  <2>2. QED
    BY <2>1 DEF LifecycleStep
<1>6. QED
  BY <1>1, <1>2, <1>3, <1>4, <1>5, SerialSteps

LEMMA InitMaps == Init => Lifecycle!LifecycleInit
<1> SUFFICES ASSUME Init PROVE Lifecycle!LifecycleInit
  OBVIOUS
<1>1. ASSUME NEW c \in Confessions
      PROVE  StatusOf(c) = "none" /\ ~Owed(c) /\ ChatsOf(c) = 0
  <2>1. StatusOf(c) = "none"
    BY StatusOfNone DEF Init, StatusOf, StatusIn, Absent, Keys
  <2>2. {r \in chatS : arg[r].c = c} = {}
    BY DEF Init
  <2>3. QED
    BY <2>1, <2>2, FS_EmptySet DEF Init, Owed, ChatsOf
<1>2. QED
  BY <1>1 DEF Lifecycle!LifecycleInit, Owed, ChatsOf

\* The handlers implement the lifecycle a sender is promised: whatever the
\* interleaving of the confessions' requests, the sender's row goes from sent to
\* read to a verdict, and each acceptance opens one chat; in the same circumstances.
THEOREM LifecycleSafety ==
  PatientClients /\ Dates => (Spec /\ []Spared => Lifecycle!LifecycleSafe)
<1> SUFFICES ASSUME PatientClients, Dates PROVE Spec /\ []Spared => Lifecycle!LifecycleSafe
  OBVIOUS
<1>1. IInv /\ SInv /\ DInv /\ Spared /\ [Next]_vars =>
        [Lifecycle!LifecycleNext]_(Lifecycle!lvars)
  BY EveryStepMaps DEF LifecycleStep
<1>2. QED
  BY <1>1, InitMaps, SafeInductive, PTL DEF Spec, Lifecycle!LifecycleSafe

=============================================================================
