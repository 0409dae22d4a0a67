------------------------- MODULE ChatMessagesProofs -------------------------
(***************************************************************************)
(* The two copies of a chat message, for every value of the constants of   *)
(* ChatMessages: any number of requests and faults, any batch limit.       *)
(*                                                                         *)
(* The argument: a request only moves forward (Moves), a copy comes only   *)
(* by its own request and goes only by a request that deletes it           *)
(* (CopiesComeAndGo), and the stage of a request says which copies it has  *)
(* stored or removed (StageInv).                                           *)
(***************************************************************************)
EXTENDS ChatMessages, TLAPS

\* A request runs the statements of its own handler.
HandlerInv ==
  \A r \in Requests :
    /\ op[r] = "none" <=> pc[r] = "idle"
    /\ op[r] # "none" => arg[r] \in Args
    /\ pc[r] \in {"check", "publish"} => op[r] \in {"send", "deleteAll", "update"}
    /\ pc[r] \in {"insertS", "insertR"} => op[r] = "send"
    /\ pc[r] \in {"deleteOwn", "deleteOther"} => op[r] = "deleteAll"
    /\ pc[r] = "produce" => op[r] = "update"

\* A late deletion is of messages whose requests have ended.
LateInv ==
  \A d \in Requests : op[d] = "deleteAll" /\ arg[d].late =>
    \A m \in arg[d].of : pc[m] \in Final

Kept(m, side) == <<m, side>> \in rows \/ Deleting(m, side)
Gone(d, side) == \A m \in arg[d].of : <<m, side>> \notin rows

\* What a request at a stage has stored, or removed.
StageInv ==
  \A r \in Requests :
    /\ op[r] = "send" /\ pc[r] \in {"insertR", "resolve", "done"} => Kept(r, "sender")
    /\ op[r] = "send" /\ pc[r] \in {"resolve", "done"} => Kept(r, "reciever")
    /\ op[r] = "deleteAll" /\ arg[r].late =>
         /\ pc[r] \in {"deleteOther", "resolve", "done"} => Gone(r, arg[r].by)
         /\ pc[r] \in {"resolve", "done"} => Gone(r, Other(arg[r].by))

IInv == TypeOK /\ HandlerInv /\ LateInv /\ StageInv /\ LoneCopyIsDeleted

-----------------------------------------------------------------------------
(* The shape of the steps. *)

\* All that an exception or a crash does.
Ends ==
  /\ UNCHANGED <<op, arg, rows>>
  /\ pc'    \in [Requests -> Statements \cup Final \cup {"idle", "check", "publish", "resolve"}]
  /\ note'  \in [Requests -> {"none", "delivered", "lost", "saving", "saved", "dropped"}]
  /\ reply' \in [Requests -> {"none", "ok", "error"}]
  /\ mq'    \in [Requests -> {"none", "connecting", "queued", "lost"}]
  /\ faults' \in 0..MaxFaults
  /\ \A q \in Requests : pc'[q] = pc[q] \/ (Live(q) /\ pc'[q] \in {"failed", "killed"})

\* Kill ends requests, saves and connections.
LEMMA KillEnds ==
  ASSUME TypeOK, Kill, UNCHANGED <<op, arg, reply, rows>>, faults' \in 0..MaxFaults
  PROVE  Ends
<1>1. pc' \in [Requests -> Statements \cup Final \cup {"idle", "check", "publish", "resolve"}]
  BY DEF TypeOK, Kill, Final
<1>2. mq' \in [Requests -> {"none", "connecting", "queued", "lost"}]
  BY DEF TypeOK, Kill
<1>3. note' \in [Requests -> {"none", "delivered", "lost", "saving", "saved", "dropped"}]
  BY DEF TypeOK, Kill
<1>4. \A q \in Requests : pc'[q] = pc[q] \/ (Live(q) /\ pc'[q] = "killed")
  BY DEF Kill
<1>5. QED
  BY <1>1, <1>2, <1>3, <1>4 DEF Ends, TypeOK

\* So does an exception, awaited or not.
LEMMA ThrowEnds ==
  ASSUME TypeOK, NEW r \in Requests, Live(r), Throw(r), faults' \in 0..MaxFaults
  PROVE  Ends
<1>1. CASE Floating(r)
  BY <1>1, KillEnds DEF Throw
<1>2. CASE ~Floating(r)
  BY <1>2 DEF Throw, Ends, TypeOK, Final
<1>3. QED
  BY <1>1, <1>2

\* A fault counts within its bound.
LEMMA FaultCounts ==
  ASSUME TypeOK, Fault
  PROVE  faults' \in 0..MaxFaults
BY ParametersAssumption DEF TypeOK, Fault

\* Every refusal and every fault of a handler is of that shape.
LEMMA RefusalsAndFaultsEnd ==
  ASSUME TypeOK,
         \/ Crash
         \/ \E r \in Requests : \/ Refuse(r) \/ RedisError(r) \/ DbError(r)
                                \/ SaveFails(r) \/ ChannelFails(r)
  PROVE  Ends
<1>1. ASSUME NEW r \in Requests, Refuse(r) PROVE Ends
  <2>1. Live(r)
    BY <1>1 DEF Refuse, Refused, Live, Final
  <2>2. faults' \in 0..MaxFaults
    BY <1>1 DEF Refuse, TypeOK
  <2>3. QED
    BY <1>1, <2>1, <2>2, ThrowEnds DEF Refuse
<1>2. ASSUME NEW r \in Requests, RedisError(r) \/ DbError(r) PROVE Ends
  <2>1. Live(r)
    BY <1>2 DEF RedisError, DbError, Statements, Live, Final
  <2>2. QED
    BY <1>2, <2>1, ThrowEnds, FaultCounts DEF RedisError, DbError
<1>3. ASSUME NEW r \in Requests, SaveFails(r) \/ ChannelFails(r) PROVE Ends
  BY <1>3, KillEnds, FaultCounts DEF SaveFails, ChannelFails
<1>4. ASSUME Crash PROVE Ends
  BY <1>4, KillEnds, FaultCounts DEF Crash
<1>5. QED
  BY <1>1, <1>2, <1>3, <1>4

\* A request that starts, with its argument.
Starts(r) ==
  /\ \E o \in {"send", "deleteAll", "deleteMine", "update"}, a \in Args :
       /\ Start(r, o, a)
       /\ o = "deleteAll" /\ a.late => \A m \in a.of : op[m] = "send" /\ ~Live(m)
       /\ \/ pc' = [pc EXCEPT ![r] = "check"]  /\ o # "deleteMine"
          \/ pc' = [pc EXCEPT ![r] = "failed"] /\ o \in {"deleteMine", "update"}
          \/ pc' = [pc EXCEPT ![r] = "done"]   /\ o = "deleteMine"
  /\ UNCHANGED rows

LEMMA BeginStarts ==
  ASSUME NEW r \in Requests, Begin(r)
  PROVE  Starts(r)
<1>1. CASE Send(r)
  <2>1. PICK x \in Reprs :
          Start(r, "send", [of |-> {r}, by |-> "sender", repr |-> x, late |-> FALSE])
    BY <1>1 DEF Send
  <2>2. [of |-> {r}, by |-> "sender", repr |-> x, late |-> FALSE] \in Args
    BY DEF Args, Sides
  <2>3. QED
    BY <1>1, <2>1, <2>2 DEF Send, Starts
<1>2. CASE DeleteAll(r)
  <2>1. PICK side \in Sides, x \in Reprs : \E m \in Known(side) :
          Start(r, "deleteAll", [of |-> {m}, by |-> side, repr |-> x, late |-> ~Live(m)])
    BY <1>2 DEF DeleteAll
  <2>2. PICK m \in Known(side) :
          Start(r, "deleteAll", [of |-> {m}, by |-> side, repr |-> x, late |-> ~Live(m)])
    BY <2>1
  <2>3. DEFINE a == [of |-> {m}, by |-> side, repr |-> x, late |-> ~Live(m)]
  <2>4. m \in Requests /\ op[m] = "send"
    BY DEF Known
  <2>5. Live(m) \in BOOLEAN
    BY DEF Live
  <2>6. a \in Args
    BY <2>4, <2>5 DEF Args
  <2>7. a.late => \A n \in a.of : op[n] = "send" /\ ~Live(n)
    BY <2>4
  <2>8. QED
    BY <1>2, <2>2, <2>6, <2>7 DEF DeleteAll, Starts
<1>3. ASSUME NEW o \in {"deleteMine", "update"}, NEW side \in Sides,
             NEW B \in SUBSET Known(side), StartBatch(r, o, side, B)
      PROVE  \E a \in Args : Start(r, o, a)
  <2>1. PICK x \in Reprs :
          Start(r, o, [of |-> B, by |-> side, repr |-> x, late |-> FALSE])
    BY <1>3 DEF StartBatch
  <2>2. [of |-> B, by |-> side, repr |-> x, late |-> FALSE] \in Args
    BY DEF Args, Known
  <2>3. QED
    BY <2>1, <2>2
<1>4. CASE TooLarge(r)
  BY <1>3, <1>4 DEF TooLarge, Starts
<1>5. CASE DeleteMine(r)
  BY <1>3, <1>5 DEF DeleteMine, Starts
<1>6. CASE Update(r)
  BY <1>3, <1>6 DEF Update, Starts, Sides
<1>7. QED
  BY <1>1, <1>2, <1>4, <1>5, <1>6 DEF Begin

\* Where a request already made can go, and the copy it stores or removes.
Moves(r) ==
  \/ pc'[r] = pc[r]
  \/ Live(r) /\ pc'[r] \in {"failed", "killed"}
  \/ pc[r] = "check" /\ pc'[r] = "publish"
  \/ pc[r] \in {"check", "publish"} /\ pc'[r] = Closure(op[r])
  \/ pc[r] = "insertS" /\ pc'[r] = "insertR" /\ <<r, "sender">> \in rows'
  \/ pc[r] = "insertR" /\ pc'[r] = "resolve" /\ <<r, "reciever">> \in rows'
  \/ /\ pc[r] = "deleteOwn" /\ pc'[r] = "deleteOther"
     /\ rows' = rows \ Copies(r, arg[r].by)
  \/ /\ pc[r] = "deleteOther" /\ pc'[r] = "resolve"
     /\ rows' = rows \ Copies(r, Other(arg[r].by))
  \/ pc[r] \in {"produce", "resolve"} /\ pc'[r] = "done"

\* A step of a handler, or around it, that is no exception and no start.
Proceeds(r) ==
  \/ CheckOnline(r) \/ CheckOffline(r) \/ Publish(r)
  \/ InsertS(r) \/ InsertR(r) \/ DeleteOwn(r) \/ DeleteOther(r)
  \/ Produce(r) \/ Finish(r) \/ SaveReturns(r) \/ Queue(r) \/ ConnectFails(r)

\* A step starts a request, takes one further, or ends some.
LEMMA StepKinds ==
  ASSUME TypeOK, [Next]_vars
  PROVE  \/ UNCHANGED vars
         \/ Ends
         \/ \E r \in Requests : Starts(r) \/ Proceeds(r)
<1>1. CASE Crash
  BY <1>1, RefusalsAndFaultsEnd
<1>2. ASSUME NEW r \in Requests, Begin(r) PROVE Starts(r)
  BY <1>2, BeginStarts
<1>3. ASSUME NEW r \in Requests, Handle(r) PROVE Ends \/ Proceeds(r)
  BY <1>3, RefusalsAndFaultsEnd DEF Handle, Proceeds
<1>4. ASSUME NEW r \in Requests, SaveReturns(r) \/ Queue(r) PROVE Proceeds(r)
  BY <1>4 DEF Proceeds
<1>5. ASSUME NEW r \in Requests, Faulty(r) PROVE Ends \/ Proceeds(r)
  BY <1>5, RefusalsAndFaultsEnd DEF Faulty, Proceeds
<1>6. QED
  BY <1>1, <1>2, <1>3, <1>4, <1>5 DEF Next

\* The closure begins at a statement.
LEMMA ClosureStage ==
  ASSUME NEW o
  PROVE  /\ Closure(o) \in {"insertS", "deleteOwn", "produce"}
         /\ Closure(o) = "insertS" => o = "send"
         /\ Closure(o) = "deleteOwn" => o = "deleteAll"
         /\ Closure(o) = "produce" => o \notin {"send", "deleteAll"}
BY DEF Closure

\* What proceeds moves, alone.
LEMMA ProceedsMoves ==
  ASSUME TypeOK, NEW r \in Requests, Proceeds(r)
  PROVE  /\ UNCHANGED <<op, arg>>
         /\ \A q \in Requests : Moves(q) /\ (q # r => pc'[q] = pc[q])
<1>1. CASE CheckOnline(r) \/ CheckOffline(r) \/ Publish(r)
  BY <1>1 DEF CheckOnline, CheckOffline, Publish, TypeOK, Moves
<1>2. CASE InsertS(r) \/ InsertR(r)
  BY <1>2 DEF InsertS, InsertR, Go, TypeOK, Moves
<1>3. CASE DeleteOwn(r) \/ DeleteOther(r)
  BY <1>3 DEF DeleteOwn, DeleteOther, Go, TypeOK, Moves
<1>4. CASE Produce(r) \/ Finish(r)
  BY <1>4 DEF Produce, Finish, Go, TypeOK, Moves
<1>5. CASE SaveReturns(r) \/ Queue(r) \/ ConnectFails(r)
  BY <1>5 DEF SaveReturns, Queue, ConnectFails, Moves
<1>6. QED
  BY <1>1, <1>2, <1>3, <1>4, <1>5 DEF Proceeds

-----------------------------------------------------------------------------
(* Types. *)

LEMMA TypeInit == Init => TypeOK
BY ParametersAssumption DEF Init, TypeOK, Final

LEMMA TypeStep == TypeOK /\ [Next]_vars => TypeOK'
<1> SUFFICES ASSUME TypeOK, [Next]_vars PROVE TypeOK'
  OBVIOUS
<1>1. CASE UNCHANGED vars
  BY <1>1 DEF vars, TypeOK
<1>2. CASE Ends
  BY <1>2 DEF Ends, TypeOK
<1>3. ASSUME NEW r \in Requests, Begin(r) PROVE TypeOK'
  <2>1. UNCHANGED <<note, mq, rows, faults>> \/ DeleteMine(r)
    BY <1>3 DEF Begin, Send, DeleteAll, TooLarge, Update
  <2>2. /\ reply' \in [Requests -> {"none", "ok", "error"}]
        /\ mq' \in [Requests -> {"none", "connecting", "queued", "lost"}]
        /\ UNCHANGED <<note, rows, faults>>
    BY <1>3 DEF Begin, Send, DeleteAll, TooLarge, DeleteMine, Update, TypeOK
  <2>3. /\ op' \in [Requests -> {"none", "send", "deleteAll", "deleteMine", "update"}]
        /\ arg' \in [Requests -> Args \cup {NoArg}]
        /\ pc' \in [Requests -> Statements \cup Final
                                  \cup {"idle", "check", "publish", "resolve"}]
    BY <1>3, BeginStarts DEF Starts, Start, TypeOK, Final
  <2>4. QED
    BY <2>2, <2>3 DEF TypeOK
<1>4. ASSUME NEW r \in Requests, Proceeds(r) PROVE TypeOK'
  <2>1. CASE CheckOnline(r) \/ CheckOffline(r) \/ Publish(r)
    BY <2>1, ClosureStage DEF CheckOnline, CheckOffline, Publish, TypeOK, Statements
  <2>2. CASE InsertS(r) \/ InsertR(r)
    BY <2>2 DEF InsertS, InsertR, Go, TypeOK, Statements, Sides
  <2>3. CASE DeleteOwn(r) \/ DeleteOther(r)
    BY <2>3 DEF DeleteOwn, DeleteOther, Go, TypeOK, Statements
  <2>4. CASE Produce(r) \/ Finish(r)
    BY <2>4 DEF Produce, Finish, Go, TypeOK, Final
  <2>5. CASE SaveReturns(r) \/ Queue(r)
    BY <2>5 DEF SaveReturns, Queue, TypeOK
  <2>6. CASE ConnectFails(r)
    BY <2>6, FaultCounts DEF ConnectFails, TypeOK
  <2>7. QED
    BY <1>4, <2>1, <2>2, <2>3, <2>4, <2>5, <2>6 DEF Proceeds
<1>5. QED
  <2>1. CASE \E r \in Requests : Begin(r)
    BY <1>3, <2>1
  <2>2. CASE ~ \E r \in Requests : Begin(r)
    <3>1. UNCHANGED vars \/ Crash \/ \E r \in Requests :
            Handle(r) \/ SaveReturns(r) \/ Queue(r) \/ Faulty(r)
      BY <2>2 DEF Next
    <3>2. UNCHANGED vars \/ Ends \/ \E r \in Requests : Proceeds(r)
      BY <3>1, RefusalsAndFaultsEnd DEF Handle, Faulty, Proceeds
    <3>3. QED
      BY <1>1, <1>2, <1>4, <3>2
  <2>3. QED
    BY <2>1, <2>2

\* The handlers keep to their types: any requests, any faults.
THEOREM TypeCorrect == Spec => []TypeOK
BY TypeInit, TypeStep, PTL DEF Spec

-----------------------------------------------------------------------------
(* Handlers, and what has ended. *)

\* Where Starts leaves the others.
LEMMA StartsAlone ==
  ASSUME TypeOK, NEW r \in Requests, Starts(r)
  PROVE  /\ op[r] = "none" /\ UNCHANGED rows
         /\ op'[r] \in {"send", "deleteAll", "deleteMine", "update"} /\ arg'[r] \in Args
         /\ pc'[r] = "check"  => op'[r] \in {"send", "deleteAll", "update"}
         /\ pc'[r] = "done"   => op'[r] = "deleteMine"
         /\ pc'[r] = "failed" => op'[r] \in {"deleteMine", "update"}
         /\ pc'[r] \in {"check", "done", "failed"}
         /\ op'[r] = "deleteAll" /\ arg'[r].late =>
              \A m \in arg'[r].of : op[m] = "send" /\ ~Live(m)
         /\ \A q \in Requests \ {r} : op'[q] = op[q] /\ arg'[q] = arg[q] /\ pc'[q] = pc[q]
BY DEF TypeOK, Starts, Start

\* Every step starts one request, or moves those it has.
LEMMA EveryStep ==
  ASSUME TypeOK, [Next]_vars
  PROVE  \/ \E r \in Requests : Starts(r)
         \/ UNCHANGED <<op, arg>> /\ \A q \in Requests : Moves(q)
<1>1. CASE UNCHANGED vars
  BY <1>1 DEF vars, Moves
<1>2. CASE Ends
  BY <1>2 DEF Ends, Moves
<1>3. QED
  BY <1>1, <1>2, StepKinds, ProceedsMoves

LEMMA HandlerStep == TypeOK /\ HandlerInv /\ [Next]_vars => HandlerInv'
<1> SUFFICES ASSUME TypeOK, HandlerInv, [Next]_vars PROVE HandlerInv'
  OBVIOUS
<1>1. CASE \E r \in Requests : Starts(r)
  BY <1>1, StartsAlone DEF HandlerInv
<1>2. CASE UNCHANGED <<op, arg>> /\ \A q \in Requests : Moves(q)
  <2> SUFFICES ASSUME NEW r \in Requests
               PROVE  /\ op[r] = "none" <=> pc'[r] = "idle"
                      /\ op[r] # "none" => arg[r] \in Args
                      /\ pc'[r] \in {"check", "publish"}
                           => op[r] \in {"send", "deleteAll", "update"}
                      /\ pc'[r] \in {"insertS", "insertR"} => op[r] = "send"
                      /\ pc'[r] \in {"deleteOwn", "deleteOther"} => op[r] = "deleteAll"
                      /\ pc'[r] = "produce" => op[r] = "update"
    BY <1>2 DEF HandlerInv
  <2>1. Moves(r)
    BY <1>2
  <2>2. /\ op[r] = "none" <=> pc[r] = "idle"
        /\ op[r] # "none" => arg[r] \in Args
        /\ pc[r] \in {"check", "publish"} => op[r] \in {"send", "deleteAll", "update"}
        /\ pc[r] \in {"insertS", "insertR"} => op[r] = "send"
        /\ pc[r] \in {"deleteOwn", "deleteOther"} => op[r] = "deleteAll"
        /\ pc[r] = "produce" => op[r] = "update"
    BY DEF HandlerInv
  <2>3. /\ Closure(op[r]) \in {"insertS", "deleteOwn", "produce"}
        /\ Closure(op[r]) = "insertS" => op[r] = "send"
        /\ Closure(op[r]) = "deleteOwn" => op[r] = "deleteAll"
        /\ Closure(op[r]) = "produce" => op[r] \notin {"send", "deleteAll"}
    BY ClosureStage
  <2>4. QED
    BY <2>1, <2>2, <2>3 DEF Moves, Live, Final
<1>3. QED
  BY <1>1, <1>2, EveryStep

\* What has ended stays so.
LEMMA FinalStays ==
  ASSUME TypeOK, HandlerInv, [Next]_vars, NEW m \in Requests, pc[m] \in Final
  PROVE  pc'[m] = pc[m]
<1>1. CASE \E r \in Requests : Starts(r)
  BY <1>1, StartsAlone DEF HandlerInv, Final
<1>2. CASE Moves(m)
  BY <1>2 DEF Moves, Final, Live
<1>3. QED
  BY <1>1, <1>2, EveryStep

LEMMA LateStep ==
  TypeOK /\ HandlerInv /\ LateInv /\ [Next]_vars => LateInv'
<1> SUFFICES ASSUME TypeOK, HandlerInv, LateInv, [Next]_vars,
                    NEW d \in Requests, op'[d] = "deleteAll", arg'[d].late,
                    NEW m \in arg'[d].of
             PROVE  pc'[m] \in Final
  BY DEF LateInv
<1>1. ASSUME NEW r \in Requests, Starts(r), r = d PROVE pc[m] \in Final
  <2>1. arg'[d] \in Args /\ op[m] = "send" /\ ~Live(m)
    BY <1>1, StartsAlone
  <2>2. m \in Requests
    BY <2>1 DEF Args
  <2>3. QED
    BY <2>1, <2>2 DEF Live, HandlerInv
<1>2. ASSUME op'[d] = op[d], arg'[d] = arg[d] PROVE pc[m] \in Final
  BY <1>2 DEF LateInv
<1>3. pc[m] \in Final
  <2>1. CASE \E r \in Requests : Starts(r)
    <3>1. PICK r \in Requests : Starts(r)
      BY <2>1
    <3>2. CASE r = d
      BY <3>1, <3>2, <1>1
    <3>3. CASE r # d
      BY <3>1, <3>3, <1>2, StartsAlone
    <3>4. QED
      BY <3>2, <3>3
  <2>2. CASE UNCHANGED <<op, arg>>
    BY <2>2, <1>2
  <2>3. QED
    BY <2>1, <2>2, EveryStep
<1>4. m \in Requests
  BY HandlerStep DEF HandlerInv, Args
<1>5. QED
  BY <1>3, <1>4, FinalStays

-----------------------------------------------------------------------------
(* Copies. *)

\* That a message is being deleted for everyone stays a fact.
LEMMA DeletingStays ==
  ASSUME TypeOK, HandlerInv, [Next]_vars,
         NEW m \in Requests, NEW side \in Sides, Deleting(m, side)
  PROVE  Deleting(m, side)'
<1>1. PICK d \in Requests :
        /\ op[d] = "deleteAll" /\ m \in arg[d].of
        /\ pc[d] \notin {"check", "publish", "deleteOwn"}
        /\ side # arg[d].by => pc[d] # "deleteOther"
  BY DEF Deleting
<1>2. op'[d] = op[d] /\ arg'[d] = arg[d] /\ Moves(d)
  <2>1. ASSUME NEW r \in Requests, Starts(r)
        PROVE  op'[d] = op[d] /\ arg'[d] = arg[d] /\ pc'[d] = pc[d]
    BY <1>1, <2>1, StartsAlone
  <2>2. QED
    BY <2>1, EveryStep DEF Moves
<1>3. op[d] = "deleteAll" => pc[d] \notin {"idle", "insertS", "insertR", "produce"}
  BY DEF HandlerInv
<1>4. pc'[d] \notin {"check", "publish", "deleteOwn"}
  BY <1>1, <1>2, <1>3 DEF Moves
<1>5. side # arg[d].by => pc'[d] # "deleteOther"
  BY <1>1, <1>2, <1>3, ClosureStage DEF Moves
<1>6. QED
  BY <1>1, <1>2, <1>4, <1>5 DEF Deleting

\* A copy comes only by its request's own statement, the sender's first.
LEMMA CopiesCome ==
  ASSUME TypeOK, [Next]_vars, NEW m \in Requests, NEW side \in Sides,
         <<m, side>> \in rows', <<m, side>> \notin rows
  PROVE  pc[m] = IF side = "sender" THEN "insertS" ELSE "insertR"
<1>1. ASSUME NEW r \in Requests, Proceeds(r)
      PROVE  \/ rows' \subseteq rows
             \/ pc[r] = "insertS" /\ rows' = rows \cup {<<r, "sender">>}
             \/ pc[r] = "insertR" /\ rows' = rows \cup {<<r, "reciever">>}
  BY <1>1 DEF Proceeds, CheckOnline, CheckOffline, Publish, InsertS, InsertR, DeleteOwn,
              DeleteOther, Produce, Finish, SaveReturns, Queue, ConnectFails, Go
<1>2. PICK r \in Requests : Proceeds(r) /\ ~(rows' \subseteq rows)
  BY StepKinds DEF vars, Ends, Starts
<1>3. QED
  BY <1>1, <1>2

\* A copy goes only when its message is being deleted for everyone.
LEMMA CopiesGo ==
  ASSUME TypeOK, HandlerInv, [Next]_vars, NEW m \in Requests, NEW side \in Sides,
         <<m, side>> \in rows, <<m, side>> \notin rows'
  PROVE  Deleting(m, side)'
<1>1. ASSUME NEW r \in Requests, Proceeds(r), rows' # rows
      PROVE  \/ rows \subseteq rows'
             \/ /\ pc[r] = "deleteOwn" /\ pc'[r] = "deleteOther"
                /\ rows' = rows \ Copies(r, arg[r].by)
             \/ /\ pc[r] = "deleteOther" /\ pc'[r] = "resolve"
                /\ rows' = rows \ Copies(r, Other(arg[r].by))
  BY <1>1 DEF Proceeds, CheckOnline, CheckOffline, Publish, InsertS, InsertR, DeleteOwn,
              DeleteOther, Produce, Finish, SaveReturns, Queue, ConnectFails, Go, TypeOK
<1>2. PICK r \in Requests : Proceeds(r) /\ ~(rows \subseteq rows')
  BY StepKinds DEF vars, Ends, Starts
<1>3. op[r] = "deleteAll" /\ op'[r] = op[r] /\ arg'[r] = arg[r]
  BY <1>1, <1>2, ProceedsMoves DEF HandlerInv
<1>4. CASE pc'[r] = "deleteOther" /\ rows' = rows \ Copies(r, arg[r].by)
  BY <1>3, <1>4 DEF Copies, Deleting
<1>5. CASE pc'[r] = "resolve" /\ rows' = rows \ Copies(r, Other(arg[r].by))
  BY <1>3, <1>5 DEF Copies, Deleting
<1>6. QED
  BY <1>1, <1>2, <1>4, <1>5

\* So what was kept is kept, a deletion counting as such.
LEMMA KeptStays ==
  ASSUME TypeOK, HandlerInv, [Next]_vars,
         NEW m \in Requests, NEW side \in Sides, Kept(m, side)
  PROVE  Kept(m, side)'
BY DeletingStays, CopiesGo DEF Kept

\* And what a late deletion removed does not come back.
LEMMA GoneStays ==
  ASSUME TypeOK, HandlerInv, LateInv, [Next]_vars, NEW d \in Requests, NEW side \in Sides,
         op[d] = "deleteAll", arg[d].late, arg'[d] = arg[d], Gone(d, side)
  PROVE  Gone(d, side)'
<1> SUFFICES ASSUME NEW m \in arg[d].of, <<m, side>> \in rows' PROVE FALSE
  BY DEF Gone
<1>1. m \in Requests /\ pc[m] \in Final
  BY DEF LateInv, HandlerInv, Args
<1>2. <<m, side>> \notin rows
  BY DEF Gone
<1>3. QED
  BY <1>1, <1>2, CopiesCome DEF Final

-----------------------------------------------------------------------------
(* The invariant. *)

LEMMA StageStep ==
  TypeOK /\ HandlerInv /\ LateInv /\ StageInv /\ [Next]_vars => StageInv'
<1> SUFFICES ASSUME TypeOK, HandlerInv, LateInv, StageInv, [Next]_vars,
                    NEW r \in Requests
             PROVE  /\ op'[r] = "send" /\ pc'[r] \in {"insertR", "resolve", "done"}
                         => Kept(r, "sender")'
                    /\ op'[r] = "send" /\ pc'[r] \in {"resolve", "done"}
                         => Kept(r, "reciever")'
                    /\ op'[r] = "deleteAll" /\ arg'[r].late =>
                         /\ pc'[r] \in {"deleteOther", "resolve", "done"}
                              => Gone(r, arg[r].by)'
                         /\ pc'[r] \in {"resolve", "done"} => Gone(r, Other(arg[r].by))'
  BY DEF StageInv
<1>1. CASE op[r] = "none"
  <2>1. CASE \E q \in Requests : Starts(q)
    BY <1>1, <2>1, StartsAlone
  <2>2. CASE UNCHANGED <<op, arg>>
    BY <1>1, <2>2
  <2>3. QED
    BY <2>1, <2>2, EveryStep
<1>2. CASE op[r] # "none"
  <2>1. op'[r] = op[r] /\ arg'[r] = arg[r] /\ Moves(r)
    BY <1>2, EveryStep, StartsAlone DEF Moves
  <2>2. /\ arg[r] \in Args /\ arg[r].by \in Sides /\ Other(arg[r].by) \in Sides
        /\ pc[r] # "idle"
    BY <1>2 DEF HandlerInv, Args, Other, Sides
  <2>3. CASE op[r] = "send"
    <3>1. pc[r] \notin {"deleteOwn", "deleteOther", "produce"}
      BY <2>3 DEF HandlerInv
    <3>2. Closure(op[r]) = "insertS"
      BY <2>3, ClosureStage
    <3>3. pc'[r] \in {"insertR", "resolve", "done"} =>
            pc[r] \in {"insertR", "resolve", "done"} \/ <<r, "sender">> \in rows'
      BY <2>1, <3>1, <3>2 DEF Moves
    <3>4. pc'[r] \in {"resolve", "done"} =>
            pc[r] \in {"resolve", "done"} \/ <<r, "reciever">> \in rows'
      BY <2>1, <3>1, <3>2 DEF Moves
    <3>5. \A side \in Sides : Kept(r, side) => Kept(r, side)'
      BY KeptStays
    <3>6. pc'[r] \in {"insertR", "resolve", "done"} => Kept(r, "sender")'
      BY <2>3, <3>3, <3>5 DEF StageInv, Kept, Sides
    <3>7. pc'[r] \in {"resolve", "done"} => Kept(r, "reciever")'
      BY <2>3, <3>4, <3>5 DEF StageInv, Kept, Sides
    <3>8. QED
      BY <2>1, <2>3, <3>6, <3>7
  <2>4. CASE op[r] = "deleteAll" /\ arg[r].late
    <3>1. pc[r] \notin {"insertS", "insertR", "produce"}
      BY <2>4 DEF HandlerInv
    <3>2. Closure(op[r]) = "deleteOwn"
      BY <2>4 DEF Closure
    <3>3. pc'[r] \in {"deleteOther", "resolve", "done"} =>
            \/ pc[r] \in {"deleteOther", "resolve", "done"}
            \/ rows' = rows \ Copies(r, arg[r].by)
      BY <2>1, <3>1, <3>2 DEF Moves
    <3>4. pc'[r] \in {"resolve", "done"} =>
            \/ pc[r] \in {"resolve", "done"}
            \/ rows' = rows \ Copies(r, Other(arg[r].by))
      BY <2>1, <3>1, <3>2 DEF Moves
    <3>5. \A side \in Sides : Gone(r, side) => Gone(r, side)'
      BY <2>1, <2>4, GoneStays
    <3>6. \A side \in Sides : rows' = rows \ Copies(r, side) => Gone(r, side)'
      BY <2>1 DEF Gone, Copies
    <3>7. pc'[r] \in {"deleteOther", "resolve", "done"} => Gone(r, arg[r].by)'
      BY <2>1, <2>2, <2>4, <3>3, <3>5, <3>6 DEF StageInv, Gone
    <3>8. pc'[r] \in {"resolve", "done"} => Gone(r, Other(arg[r].by))'
      BY <2>1, <2>2, <2>4, <3>4, <3>5, <3>6 DEF StageInv, Gone, Other
    <3>9. QED
      BY <2>1, <2>4, <3>7, <3>8
  <2>5. QED
    BY <2>1, <2>3, <2>4
<1>3. QED
  BY <1>1, <1>2

LEMMA LoneStep ==
  TypeOK /\ HandlerInv /\ StageInv /\ LoneCopyIsDeleted /\ [Next]_vars
    => LoneCopyIsDeleted'
<1> SUFFICES ASSUME TypeOK, HandlerInv, StageInv, LoneCopyIsDeleted, [Next]_vars,
                    NEW m \in Requests,
                    <<m, "reciever">> \in rows', <<m, "sender">> \notin rows'
             PROVE  Deleting(m, "sender")'
  BY DEF LoneCopyIsDeleted
<1>1. Kept(m, "sender")
  <2>1. CASE <<m, "reciever">> \in rows
    BY <2>1 DEF LoneCopyIsDeleted, Kept
  <2>2. CASE <<m, "reciever">> \notin rows
    BY <2>2, CopiesCome DEF StageInv, HandlerInv, Sides
  <2>3. QED
    BY <2>1, <2>2
<1>2. Kept(m, "sender")'
  BY <1>1, KeptStays DEF Sides
<1>3. QED
  BY <1>2 DEF Kept

LEMMA InitIInv == Init => IInv
BY TypeInit DEF Init, IInv, HandlerInv, LateInv, StageInv, LoneCopyIsDeleted, Final

LEMMA StepIInv == IInv /\ [Next]_vars => IInv'
BY TypeStep, HandlerStep, LateStep, StageStep, LoneStep DEF IInv

\* The invariant holds in every behaviour.
THEOREM Inductive == Spec => []IInv
BY InitIInv, StepIInv, PTL DEF Spec

\* The reciever alone has a message only if it is deleted for everyone.
THEOREM LoneCopyAlways == Spec => []LoneCopyIsDeleted
<1>1. IInv => LoneCopyIsDeleted
  BY DEF IInv
<1>2. QED
  BY <1>1, Inductive, PTL

\* A message that went through has its copies, save those deleted.
THEOREM DoneIsStoredAlways == Spec => []DoneIsStored
<1>1. IInv => DoneIsStored
  BY DEF IInv, StageInv, DoneIsStored, Kept, Sides
<1>2. QED
  BY <1>1, Inductive, PTL

\* What is deleted late is gone on both sides for good.
THEOREM DeletedIsGoneAlways == Spec => []DeletedIsGone
<1>1. ASSUME IInv PROVE DeletedIsGone
  <2> SUFFICES ASSUME NEW d \in Requests, op[d] = "deleteAll", pc[d] = "done", arg[d].late
               PROVE  rows \cap (arg[d].of \X Sides) = {}
    BY DEF DeletedIsGone
  <2>1. Gone(d, arg[d].by) /\ Gone(d, Other(arg[d].by))
    BY <1>1 DEF IInv, StageInv
  <2>2. arg[d].by \in Sides
    BY <1>1 DEF IInv, HandlerInv, Args
  <2>3. \A side \in Sides : Gone(d, side)
    BY <2>1, <2>2 DEF Sides, Other
  <2>4. QED
    BY <2>3 DEF Gone
<1>2. QED
  BY <1>1, Inductive, PTL
=============================================================================
