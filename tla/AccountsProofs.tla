--------------------------- MODULE AccountsProofs ---------------------------
(***************************************************************************)
(* For any people, addresses, requests, replicas and faults: when accounts *)
(* collide, whom userLogin turns away, and what a verified account says.   *)
(***************************************************************************)
EXTENDS Accounts, TLAPS

\* Requests with a token, and those that name an account.
Tokened == {"changeEmail", "sendOtp", "verifyOtp"}
Naming  == Tokened \cup {"login"}

\* The awaits of each route.
RouteOf(o) == CASE o = "none"        -> {"idle"}
                [] o = "signUp"      -> {"lookup", "lookupName", "save", "answer"}
                [] o = "login"       -> {"lookup", "answer"}
                [] o = "changeEmail" -> {"auth", "find", "update", "answer"}
                [] o = "sendOtp"     -> {"auth", "find", "mail"}
                [] o = "verifyOtp"   -> {"auth", "check", "update", "answer"}

StageInv == \A r \in Requests :
  /\ pc[r] \in RouteOf(op[r]) \cup Final
  /\ op[r] = "none" => pc[r] = "idle" /\ reply[r] = "none"
  /\ reply[r] = "ok" => pc[r] = "done"
  /\ pc[r] \in Final \/ reply[r] = "none"

\* A sign-up that got past its save has an account, and no other request has.
SavedInv == \A r \in Requests :
  /\ r \in Saved => op[r] = "signUp" /\ pc[r] \in {"answer"} \cup Final
  /\ op[r] = "signUp" /\ (pc[r] = "answer" \/ reply[r] = "ok") => r \in Saved

\* Requests act on accounts of those that make them.
OwnInv == \A r \in Requests :
  /\ op[r] \in Naming => arg[r].acc \in Saved /\ Who[arg[r].acc] = Who[r]
  /\ op[r] = "login" /\ (pc[r] = "answer" \/ reply[r] = "ok")
       => found[r] \in Saved /\ Who[found[r]] = Who[r]

TypeInv == TypeOK /\ StageInv /\ SavedInv /\ OwnInv

-----------------------------------------------------------------------------

\* The argument of each route.
LEMMA ArgTypes ==
  ASSUME TypeOK, NEW r \in Requests
  PROVE  /\ op[r] = "signUp" => arg[r] \in SignUps
         /\ op[r] \in {"login", "changeEmail"} => arg[r] \in Logins
         /\ op[r] = "sendOtp" => arg[r] \in [acc : Requests]
         /\ op[r] = "verifyOtp" => arg[r] \in Verifies
         /\ op[r] \in Naming => arg[r].acc \in Requests
<1>1. arg[r] \in ArgsOf(op[r])
  BY DEF TypeOK
<1>2. CASE op[r] = "signUp"
  BY <1>1, <1>2 DEF ArgsOf, Naming, Tokened
<1>3. CASE op[r] \in {"login", "changeEmail"}
  BY <1>1, <1>3 DEF ArgsOf, Logins
<1>4. CASE op[r] = "sendOtp"
  BY <1>1, <1>4 DEF ArgsOf
<1>5. CASE op[r] = "verifyOtp"
  BY <1>1, <1>5 DEF ArgsOf, Verifies
<1>6. CASE op[r] = "none"
  BY <1>6 DEF Naming, Tokened
<1> QED BY <1>2, <1>3, <1>4, <1>5, <1>6 DEF TypeOK, Ops

\* A token is of an account of the person that holds it.
LEMMA TokenIsOwn ==
  ASSUME TypeInv, NEW r \in Requests, NEW a \in Saved, Token(Who[r], a)
  PROVE  Who[a] = Who[r]
  BY DEF TypeInv, OwnInv, Token

\* What verifyOtp is asked with: the token of a code its person asked for, and a
\* code of no mail or of a mail that person reads.
CodeOf(r, x) ==
  /\ op[x.otptoken] = "sendOtp" /\ reply[x.otptoken] = "ok"
  /\ Who[x.otptoken] = Who[r]
  /\ \/ x.otp = r
     \/ op[x.otp] = "sendOtp" /\ pc[x.otp] = "done" /\ Box[mailTo[x.otp]] = Who[r]

\* What a request that starts is.
Asked(r, o, first, x) ==
  /\ Start(r, o, first, x)
  /\ o \in Ops \ {"none"} /\ x \in ArgsOf(o)
  /\ first \in {"lookup", "auth"} /\ first \in RouteOf(o)
  /\ o \in Naming => x.acc \in Saved /\ Who[x.acc] = Who[r]
  /\ o = "login" => x.email = email[x.acc]
  /\ o = "verifyOtp" => CodeOf(r, x)

LEMMA AskIs ==
  ASSUME TypeInv, NEW r \in Requests, Ask(r)
  PROVE  \E o, first, x : Asked(r, o, first, x)
<1>0. Saved \subseteq Requests
  BY DEF Saved
<1>1. CASE StartSignUp(r)
  <2>1. PICK x \in SignUps \cap Bodies : Start(r, "signUp", "lookup", x)
    BY <1>1 DEF StartSignUp
  <2>2. Asked(r, "signUp", "lookup", x)
    BY <2>1 DEF Asked, Ops, ArgsOf, RouteOf, Naming, Tokened
  <2> QED BY <2>2
<1>2. CASE StartLogin(r)
  <2>1. PICK a \in Saved : /\ Who[a] = Who[r]
                           /\ Start(r, "login", "lookup", [acc |-> a, email |-> email[a]])
    BY <1>2 DEF StartLogin
  <2>2. email[a] \in Emails
    BY DEF TypeInv, TypeOK, Saved
  <2>3. Asked(r, "login", "lookup", [acc |-> a, email |-> email[a]])
    BY <1>0, <2>1, <2>2 DEF Asked, Ops, ArgsOf, Logins, RouteOf, Naming, Tokened
  <2> QED BY <2>3
<1>3. CASE StartChangeEmail(r)
  <2>1. PICK a \in Saved, e \in Emails :
          Token(Who[r], a) /\ Start(r, "changeEmail", "auth", [acc |-> a, email |-> e])
    BY <1>3 DEF StartChangeEmail
  <2>2. Asked(r, "changeEmail", "auth", [acc |-> a, email |-> e])
    BY <1>0, <2>1, TokenIsOwn DEF Asked, Ops, ArgsOf, Logins, RouteOf
  <2> QED BY <2>2
<1>4. CASE StartSendOtp(r)
  <2>1. PICK a \in Saved : Token(Who[r], a) /\ Start(r, "sendOtp", "auth", [acc |-> a])
    BY <1>4 DEF StartSendOtp
  <2>2. Asked(r, "sendOtp", "auth", [acc |-> a])
    BY <1>0, <2>1, TokenIsOwn DEF Asked, Ops, ArgsOf, RouteOf
  <2> QED BY <2>2
<1>5. CASE StartVerifyOtp(r)
  <2>1. PICK a \in Saved, o \in Requests, t \in Requests :
          /\ Token(Who[r], a)
          /\ o = r \/ (op[o] = "sendOtp" /\ pc[o] = "done" /\ Box[mailTo[o]] = Who[r])
          /\ op[t] = "sendOtp" /\ reply[t] = "ok" /\ Who[t] = Who[r]
          /\ Start(r, "verifyOtp", "auth", [acc |-> a, otp |-> o, otptoken |-> t])
    BY <1>5 DEF StartVerifyOtp
  <2>2. Asked(r, "verifyOtp", "auth", [acc |-> a, otp |-> o, otptoken |-> t])
    BY <1>0, <2>1, TokenIsOwn DEF Asked, Ops, ArgsOf, Verifies, RouteOf, CodeOf
  <2> QED BY <2>2
<1> QED BY <1>1, <1>2, <1>3, <1>4, <1>5 DEF Ask

\* Every step is of one of these kinds.
LEMMA NextIs ==
  ASSUME [Next]_vars
  PROVE  \/ \E r \in Requests : Ask(r) \/ Handle(r) \/ DbError(r)
         \/ \E p \in Replicas : Kill(p) /\ faults' = faults + 1
                                /\ faults < MaxFaults
         \/ UNCHANGED vars
<1>1. ASSUME NEW r \in Requests, MailFails(r)
      PROVE  \E p \in Replicas : Kill(p) /\ faults' = faults + 1 /\ faults < MaxFaults
  BY <1>1, PeopleAssumption DEF MailFails, Fault
<1> QED BY <1>1 DEF Next, Crash, Fault

-----------------------------------------------------------------------------
(* The types. *)

\* What a step of a handler does to its request: it goes on, refuses or answers.
Moved(r, next, ans) ==
  /\ pc' = [pc EXCEPT ![r] = next] /\ reply' = [reply EXCEPT ![r] = ans]
  /\ UNCHANGED <<op, arg, faults>>

LEMMA GoMoves ==
  ASSUME TypeOK, NEW r \in Requests, NEW s, NEW next, Go(r, s, next)
  PROVE  pc[r] = s /\ Moved(r, next, reply[r])
<1>1. reply = [reply EXCEPT ![r] = reply[r]]
  BY DEF TypeOK
<1> QED BY <1>1 DEF Go, Moved, request

LEMMA RefuseMoves ==
  ASSUME NEW r \in Requests, NEW s, Refuse(r, s)
  PROVE  pc[r] = s /\ Moved(r, "failed", "refused")
  BY DEF Refuse, Moved, request

\* A request moves along its route, or ends; only an answer is "ok".
LEMMA HandleMoves ==
  ASSUME TypeInv, NEW r \in Requests, Handle(r)
  PROVE  /\ pc[r] \notin Final \cup {"idle"}
         /\ \/ \E next \in RouteOf(op[r]) : Moved(r, next, reply[r])
            \/ Moved(r, "failed", "refused")
            \/ /\ pc[r] \in {"answer", "mail"}
               /\ Moved(r, "done", "ok")
<1> DEFINE Moves == \/ \E next \in RouteOf(op[r]) : Moved(r, next, reply[r])
                    \/ Moved(r, "failed", "refused")
                    \/ /\ pc[r] \in {"answer", "mail"}
                       /\ Moved(r, "done", "ok")
<1> USE DEF TypeInv
<1>0. pc[r] \in RouteOf(op[r]) \cup Final /\ op[r] \in Ops
  BY DEF StageInv, TypeOK
<1>1. CASE Auth(r)
  <2>1. pc[r] = "auth" /\ op[r] \in Tokened
    BY <1>0, <1>1 DEF Auth, RouteOf, Final, Tokened, Ops
  <2>2. (IF op[r] = "verifyOtp" THEN "check" ELSE "find") \in RouteOf(op[r])
    BY <2>1 DEF RouteOf, Tokened
  <2> QED BY <1>1, <2>1, <2>2, GoMoves, RefuseMoves DEF Auth, Final
<1>2. CASE LookupEmail(r)
  BY <1>2, GoMoves, RefuseMoves DEF LookupEmail, RouteOf, Final
<1>3. CASE LookupName(r)
  <2>1. op[r] = "signUp"
    BY <1>0, <1>3 DEF LookupName, RouteOf, Final, Ops
  <2> QED BY <1>3, <2>1, GoMoves, RefuseMoves DEF LookupName, RouteOf, Final
<1>4. CASE Save(r)
  <2>1. op[r] = "signUp"
    BY <1>0, <1>4 DEF Save, Go, RouteOf, Final, Ops
  <2> QED BY <1>4, <2>1, GoMoves DEF Save, RouteOf, Final
<1>5. CASE LookupLogin(r)
  BY <1>5, GoMoves, RefuseMoves DEF LookupLogin, RouteOf, Final
<1>6. CASE Find(r)
  BY <1>6, GoMoves, RefuseMoves DEF Find, RouteOf, Final
<1>7. CASE UpdateEmail(r)
  BY <1>7, GoMoves DEF UpdateEmail, StoreEmail, RouteOf, Final
<1>8. CASE Mail(r)
  BY <1>8, GoMoves DEF Mail, RouteOf, Final
<1>9. CASE MailSent(r) \/ Answer(r)
  BY <1>9 DEF MailSent, Answer, Moved, request, Final
<1>10. CASE CheckOtp(r)
  <2>1. op[r] = "verifyOtp"
    BY <1>0, <1>10 DEF CheckOtp, RouteOf, Final, Ops
  <2> QED BY <1>10, <2>1, GoMoves, RefuseMoves DEF CheckOtp, RouteOf, Final
<1>11. CASE UpdateVerified(r)
  BY <1>11, GoMoves DEF UpdateVerified, StoreVerified, RouteOf, Final
<1> QED BY <1>1, <1>2, <1>3, <1>4, <1>5, <1>6, <1>7, <1>8, <1>9, <1>10, <1>11 DEF Handle

LEMMA RouteStages == \A o \in Ops : RouteOf(o) \subseteq Stages
  BY DEF RouteOf, Ops, Stages, Awaits, Final

\* StageInv is inductive.
LEMMA StageStep ==
  ASSUME TypeInv, [Next]_vars
  PROVE  StageInv' /\ pc' \in [Requests -> Stages]
         /\ reply' \in [Requests -> {"none", "ok", "refused", "error"}]
<1> USE DEF TypeInv
<1>0. pc \in [Requests -> Stages] /\ reply \in [Requests -> {"none", "ok", "refused", "error"}]
      /\ op \in [Requests -> Ops]
  BY DEF TypeOK
<1>1. ASSUME NEW r \in Requests, NEW o, NEW first, NEW x, Asked(r, o, first, x)
      PROVE  StageInv' /\ pc' \in [Requests -> Stages] /\ UNCHANGED reply
  BY <1>0, <1>1, RouteStages DEF Asked, Start, StageInv
<1>2. ASSUME NEW r \in Requests, NEW next \in RouteOf(op[r]) \cup Final,
             NEW ans \in {"none", "ok", "refused", "error"},
             Moved(r, next, ans), pc[r] # "idle", ans = "ok" => next = "done",
             next \in Final \/ ans = "none"
      PROVE  StageInv' /\ pc' \in [Requests -> Stages]
             /\ reply' \in [Requests -> {"none", "ok", "refused", "error"}]
  <2>1. next \in Stages /\ op[r] # "none"
    BY <1>0, <1>2, RouteStages DEF Stages, StageInv, RouteOf, Final
  <2> QED BY <1>0, <1>2, <2>1 DEF Moved, StageInv
<1>3. ASSUME NEW r \in Requests, Handle(r)
      PROVE  StageInv' /\ pc' \in [Requests -> Stages]
             /\ reply' \in [Requests -> {"none", "ok", "refused", "error"}]
  <2>1. pc[r] # "idle" /\ reply[r] = "none"
    BY <1>0, <1>3, HandleMoves DEF StageInv, Final
  <2> QED BY <1>2, <1>3, <2>1, HandleMoves DEF Final
<1>4. ASSUME NEW r \in Requests, DbError(r)
      PROVE  StageInv' /\ pc' \in [Requests -> Stages]
             /\ reply' \in [Requests -> {"none", "ok", "refused", "error"}]
  <2>1. op[r] # "none" /\ UNCHANGED op
    BY <1>4 DEF DbError, StageInv, Awaits, request
  <2> QED BY <1>0, <1>4, <2>1 DEF DbError, StageInv, Final, Stages
<1>5. ASSUME NEW p \in Replicas, Kill(p)
      PROVE  StageInv' /\ pc' \in [Requests -> Stages] /\ UNCHANGED reply
  BY <1>0, <1>5 DEF Kill, StageInv, Live, Final, Stages, request
<1>6. CASE UNCHANGED vars
  BY <1>0, <1>6 DEF vars, request, StageInv
<1> QED BY <1>0, <1>1, <1>3, <1>4, <1>5, <1>6, NextIs, AskIs

\* A step of a handler writes to the users, or leaves them alone.
LEMMA HandleWrites ==
  ASSUME NEW r \in Requests, Handle(r)
  PROVE  \/ Save(r) /\ StoreAccount(r)
         \/ StoreEmail(r) \/ StoreVerified(r)
         \/ UNCHANGED <<users, changed>>
<1>1. CASE Save(r) \/ UpdateEmail(r) \/ UpdateVerified(r)
  BY <1>1 DEF Save, UpdateEmail, UpdateVerified
<1>2. CASE ~(Save(r) \/ UpdateEmail(r) \/ UpdateVerified(r))
  BY <1>2 DEF Handle, Auth, LookupEmail, LookupName, LookupLogin, Find, Mail, MailSent,
              CheckOtp, Answer, history
<1> QED BY <1>1, <1>2

\* A step leaves the users alone, or is one of the three writes.
LEMMA WritesAre ==
  ASSUME TypeInv, [Next]_vars
  PROVE  \/ UNCHANGED <<users, changed>>
         \/ /\ UNCHANGED <<op, arg>>
            /\ \E r \in Requests : StoreAccount(r) \/ StoreEmail(r) \/ StoreVerified(r)
<1>1. ASSUME NEW r \in Requests, NEW o, NEW first, NEW x, Asked(r, o, first, x)
      PROVE  UNCHANGED <<users, changed>>
  BY <1>1 DEF Asked, Start, history
<1>2. ASSUME NEW r \in Requests, Handle(r)
      PROVE  /\ UNCHANGED <<op, arg>>
             /\ \/ UNCHANGED <<users, changed>>
                \/ StoreAccount(r) \/ StoreEmail(r) \/ StoreVerified(r)
  BY <1>2, HandleMoves, HandleWrites DEF Moved
<1>3. ASSUME NEW r \in Requests, DbError(r)
      PROVE  /\ UNCHANGED <<op, arg>>
             /\ \/ UNCHANGED <<users, changed>>
                \/ StoreAccount(r) \/ StoreEmail(r) \/ StoreVerified(r)
  BY <1>3 DEF DbError, request, history
<1>4. ASSUME NEW p \in Replicas, Kill(p) PROVE UNCHANGED <<users, changed>>
  BY <1>4 DEF Kill, history
<1>5. CASE UNCHANGED vars
  BY <1>5 DEF vars, history
<1> QED BY <1>1, <1>2, <1>3, <1>4, <1>5, NextIs, AskIs

\* The three writes, at their requests and accounts.
LEMMA SaveIs ==
  ASSUME TypeInv, NEW r \in Requests, StoreAccount(r)
  PROVE  /\ op[r] = "signUp" /\ pc[r] = "save" /\ r \notin Saved
         /\ arg[r].email \in Emails
         /\ email' = [email EXCEPT ![r] = arg[r].email]
         /\ verified' \subseteq verified \cup {r}
         /\ r \in verified' => arg[r].verified
         /\ UNCHANGED history
         /\ Saved' = Saved \cup {r}
<1>1. pc[r] = "save" /\ email' = [email EXCEPT ![r] = arg[r].email]
      /\ UNCHANGED history
  BY DEF StoreAccount
<1>2. op[r] = "signUp" /\ r \notin Saved
  <2>1. op[r] \in Ops /\ pc[r] \in RouteOf(op[r]) \cup Final
    BY DEF TypeInv, TypeOK, StageInv
  <2>2. op[r] = "signUp"
    BY <1>1, <2>1 DEF RouteOf, Final, Ops
  <2> QED BY <1>1, <2>2 DEF TypeInv, SavedInv, Final
<1>3. arg[r] \in SignUps
  BY <1>2, ArgTypes DEF TypeInv
<1>4. Saved' = Saved \cup {r}
  BY <1>1, <1>3, NothingAssumption DEF Saved, SignUps, TypeInv, TypeOK
<1>5. verified' \subseteq verified \cup {r} /\ (r \in verified' => arg[r].verified)
  BY <1>2 DEF StoreAccount, TypeInv, TypeOK
<1> QED BY <1>1, <1>2, <1>3, <1>4, <1>5 DEF SignUps

LEMMA UpdateIs ==
  ASSUME TypeInv, NEW r \in Requests, StoreEmail(r)
  PROVE  /\ op[r] = "changeEmail" /\ arg[r].acc \in Saved /\ arg[r].email \in Emails
         /\ email' = [email EXCEPT ![arg[r].acc] = arg[r].email]
         /\ changed' = changed \cup {arg[r].acc}
         /\ UNCHANGED <<verified, seen, seenName>>
         /\ Saved' = Saved
<1>1. /\ op[r] = "changeEmail"
      /\ email' = [email EXCEPT ![arg[r].acc] = arg[r].email]
      /\ changed' = changed \cup {arg[r].acc}
      /\ UNCHANGED <<verified, seen, seenName>>
  BY DEF StoreEmail
<1>2. arg[r].acc \in Saved
  BY <1>1 DEF TypeInv, OwnInv, Naming, Tokened
<1>3. arg[r] \in Logins
  BY <1>1, ArgTypes DEF TypeInv
<1>4. Saved' = Saved
  BY <1>1, <1>2, <1>3, NothingAssumption DEF Saved, Logins, TypeInv, TypeOK
<1> QED BY <1>1, <1>2, <1>3, <1>4 DEF Logins

LEMMA VerifyIs ==
  ASSUME TypeInv, NEW r \in Requests, StoreVerified(r)
  PROVE  /\ op[r] = "verifyOtp" /\ pc[r] = "update" /\ arg[r].acc \in Saved
         /\ verified' = verified \cup {arg[r].acc}
         /\ UNCHANGED <<email, history>>
<1>1. /\ op[r] = "verifyOtp" /\ pc[r] = "update"
      /\ verified' = verified \cup {arg[r].acc}
      /\ UNCHANGED <<email, history>>
  BY DEF StoreVerified
<1> QED BY <1>1 DEF TypeInv, OwnInv, Naming, Tokened

\* Accounts stay, with what their sign-ups saw; their e-mails change only with a
\* mark in changed; what a request is it stays.
LEMMA Grows ==
  ASSUME TypeInv, [Next]_vars
  PROVE  /\ Saved \subseteq Saved' /\ changed \subseteq changed'
         /\ \A a \in Saved : email'[a] = email[a] \/ a \in changed'
         /\ \A r \in Requests : op[r] # "none" =>
              op'[r] = op[r] /\ arg'[r] = arg[r] /\ (reply[r] = "ok" => reply'[r] = "ok")
<1> USE DEF TypeInv
<1>1. Saved \subseteq Saved' /\ changed \subseteq changed'
      /\ \A a \in Saved : email'[a] = email[a] \/ a \in changed'
  <2>1. CASE UNCHANGED <<users, changed>>
    BY <2>1 DEF users, Saved
  <2>2. ASSUME NEW r \in Requests, StoreAccount(r)
        PROVE  Saved \subseteq Saved' /\ changed \subseteq changed'
               /\ \A a \in Saved : email'[a] = email[a] \/ a \in changed'
    BY <2>2, SaveIs DEF history, TypeOK, Saved
  <2>3. ASSUME NEW r \in Requests, StoreEmail(r)
        PROVE  Saved \subseteq Saved' /\ changed \subseteq changed'
               /\ \A a \in Saved : email'[a] = email[a] \/ a \in changed'
    BY <2>3, UpdateIs DEF TypeOK, Saved
  <2>4. ASSUME NEW r \in Requests, StoreVerified(r)
        PROVE  Saved \subseteq Saved' /\ changed \subseteq changed'
               /\ \A a \in Saved : email'[a] = email[a] \/ a \in changed'
    BY <2>4, VerifyIs DEF history, Saved
  <2> QED BY <2>1, <2>2, <2>3, <2>4, WritesAre
<1>2. ASSUME NEW q \in Requests, op[q] # "none"
      PROVE  op'[q] = op[q] /\ arg'[q] = arg[q] /\ (reply[q] = "ok" => reply'[q] = "ok")
  <2>1. ASSUME NEW r \in Requests, NEW o, NEW first, NEW x, Asked(r, o, first, x)
        PROVE  op'[q] = op[q] /\ arg'[q] = arg[q] /\ UNCHANGED reply
    BY <1>2, <2>1 DEF Asked, Start, TypeOK
  <2>2. ASSUME NEW r \in Requests, Handle(r)
        PROVE  op'[q] = op[q] /\ arg'[q] = arg[q] /\ (reply[q] = "ok" => reply'[q] = "ok")
    <3>1. UNCHANGED <<op, arg>> /\ (q # r => reply'[q] = reply[q])
      BY <2>2, HandleMoves DEF Moved, TypeOK
    <3> QED BY <2>2, <3>1, HandleMoves DEF StageInv, Final
  <2>3. ASSUME NEW r \in Requests, DbError(r)
        PROVE  op'[q] = op[q] /\ arg'[q] = arg[q] /\ (reply[q] = "ok" => reply'[q] = "ok")
    BY <2>3 DEF StageInv, Final, DbError, TypeOK, request, Awaits
  <2>4. ASSUME NEW p \in Replicas, Kill(p) PROVE UNCHANGED <<op, arg, reply>>
    BY <2>4 DEF Kill, request
  <2>5. CASE UNCHANGED vars
    BY <2>5 DEF vars, request
  <2> QED BY <2>1, <2>2, <2>3, <2>4, <2>5, NextIs, AskIs
<1> QED BY <1>1, <1>2

\* The arguments.
LEMMA ArgStep ==
  ASSUME TypeInv, [Next]_vars
  PROVE  op' \in [Requests -> Ops] /\ arg' \in [Requests -> Args]
         /\ \A r \in Requests : arg'[r] \in ArgsOf(op'[r])
<1> USE DEF TypeInv, TypeOK
<1>1. ASSUME NEW r \in Requests, NEW o, NEW first, NEW x, Asked(r, o, first, x)
      PROVE  op' \in [Requests -> Ops] /\ arg' \in [Requests -> Args] /\ \A q \in Requests : arg'[q] \in ArgsOf(op'[q])
  <2>1. op' = [op EXCEPT ![r] = o] /\ arg' = [arg EXCEPT ![r] = x]
        /\ o \in Ops /\ x \in ArgsOf(o)
    BY <1>1 DEF Asked, Start
  <2>2. ASSUME NEW q \in Requests PROVE arg'[q] \in ArgsOf(op'[q])
    <3>1. CASE q = r
      BY <2>1, <3>1
    <3>2. CASE q # r
      BY <2>1, <3>2
    <3> QED BY <3>1, <3>2
  <2>3. x \in Args
    BY <2>1 DEF Args
  <2> QED BY <2>1, <2>2, <2>3
<1>2. ASSUME UNCHANGED <<op, arg>>
      PROVE  op' \in [Requests -> Ops] /\ arg' \in [Requests -> Args] /\ \A q \in Requests : arg'[q] \in ArgsOf(op'[q])
  BY <1>2
<1>3. ASSUME NEW r \in Requests, Handle(r) \/ DbError(r) PROVE UNCHANGED <<op, arg>>
  BY <1>3, HandleMoves DEF Moved, DbError, request
<1>4. ASSUME NEW p \in Replicas, Kill(p) PROVE UNCHANGED <<op, arg>>
  BY <1>4 DEF Kill, request
<1>5. CASE UNCHANGED vars
  BY <1>2, <1>5 DEF vars, request
<1> QED BY <1>1, <1>2, <1>3, <1>4, <1>5, NextIs, AskIs

\* The users.
LEMMA UserStep ==
  ASSUME TypeInv, [Next]_vars
  PROVE  email' \in [Requests -> Emails \cup {NoEmail}]
         /\ verified' \subseteq Saved' /\ changed' \subseteq Saved'
<1> USE DEF TypeInv, TypeOK
<1>1. CASE UNCHANGED <<users, changed>>
  BY <1>1 DEF users, Saved
<1>2. ASSUME NEW r \in Requests, StoreAccount(r)
      PROVE  email' \in [Requests -> Emails \cup {NoEmail}]
             /\ verified' \subseteq Saved' /\ changed' \subseteq Saved'
  BY <1>2, SaveIs DEF history
<1>3. ASSUME NEW r \in Requests, StoreEmail(r)
      PROVE  email' \in [Requests -> Emails \cup {NoEmail}]
             /\ verified' \subseteq Saved' /\ changed' \subseteq Saved'
  BY <1>3, UpdateIs DEF Saved
<1>4. ASSUME NEW r \in Requests, StoreVerified(r)
      PROVE  email' \in [Requests -> Emails \cup {NoEmail}]
             /\ verified' \subseteq Saved' /\ changed' \subseteq Saved'
  BY <1>4, VerifyIs DEF Saved, history
<1> QED BY <1>1, <1>2, <1>3, <1>4, WritesAre

Local == <<found, mailTo, fits, seen, seenName>>

\* What the handlers keep for themselves, and the history.
LocalOK ==
  /\ found    \in [Requests -> Requests]
  /\ mailTo   \in [Requests -> Emails \cup {NoEmail}]
  /\ fits     \subseteq Requests
  /\ seen     \in [Requests -> SUBSET Requests]
  /\ seenName \in [Requests -> SUBSET Requests]

LEMMA LocalStep ==
  ASSUME TypeInv, [Next]_vars
  PROVE  LocalOK' /\ faults' \in 0..MaxFaults
<1>0. LocalOK /\ Saved \subseteq Requests /\ faults \in 0..MaxFaults
  BY DEF TypeInv, TypeOK, LocalOK, Saved
<1>1. ASSUME UNCHANGED Local PROVE LocalOK'
  BY <1>0, <1>1 DEF Local, LocalOK
<1>2. ASSUME NEW r \in Requests, LookupEmail(r) \/ LookupName(r) PROVE LocalOK'
  BY <1>0, <1>2 DEF LookupEmail, LookupName, LocalOK
<1>3. ASSUME NEW r \in Requests, LookupLogin(r) PROVE LocalOK'
  BY <1>0, <1>3 DEF LookupLogin, LocalOK, history
<1>4. ASSUME NEW r \in Requests, Mail(r) PROVE LocalOK'
  <2>1. email[arg[r].acc] \in Emails \cup {NoEmail}
    BY <1>4, ArgTypes DEF Mail, TypeInv, TypeOK, Naming, Tokened
  <2> QED BY <1>0, <1>4, <2>1 DEF Mail, LocalOK, history
<1>5. ASSUME NEW r \in Requests, Handle(r) PROVE LocalOK' /\ UNCHANGED faults
  <2>1. UNCHANGED faults
    BY <1>5, HandleMoves DEF Moved
  <2>2. CASE \/ Auth(r) \/ Save(r) \/ Find(r) \/ UpdateEmail(r) \/ MailSent(r)
             \/ CheckOtp(r) \/ UpdateVerified(r) \/ Answer(r)
    <3>1. UNCHANGED Local
      <4>1. CASE Auth(r) \/ Find(r)
        BY <4>1 DEF Local, Auth, Find, history
      <4>2. CASE Save(r) \/ UpdateEmail(r) \/ UpdateVerified(r)
        BY <4>2 DEF Local, Save, UpdateEmail, UpdateVerified,
                     StoreAccount, StoreEmail, StoreVerified, history
      <4>3. CASE MailSent(r) \/ CheckOtp(r) \/ Answer(r)
        BY <4>3 DEF Local, MailSent, CheckOtp, Answer, history
      <4> QED BY <2>2, <4>1, <4>2, <4>3
    <3> QED BY <1>1, <2>1, <3>1
  <2> QED BY <1>2, <1>3, <1>4, <1>5, <2>1, <2>2 DEF Handle
<1>6. ASSUME NEW r \in Requests, DbError(r)
      PROVE  LocalOK' /\ faults' \in 0..MaxFaults
  BY <1>0, <1>1, <1>6, BoundsAssumption
     DEF DbError, Fault, StoreAccount, StoreEmail, StoreVerified, Local, history
<1>7. ASSUME NEW p \in Replicas, Kill(p) PROVE LocalOK'
  BY <1>1, <1>7 DEF Kill, Local, history
<1>8. ASSUME NEW r \in Requests, NEW o, NEW first, NEW x, Asked(r, o, first, x)
      PROVE  LocalOK' /\ UNCHANGED faults
  BY <1>1, <1>8 DEF Asked, Start, Local, history
<1>9. CASE UNCHANGED vars
  BY <1>0, <1>1, <1>9 DEF vars, Local, history
<1> QED BY <1>0, <1>5, <1>6, <1>7, <1>8, <1>9, NextIs, AskIs, BoundsAssumption

\* SavedInv is inductive.
LEMMA SavedStep ==
  ASSUME TypeInv, [Next]_vars
  PROVE  SavedInv'
<1> USE DEF TypeInv
<1>0. StageInv' /\ Saved \subseteq Saved'
  BY StageStep, Grows
<1>1. ASSUME NEW r \in Requests, Save(r) PROVE SavedInv'
  <2>1. Saved' = Saved \cup {r} /\ op[r] = "signUp" /\ UNCHANGED op
    BY <1>1, SaveIs DEF Save, Go, request
  <2>2. Moved(r, "answer", reply[r])
    BY <1>1, GoMoves DEF Save
  <2> QED BY <2>1, <2>2 DEF SavedInv, Moved, TypeOK
<1>2. ASSUME NEW r \in Requests, StoreEmail(r) \/ StoreVerified(r) \/ UNCHANGED users
      PROVE  Saved' = Saved
  BY <1>2, UpdateIs, VerifyIs DEF users, Saved
<1>3. ASSUME NEW r \in Requests, Handle(r), ~Save(r) PROVE SavedInv'
  <2>0. Saved' = Saved
    BY <1>2, <1>3, HandleWrites
  <2>1. UNCHANGED op
    BY <1>3, HandleMoves DEF Moved
  <2>2. \A q \in Requests : q # r => pc'[q] = pc[q] /\ reply'[q] = reply[q]
    BY <1>3, HandleMoves DEF Moved, TypeOK
  <2>3. r \in Saved => pc[r] = "answer"
    BY <1>3, HandleMoves DEF SavedInv, Final
  <2>4. pc[r] = "answer" => Answer(r)
    BY <1>3 DEF Handle, Auth, LookupEmail, LookupName, LookupLogin, Find, UpdateEmail, Mail,
                MailSent, CheckOtp, UpdateVerified, Go, Refuse
  <2>5. r \in Saved => pc'[r] = "done"
    BY <2>3, <2>4 DEF Answer, TypeOK
  <2>6. op[r] = "signUp" /\ (pc'[r] = "answer" \/ reply'[r] = "ok") => r \in Saved
    <3>1. pc[r] = "mail" => op[r] = "sendOtp"
      BY DEF StageInv, RouteOf, Final, TypeOK, Ops
    <3>2. Answer(r) => pc[r] = "answer"
      BY DEF Answer
    <3>3. op[r] = "signUp" => \/ LookupEmail(r) \/ LookupName(r) \/ Answer(r)
      BY <1>3, <3>1 DEF Handle, LookupLogin, Find, UpdateEmail, Mail, MailSent, UpdateVerified,
                        Auth, CheckOtp, StoreEmail, StoreVerified, StageInv, RouteOf, Final
    <3>4. LookupEmail(r) \/ LookupName(r) => pc'[r] # "answer" /\ (reply'[r] = "ok" => reply[r] = "ok")
      BY GoMoves, RefuseMoves DEF LookupEmail, LookupName, Moved, TypeOK
    <3> QED BY <3>2, <3>3, <3>4 DEF SavedInv
  <2> QED BY <1>3, <2>0, <2>1, <2>2, <2>3, <2>5, <2>6 DEF SavedInv, Final
<1>4. ASSUME NEW r \in Requests, DbError(r) PROVE SavedInv'
  <2>1. \/ Saved' = Saved
        \/ Saved' = Saved \cup {r} /\ op[r] = "signUp"
    BY <1>2, <1>4, SaveIs DEF DbError
  <2> QED BY <1>4, <2>1 DEF DbError, SavedInv, Final, TypeOK, request
<1>5. ASSUME NEW p \in Replicas, Kill(p) PROVE SavedInv'
  BY <1>5 DEF Kill, users, Saved, SavedInv, Final, TypeOK, request
<1>6. ASSUME NEW r \in Requests, NEW o, NEW first, NEW x, Asked(r, o, first, x)
      PROVE  SavedInv'
  BY <1>6 DEF Asked, Start, users, Saved, SavedInv, StageInv, TypeOK
<1>7. CASE UNCHANGED vars
  BY <1>7 DEF vars, request, users, SavedInv, Saved
<1> QED BY <1>1, <1>2, <1>3, <1>4, <1>5, <1>6, <1>7, NextIs, AskIs

-----------------------------------------------------------------------------
(* What a step does to one request. *)

\* Request q does not run: it is as it was, starts, fails or dies.
Kept(q) ==
  /\ found'[q] = found[q] /\ mailTo'[q] = mailTo[q]
  /\ seen'[q] = seen[q] /\ seenName'[q] = seenName[q]
  /\ q \in fits' <=> q \in fits
  /\ \/ pc'[q] = pc[q]
     \/ pc'[q] \in {"failed", "killed"}
     \/ op[q] = "none" /\ pc'[q] \in {"lookup", "auth"}
  /\ reply'[q] \in {reply[q], "error"}

LEMMA StepOf ==
  ASSUME TypeInv, [Next]_vars, NEW q \in Requests
  PROVE  Handle(q) \/ Kept(q)
<1> USE DEF TypeInv
<1>0. LocalOK /\ pc \in [Requests -> Stages] /\ reply \in [Requests -> {"none", "ok", "refused", "error"}]
  BY DEF TypeOK, LocalOK
<1>1. ASSUME NEW r \in Requests, NEW o, NEW first, NEW x, Asked(r, o, first, x)
      PROVE  Kept(q)
  <2>1. op[r] = "none" /\ first \in {"lookup", "auth"} /\ pc' = [pc EXCEPT ![r] = first]
        /\ UNCHANGED <<Local, reply>>
    BY <1>1 DEF Asked, Start, Local, history
  <2> QED BY <1>0, <2>1 DEF Kept, Local
<1>2. ASSUME NEW r \in Requests, r # q, Handle(r) PROVE Kept(q)
  <2>1. pc'[q] = pc[q] /\ reply'[q] = reply[q]
    BY <1>0, <1>2, HandleMoves DEF Moved
  <2>2. /\ found'[q] = found[q] /\ mailTo'[q] = mailTo[q]
        /\ seen'[q] = seen[q] /\ seenName'[q] = seenName[q]
        /\ q \in fits' <=> q \in fits
    <3>1. CASE Auth(r) \/ Find(r) \/ Save(r) \/ UpdateEmail(r) \/ UpdateVerified(r)
      BY <3>1 DEF Auth, Find, Save, UpdateEmail, UpdateVerified,
                  StoreAccount, StoreEmail, StoreVerified, history
    <3>2. CASE MailSent(r) \/ CheckOtp(r) \/ Answer(r)
      BY <3>2 DEF MailSent, CheckOtp, Answer, history
    <3>3. CASE LookupEmail(r) \/ LookupName(r)
      BY <1>0, <1>2, <3>3 DEF LookupEmail, LookupName, LocalOK
    <3>4. CASE LookupLogin(r)
      BY <1>0, <1>2, <3>4 DEF LookupLogin, LocalOK, history
    <3>5. CASE Mail(r)
      BY <1>0, <1>2, <3>5 DEF Mail, LocalOK, history
    <3> QED BY <1>2, <3>1, <3>2, <3>3, <3>4, <3>5 DEF Handle
  <2> QED BY <2>1, <2>2 DEF Kept
<1>3. ASSUME NEW r \in Requests, DbError(r) PROVE Kept(q)
  BY <1>0, <1>3 DEF DbError, StoreAccount, StoreEmail, StoreVerified, Kept, history
<1>4. ASSUME NEW p \in Replicas, Kill(p) PROVE Kept(q)
  BY <1>0, <1>4 DEF Kill, Kept, history
<1>5. CASE UNCHANGED vars
  BY <1>5 DEF vars, Kept, history
<1> QED BY <1>1, <1>2, <1>3, <1>4, <1>5, NextIs, AskIs

\* A request is what it was, or it starts now.
LEMMA StartOf ==
  ASSUME TypeInv, [Next]_vars, NEW q \in Requests
  PROVE  \/ op'[q] = op[q] /\ arg'[q] = arg[q]
         \/ op[q] = "none" /\ \E o, first, x : Asked(q, o, first, x)
<1> USE DEF TypeInv, TypeOK
<1>1. ASSUME NEW r \in Requests, NEW o, NEW first, NEW x, Asked(r, o, first, x)
      PROVE  \/ op'[q] = op[q] /\ arg'[q] = arg[q]
             \/ op[q] = "none" /\ q = r
  BY <1>1 DEF Asked, Start
<1>2. ASSUME NEW r \in Requests, Handle(r) \/ DbError(r) PROVE UNCHANGED <<op, arg>>
  BY <1>2, HandleMoves DEF Moved, DbError, request
<1>3. ASSUME NEW p \in Replicas, Kill(p) PROVE UNCHANGED <<op, arg>>
  BY <1>3 DEF Kill, request
<1>4. CASE UNCHANGED vars
  BY <1>4 DEF vars, request
<1> QED BY <1>1, <1>2, <1>3, <1>4, NextIs, AskIs

\* A login keeps what it found, except at its lookup.
LEMMA LoginOf ==
  ASSUME TypeInv, [Next]_vars, NEW q \in Requests, op'[q] = "login"
  PROVE  \/ op[q] = "login" /\ LookupLogin(q)
         \/ /\ op[q] \in {"none", "login"} /\ found'[q] = found[q]
            /\ pc'[q] = "answer" => pc[q] = "answer"
            /\ reply'[q] = "ok" => pc[q] = "answer" \/ reply[q] = "ok"
            /\ reply'[q] = "refused" => reply[q] = "refused"
<1> USE DEF TypeInv
<1>1. CASE Handle(q)
  <2>1. op[q] = "login"
    BY <1>1, HandleMoves DEF Moved
  <2>2. pc[q] \in {"lookup", "answer"} \cup Final
    BY <2>1 DEF StageInv, RouteOf
  <2>3. LookupLogin(q) \/ Answer(q)
    BY <1>1, <2>1, <2>2 DEF Handle, Auth, LookupEmail, LookupName, Save, Find, UpdateEmail, Mail,
                            MailSent, CheckOtp, UpdateVerified, Go, Refuse, Final
  <2>4. CASE Answer(q)
    BY <2>1, <2>4 DEF Answer, TypeOK
  <2> QED BY <2>1, <2>3, <2>4
<1>2. CASE Kept(q)
  <2>1. op[q] \in {"none", "login"}
    BY StartOf
  <2>2. op[q] = "none" => pc[q] = "idle" /\ reply[q] = "none"
    BY DEF StageInv
  <2> QED BY <1>2, <2>1, <2>2 DEF Kept
<1> QED BY <1>1, <1>2, StepOf

\* OwnInv is inductive.
LEMMA OwnStep ==
  ASSUME TypeInv, [Next]_vars
  PROVE  OwnInv'
<1> USE DEF TypeInv
<1>0. Saved \subseteq Saved'
  BY Grows
<1>1. ASSUME NEW q \in Requests, op'[q] \in Naming
      PROVE  (arg'[q].acc \in Saved /\ Who[arg'[q].acc] = Who[q])
  <2>1. CASE op'[q] = op[q] /\ arg'[q] = arg[q]
    BY <1>1, <2>1 DEF OwnInv
  <2>2. ASSUME NEW o, NEW first, NEW x, Asked(q, o, first, x)
        PROVE  arg'[q].acc \in Saved /\ Who[arg'[q].acc] = Who[q]
    BY <1>1, <2>2 DEF Asked, Start, TypeOK
  <2> QED BY <2>1, <2>2, StartOf
<1>2. ASSUME NEW q \in Requests, op'[q] = "login", pc'[q] = "answer" \/ reply'[q] = "ok"
      PROVE  found'[q] \in Saved /\ Who[found'[q]] = Who[q]
  <2>1. CASE op[q] = "login" /\ LookupLogin(q)
    <3>1. reply[q] # "ok"
      BY <2>1 DEF LookupLogin, Refuse, Go, StageInv
    <3>2. Refuse(q, "lookup") => pc'[q] # "answer" /\ reply'[q] # "ok"
      BY DEF Refuse, TypeOK
    <3>3. PICK a \in {b \in Saved : email[b] = arg[q].email} :
             /\ found' = [found EXCEPT ![q] = a] /\ Who[a] = Who[q]
      BY <1>2, <2>1, <3>2 DEF LookupLogin
    <3> QED BY <3>3 DEF TypeOK
  <2>2. CASE /\ op[q] \in {"none", "login"} /\ found'[q] = found[q]
             /\ pc'[q] = "answer" => pc[q] = "answer"
             /\ reply'[q] = "ok" => pc[q] = "answer" \/ reply[q] = "ok"
    <3>1. op[q] = "login"
      BY <1>2, <2>2 DEF StageInv
    <3> QED BY <1>2, <2>2, <3>1 DEF OwnInv
  <2> QED BY <1>2, <2>1, <2>2, LoginOf
<1> QED BY <1>0, <1>1, <1>2 DEF OwnInv

LEMMA TypeInit == Init => TypeInv
<1> SUFFICES ASSUME Init PROVE TypeInv
  OBVIOUS
<1>1. TypeOK
  BY NothingAssumption, BoundsAssumption
     DEF Init, TypeOK, Ops, Args, ArgsOf, Stages, Saved
<1>2. Saved = {}
  BY DEF Init, Saved
<1>3. StageInv /\ SavedInv /\ OwnInv
  BY <1>2 DEF Init, StageInv, SavedInv, OwnInv, RouteOf, Naming, Tokened
<1> QED BY <1>1, <1>3 DEF TypeInv

LEMMA TypeStep == TypeInv /\ [Next]_vars => TypeInv'
<1> SUFFICES ASSUME TypeInv, [Next]_vars PROVE TypeInv'
  OBVIOUS
<1>1. TypeOK'
  BY ArgStep, StageStep, UserStep, LocalStep DEF TypeOK, LocalOK
<1> QED BY <1>1, StageStep, SavedStep, OwnStep DEF TypeInv

\* TypeOK, in every behaviour: with it that a request is only ever at an await of
\* its own route, and acts on a saved account of the person that makes it.
THEOREM TypeCorrect == Spec => []TypeOK
<1>1. TypeInv => TypeOK
  BY DEF TypeInv
<1> QED BY <1>1, TypeInit, TypeStep, PTL DEF Spec

-----------------------------------------------------------------------------
(* E-mails and usernames. *)

\* The e-mail of an account is the one it signed up with, until it is changed.
KeptInv == \A a \in Saved \ changed : email[a] = arg[a].email

\* A sign-up past a lookup saw only other e-mails there, or usernames.
SeenInv == \A r \in Requests :
  op[r] = "signUp" /\ (pc[r] \in {"lookupName", "save"} \/ r \in Saved) =>
    \A a \in seen[r] : a \in Saved /\ (email[a] = arg[r].email => a \in changed)
NameInv == \A r \in Requests :
  op[r] = "signUp" /\ (pc[r] = "save" \/ r \in Saved) =>
    \A a \in seenName[r] : a \in Saved /\ arg[a].name # arg[r].name

\* A sign-up keeps what it saw, except at its lookups.
LEMMA SignUpOf ==
  ASSUME TypeInv, [Next]_vars, NEW q \in Requests, op'[q] = "signUp"
  PROVE  \/ op[q] = "signUp" /\ LookupEmail(q)
         \/ op[q] = "signUp" /\ LookupName(q)
         \/ /\ seen'[q] = seen[q] /\ seenName'[q] = seenName[q]
            /\ pc'[q] \in {"lookupName", "save"} => pc'[q] = pc[q]
            /\ q \in Saved' => q \in Saved \/ pc[q] = "save"
            /\ op[q] \in {"none", "signUp"}
            /\ op[q] = "none" => pc'[q] \notin {"lookupName", "save"} /\ q \notin Saved'
<1> USE DEF TypeInv
<1>1. q \in Saved' => q \in Saved \/ (pc[q] = "save" /\ op[q] = "signUp")
  <2>1. CASE UNCHANGED <<users, changed>>
    BY <2>1 DEF users, Saved
  <2>2. ASSUME NEW r \in Requests, StoreAccount(r)
        PROVE  q \in Saved' => q \in Saved \/ (pc[q] = "save" /\ op[q] = "signUp")
    BY <2>2, SaveIs
  <2>3. ASSUME NEW r \in Requests, StoreEmail(r) \/ StoreVerified(r)
        PROVE  q \in Saved' => q \in Saved
    BY <2>3, UpdateIs, VerifyIs DEF Saved
  <2> QED BY <2>1, <2>2, <2>3, WritesAre
<1>2. CASE Handle(q)
  <2>1. op[q] = "signUp"
    BY <1>2, HandleMoves DEF Moved
  <2>2. pc[q] \in {"lookup", "lookupName", "save", "answer"} \cup Final
    BY <2>1 DEF StageInv, RouteOf
  <2>3. LookupEmail(q) \/ LookupName(q) \/ Save(q) \/ Answer(q)
    BY <1>2, <2>1, <2>2 DEF Handle, Auth, LookupLogin, Find, UpdateEmail, Mail,
                            MailSent, CheckOtp, UpdateVerified, Go, Refuse, Final
  <2>4. CASE Save(q)
    BY <1>1, <2>1, <2>4 DEF Save, StoreAccount, Go, TypeOK, history
  <2>5. CASE Answer(q)
    BY <1>1, <2>1, <2>5 DEF Answer, TypeOK, history
  <2> QED BY <2>1, <2>3, <2>4, <2>5
<1>3. CASE Kept(q)
  <2>1. op[q] \in {"none", "signUp"}
    BY StartOf
  <2>2. op[q] = "none" => pc[q] = "idle" /\ q \notin Saved
    BY DEF StageInv, SavedInv
  <2> QED BY <1>1, <1>3, <2>1, <2>2 DEF Kept
<1> QED BY <1>2, <1>3, StepOf

\* What a saved account's sign-up saw stays as it is.
LEMMA SeenStays ==
  ASSUME TypeInv, [Next]_vars, NEW q \in Saved
  PROVE  seen'[q] = seen[q] /\ seenName'[q] = seenName[q] /\ op[q] = "signUp"
         /\ op'[q] = "signUp" /\ arg'[q] = arg[q]
<1>1. q \in Requests /\ op[q] = "signUp" /\ pc[q] \in {"answer"} \cup Final
  BY DEF Saved, TypeInv, SavedInv
<1>2. op'[q] = "signUp" /\ arg'[q] = arg[q]
  BY <1>1, Grows
<1>3. ~LookupEmail(q) /\ ~LookupName(q)
  BY <1>1 DEF LookupEmail, LookupName, Go, Refuse, Final
<1> QED BY <1>1, <1>2, <1>3, SignUpOf

LEMMA KeptStep ==
  ASSUME TypeInv, KeptInv, [Next]_vars
  PROVE  KeptInv'
<1> SUFFICES ASSUME NEW a \in Saved', a \notin changed' PROVE email'[a] = arg'[a].email
  BY DEF KeptInv
<1>1. CASE a \in Saved
  <2>1. email'[a] = email[a] /\ a \notin changed
    BY <1>1, Grows
  <2> QED BY <1>1, <2>1, SeenStays DEF KeptInv
<1>2. CASE a \notin Saved
  <2>1. PICK r \in Requests : StoreAccount(r) /\ UNCHANGED arg
    BY <1>2, WritesAre, UpdateIs, VerifyIs DEF users, Saved
  <2>2. a = r
    BY <1>2, <2>1, SaveIs
  <2> QED BY <2>1, <2>2, SaveIs DEF TypeInv, TypeOK
<1> QED BY <1>1, <1>2

LEMMA SeenStep ==
  ASSUME TypeInv, SeenInv, [Next]_vars
  PROVE  SeenInv'
<1> USE DEF TypeInv
<1> SUFFICES ASSUME NEW r \in Requests, op'[r] = "signUp",
                    pc'[r] \in {"lookupName", "save"} \/ r \in Saved',
                    NEW a \in seen'[r]
             PROVE  a \in Saved' /\ (email'[a] = arg'[r].email => a \in changed')
  BY DEF SeenInv
<1>1. ASSUME a \in Saved, op[r] = "signUp", email[a] = arg[r].email => a \in changed
      PROVE  a \in Saved' /\ (email'[a] = arg'[r].email => a \in changed')
  BY <1>1, Grows
<1>2. CASE op[r] = "signUp" /\ LookupEmail(r)
  <2>1. seen'[r] = Saved /\ Saved' = Saved /\ email' = email
    BY <1>2 DEF LookupEmail, users, Saved, TypeOK
  <2>2. r \notin Saved
    BY <1>2 DEF LookupEmail, Go, Refuse, SavedInv, Final
  <2>3. ~\E b \in Saved : email[b] = arg[r].email
    BY <1>2, <2>1, <2>2 DEF LookupEmail, Refuse, TypeOK
  <2> QED BY <1>1, <1>2, <2>1, <2>3
<1>3. CASE op[r] = "signUp" /\ LookupName(r)
  <2>1. pc[r] = "lookupName" /\ seen' = seen
    BY <1>3 DEF LookupName
  <2> QED BY <1>1, <1>3, <2>1 DEF SeenInv
<1>4. CASE /\ seen'[r] = seen[r]
           /\ pc'[r] \in {"lookupName", "save"} => pc'[r] = pc[r]
           /\ r \in Saved' => r \in Saved \/ pc[r] = "save"
           /\ op[r] = "signUp"
  BY <1>1, <1>4 DEF SeenInv
<1> QED BY <1>2, <1>3, <1>4, SignUpOf

LEMMA NameStep ==
  ASSUME TypeInv, NameInv, [Next]_vars
  PROVE  NameInv'
<1> USE DEF TypeInv
<1> SUFFICES ASSUME NEW r \in Requests, op'[r] = "signUp", pc'[r] = "save" \/ r \in Saved',
                    NEW a \in seenName'[r]
             PROVE  a \in Saved' /\ arg'[a].name # arg'[r].name
  BY DEF NameInv
<1>1. ASSUME a \in Saved, op[r] = "signUp", arg[a].name # arg[r].name
      PROVE  a \in Saved' /\ arg'[a].name # arg'[r].name
  BY <1>1, Grows, SeenStays
<1>2. CASE op[r] = "signUp" /\ LookupEmail(r)
  <2>1. r \notin Saved' /\ pc'[r] # "save"
    BY <1>2 DEF LookupEmail, Go, Refuse, SavedInv, Final, users, Saved, TypeOK
  <2> QED BY <2>1
<1>3. CASE op[r] = "signUp" /\ LookupName(r)
  <2>1. seenName'[r] = Saved /\ Saved' = Saved
    BY <1>3 DEF LookupName, users, Saved, TypeOK
  <2>2. r \notin Saved
    BY <1>3 DEF LookupName, SavedInv, Final
  <2>3. ~\E b \in Saved : arg[b].name = arg[r].name
    BY <1>3, <2>1, <2>2 DEF LookupName, Refuse, TypeOK
  <2> QED BY <1>1, <1>3, <2>1, <2>3
<1>4. CASE /\ seenName'[r] = seenName[r]
           /\ pc'[r] \in {"lookupName", "save"} => pc'[r] = pc[r]
           /\ r \in Saved' => r \in Saved \/ pc[r] = "save"
           /\ op[r] = "signUp"
  BY <1>1, <1>4 DEF NameInv
<1> QED BY <1>2, <1>3, <1>4, SignUpOf

LEMMA ApartInit == Init => KeptInv /\ SeenInv /\ NameInv
<1> SUFFICES ASSUME Init PROVE KeptInv /\ SeenInv /\ NameInv
  OBVIOUS
<1>1. Saved = {}
  BY DEF Init, Saved
<1> QED BY <1>1 DEF Init, KeptInv, SeenInv, NameInv

\* Of any two accounts: of an inductive invariant that says what a sign-up saw.
LEMMA EmailsOf ==
  ASSUME TypeInv, KeptInv, SeenInv
  PROVE  EmailsApart
<1>1. ASSUME NEW a \in Saved, NEW b \in Saved, email[a] = email[b],
             a \notin changed, b \notin changed
      PROVE  a \notin seen[b]
  <2>1. op[b] = "signUp" /\ b \in Requests /\ email[b] = arg[b].email
    BY <1>1 DEF TypeInv, SavedInv, KeptInv, Saved
  <2> QED BY <1>1, <2>1 DEF SeenInv
<1> QED BY <1>1 DEF EmailsApart, Overlapped

\* EmailsApart, in every behaviour.
THEOREM EmailsApartAlways == Spec => []EmailsApart
<1>1. TypeInv /\ KeptInv /\ SeenInv /\ [Next]_vars => (TypeInv /\ KeptInv /\ SeenInv)'
  BY TypeStep, KeptStep, SeenStep
<1>2. Init => TypeInv /\ KeptInv /\ SeenInv
  BY TypeInit, ApartInit
<1>3. TypeInv /\ KeptInv /\ SeenInv => EmailsApart
  BY EmailsOf
<1> QED BY <1>1, <1>2, <1>3, PTL DEF Spec

\* NamesApart, in every behaviour.
THEOREM NamesApartAlways == Spec => []NamesApart
<1>1. TypeInv /\ NameInv /\ [Next]_vars => (TypeInv /\ NameInv)'
  BY TypeStep, NameStep
<1>2. Init => TypeInv /\ NameInv
  BY TypeInit, ApartInit
<1>3. ASSUME TypeInv, NameInv PROVE NamesApart
  <2>1. ASSUME NEW a \in Saved, NEW b \in Saved, arg[a].name = arg[b].name
        PROVE  a \notin seenName[b]
    <3>1. op[b] = "signUp" /\ b \in Requests
      BY <1>3 DEF TypeInv, SavedInv, Saved
    <3> QED BY <1>3, <2>1, <3>1 DEF NameInv
  <2> QED BY <2>1 DEF NamesApart, OverlappedName
<1> QED BY <1>1, <1>2, <1>3, PTL DEF Spec

-----------------------------------------------------------------------------
(* Logins. *)

\* A login names the e-mail its account had, and so has, unless it was changed; if
\* it was turned away, then for one of the reasons of LoginFindsOwner.
LoginInv == \A r \in Requests : op[r] = "login" =>
  LET a == arg[r].acc IN
  /\ a \in changed \/ email[a] = arg[r].email
  /\ reply[r] = "refused" =>
       \/ a \in changed
       \/ /\ found[r] \in Saved /\ found[r] # a
          /\ found[r] \in changed \/ Overlapped(a, found[r])

LEMMA LoginStep ==
  ASSUME TypeInv, KeptInv, SeenInv, LoginInv, [Next]_vars
  PROVE  LoginInv'
<1> USE DEF TypeInv
<1> SUFFICES ASSUME NEW r \in Requests, op'[r] = "login"
             PROVE  LET a == arg'[r].acc IN
                    /\ a \in changed' \/ email'[a] = arg'[r].email
                    /\ reply'[r] = "refused" =>
                         \/ a \in changed'
                         \/ /\ found'[r] \in Saved' /\ found'[r] # a
                            /\ found'[r] \in changed' \/ (a \notin seen'[found'[r]] /\ found'[r] \notin seen'[a])
  BY DEF LoginInv, Overlapped
<1> DEFINE a == arg'[r].acc
<1>1. a \in Saved
  <2>1. CASE op'[r] = op[r] /\ arg'[r] = arg[r]
    BY <2>1 DEF OwnInv, Naming
  <2>2. ASSUME NEW o, NEW first, NEW x, Asked(r, o, first, x) PROVE a \in Saved
    BY <2>2 DEF Asked, Start, TypeOK, Naming
  <2> QED BY <2>1, <2>2, StartOf
<1>2. a \in changed \/ email[a] = arg'[r].email
  <2>1. CASE op'[r] = op[r] /\ arg'[r] = arg[r]
    BY <2>1 DEF LoginInv
  <2>2. ASSUME NEW o, NEW first, NEW x, Asked(r, o, first, x)
        PROVE  a \in changed \/ email[a] = arg'[r].email
    BY <2>2 DEF Asked, Start, TypeOK
  <2> QED BY <2>1, <2>2, StartOf
<1>3. a \in changed' \/ email'[a] = arg'[r].email
  BY <1>1, <1>2, Grows
<1>4. ASSUME NEW f \in Saved, f # a, f \in changed \/ Overlapped(a, f)
      PROVE  f \in Saved' /\ (f \in changed' \/ (a \notin seen'[f] /\ f \notin seen'[a]))
  BY <1>1, <1>4, Grows, SeenStays DEF Overlapped
<1>5. ASSUME reply'[r] = "refused", a \notin changed'
      PROVE  /\ found'[r] \in Saved' /\ found'[r] # a
             /\ found'[r] \in changed' \/ (a \notin seen'[found'[r]] /\ found'[r] \notin seen'[a])
  <2>0. a \notin changed
    BY <1>5, Grows
  <2>1. CASE op[r] = "login" /\ LookupLogin(r)
    <3>1. arg'[r] = arg[r] /\ Who[a] = Who[r]
      BY <2>1, Grows DEF OwnInv, Naming
    <3>2. a \in {b \in Saved : email[b] = arg[r].email}
      BY <1>1, <1>2, <2>0, <3>1
    <3>3. reply[r] # "refused" /\ ~Go(r, "lookup", "answer")
      <4>1. reply[r] # "refused"
        BY <2>1 DEF LookupLogin, Go, Refuse, StageInv, Final
      <4> QED BY <1>5, <4>1 DEF Go
    <3>4. PICK f \in {b \in Saved : email[b] = arg[r].email} :
             found' = [found EXCEPT ![r] = f] /\ Who[f] # Who[r]
      BY <2>1, <3>2, <3>3 DEF LookupLogin
    <3>5. found'[r] = f /\ f # a /\ email[f] = email[a]
      BY <3>1, <3>2, <3>4 DEF TypeOK
    <3>6. f \in changed \/ Overlapped(a, f)
      BY <1>1, <2>0, <3>4, <3>5, EmailsOf DEF EmailsApart
    <3> QED BY <1>4, <3>4, <3>5, <3>6
  <2>2. CASE op[r] \in {"none", "login"} /\ found'[r] = found[r] /\ reply[r] = "refused"
    <3>1. op[r] = "login" /\ arg'[r] = arg[r]
      BY <2>2, Grows DEF StageInv
    <3> QED BY <1>4, <2>0, <2>2, <3>1 DEF LoginInv
  <2> QED BY <1>5, <2>1, <2>2, LoginOf
<1> QED BY <1>3, <1>5

\* LoginFindsOwner, in every behaviour.
THEOREM LoginFindsOwnerAlways == Spec => []LoginFindsOwner
<1> DEFINE Inv == TypeInv /\ KeptInv /\ SeenInv /\ LoginInv
<1>1. Inv /\ [Next]_vars => Inv'
  BY TypeStep, KeptStep, SeenStep, LoginStep
<1>2. Init => Inv
  BY TypeInit, ApartInit DEF Init, LoginInv
<1>3. Inv => LoginFindsOwner
  BY DEF LoginInv, LoginFindsOwner
<1> QED BY <1>1, <1>2, <1>3, PTL DEF Spec

-----------------------------------------------------------------------------
(* Verified accounts. *)

\* A code goes to the e-mail the account had, and so has, unless it was changed.
MailInv == \A r \in Requests :
  op[r] = "sendOtp" /\ pc[r] \in {"mail", "done"} =>
    arg[r].acc \in changed \/ mailTo[r] = email[arg[r].acc]

\* A verifyOtp has a code and a token as CodeOf says; past its check, of one another.
CodeInv == \A r \in Requests : op[r] = "verifyOtp" =>
  /\ CodeOf(r, arg[r])
  /\ pc[r] = "update" => arg[r].otp = arg[r].otptoken

\* A sendOtp keeps its address, except when it mails.
LEMMA SendOtpOf ==
  ASSUME TypeInv, [Next]_vars, NEW q \in Requests, op'[q] = "sendOtp"
  PROVE  \/ op[q] = "sendOtp" /\ Mail(q)
         \/ /\ mailTo'[q] = mailTo[q]
            /\ pc'[q] \in {"mail", "done"} =>
                 op[q] = "sendOtp" /\ pc[q] \in {"mail", "done"}
            /\ pc[q] = "done" => pc'[q] \in {"done", "failed", "killed"}
<1> USE DEF TypeInv
<1>1. CASE Handle(q)
  <2>1. op[q] = "sendOtp"
    BY <1>1, HandleMoves DEF Moved
  <2>2. pc[q] \in {"auth", "find", "mail"} \cup Final
    BY <2>1 DEF StageInv, RouteOf
  <2>3. Auth(q) \/ Mail(q) \/ MailSent(q)
    BY <1>1, <2>1, <2>2 DEF Handle, LookupEmail, LookupName, Save, LookupLogin, Find, UpdateEmail,
                            CheckOtp, UpdateVerified, Answer, Go, Final
  <2>4. CASE Auth(q)
    BY <2>1, <2>4 DEF Auth, Go, Refuse, TypeOK
  <2>5. CASE MailSent(q)
    BY <2>1, <2>5 DEF MailSent, TypeOK
  <2> QED BY <2>1, <2>3, <2>4, <2>5
<1>2. CASE Kept(q)
  <2>1. op[q] \in {"none", "sendOtp"}
    BY StartOf
  <2>2. op[q] = "none" => pc[q] = "idle"
    BY DEF StageInv
  <2> QED BY <1>2, <2>1, <2>2 DEF Kept
<1> QED BY <1>1, <1>2, StepOf

\* A request that ended stays as it is.
LEMMA DoneStays ==
  ASSUME TypeInv, [Next]_vars, NEW q \in Requests, op[q] = "sendOtp", pc[q] = "done"
  PROVE  pc'[q] = "done" /\ mailTo'[q] = mailTo[q] /\ op'[q] = "sendOtp"
<1>0. op'[q] = "sendOtp" /\ op[q] # "none"
  BY Grows
<1>1. mailTo'[q] = mailTo[q]
  <2>1. ~Mail(q)
    BY DEF Mail, Go
  <2> QED BY <1>0, <2>1, SendOtpOf
<1>2. pc'[q] = "done"
  <2> USE DEF TypeInv
  <2>0. pc \in [Requests -> Stages]
    BY DEF TypeOK
  <2>1. ASSUME NEW r \in Requests, NEW o, NEW first, NEW x, Asked(r, o, first, x)
        PROVE  pc'[q] = "done"
    BY <1>0, <2>0, <2>1 DEF Asked, Start
  <2>2. ASSUME NEW r \in Requests, Handle(r) PROVE pc'[q] = "done"
    BY <2>0, <2>2, HandleMoves DEF Moved, Final
  <2>3. ASSUME NEW r \in Requests, DbError(r) PROVE pc'[q] = "done"
    BY <2>0, <2>3 DEF DbError, Awaits
  <2>4. ASSUME NEW p \in Replicas, Kill(p) PROVE pc'[q] = "done"
    BY <2>0, <2>4 DEF Kill, Live, Final
  <2>5. CASE UNCHANGED vars
    BY <2>5 DEF vars
  <2> QED BY <2>1, <2>2, <2>3, <2>4, <2>5, NextIs, AskIs
<1> QED BY <1>0, <1>1, <1>2

LEMMA MailStep ==
  ASSUME TypeInv, MailInv, [Next]_vars
  PROVE  MailInv'
<1> USE DEF TypeInv
<1> SUFFICES ASSUME NEW r \in Requests, op'[r] = "sendOtp", pc'[r] \in {"mail", "done"}
             PROVE  arg'[r].acc \in changed' \/ mailTo'[r] = email'[arg'[r].acc]
  BY DEF MailInv
<1>1. CASE op[r] = "sendOtp" /\ Mail(r)
  <2>1. mailTo'[r] = email[arg[r].acc] /\ UNCHANGED <<arg, email>>
    BY <1>1 DEF Mail, Go, request, users, TypeOK
  <2> QED BY <2>1
<1>2. CASE mailTo'[r] = mailTo[r] /\ op[r] = "sendOtp" /\ pc[r] \in {"mail", "done"}
  <2>1. arg'[r] = arg[r] /\ arg[r].acc \in Saved
    BY <1>2, Grows DEF OwnInv, Naming, Tokened
  <2> QED BY <1>2, <2>1, Grows DEF MailInv
<1> QED BY <1>1, <1>2, SendOtpOf

LEMMA CodeStep ==
  ASSUME TypeInv, CodeInv, [Next]_vars
  PROVE  CodeInv'
<1> USE DEF TypeInv
<1>1. ASSUME NEW r \in Requests, NEW x \in Verifies, CodeOf(r, x)
      PROVE  /\ op'[x.otptoken] = "sendOtp" /\ reply'[x.otptoken] = "ok"
             /\ Who[x.otptoken] = Who[r]
             /\ \/ x.otp = r
                \/ /\ op'[x.otp] = "sendOtp" /\ pc'[x.otp] = "done"
                   /\ Box[mailTo'[x.otp]] = Who[r]
  <2>1. x.otptoken \in Requests /\ x.otp \in Requests
    BY DEF Verifies
  <2> QED BY <1>1, <2>1, Grows, DoneStays DEF CodeOf
<1>2. ASSUME NEW r \in Requests, op'[r] = "verifyOtp"
      PROVE  arg'[r] \in Verifies /\ CodeOf(r, arg'[r])
  <2>1. CASE op'[r] = op[r] /\ arg'[r] = arg[r]
    BY <1>2, <2>1, ArgTypes DEF CodeInv
  <2>2. ASSUME NEW o, NEW first, NEW x, Asked(r, o, first, x)
        PROVE  arg'[r] \in Verifies /\ CodeOf(r, arg'[r])
    BY <1>2, <2>2 DEF Asked, Start, TypeOK, ArgsOf
  <2> QED BY <2>1, <2>2, StartOf
<1>3. ASSUME NEW r \in Requests, op'[r] = "verifyOtp", pc'[r] = "update"
      PROVE  arg'[r].otp = arg'[r].otptoken
  <2>1. CASE Handle(r)
    <3>1. op[r] = "verifyOtp" /\ arg'[r] = arg[r]
      BY <1>3, <2>1, HandleMoves DEF Moved
    <3>2. pc[r] \in {"auth", "check", "update", "answer"} \cup Final
      BY <3>1 DEF StageInv, RouteOf
    <3>3. Auth(r) \/ CheckOtp(r) \/ UpdateVerified(r) \/ Answer(r)
      BY <2>1, <3>1, <3>2 DEF Handle, LookupEmail, LookupName, Save, LookupLogin, Find,
                              UpdateEmail, StoreEmail, Mail, MailSent, Go, Final
    <3>4. ~Auth(r) /\ ~UpdateVerified(r) /\ ~Answer(r)
      BY <1>3, <3>1 DEF Auth, UpdateVerified, Answer, Go, Refuse, TypeOK
    <3>5. verifyOTP(r)
      BY <1>3, <3>3, <3>4 DEF CheckOtp, Refuse, TypeOK
    <3> QED BY <3>1, <3>5 DEF verifyOTP
  <2>2. CASE Kept(r)
    <3>1. op[r] \in {"none", "verifyOtp"} /\ pc[r] = "update"
      BY <1>3, <2>2, StartOf DEF Kept
    <3>2. op[r] = "verifyOtp" /\ arg'[r] = arg[r]
      BY <3>1, Grows DEF StageInv
    <3> QED BY <3>1, <3>2 DEF CodeInv
  <2> QED BY <2>1, <2>2, StepOf
<1> QED BY <1>1, <1>2, <1>3 DEF CodeInv, CodeOf

LEMMA VerifiedStep ==
  ASSUME TypeInv, KeptInv, MailInv, CodeInv, VerifiedOwnsMailbox, [Next]_vars
  PROVE  VerifiedOwnsMailbox'
<1> USE DEF TypeInv
<1> SUFFICES ASSUME NEW a \in verified' \ changed',
                    \A b \in Saved' : Who[b] = Who[a] => b = a
             PROVE  arg'[a].verified \/ Box[email'[a]] = Who[a]
  BY DEF VerifiedOwnsMailbox
<1>0. verified \subseteq Saved /\ Saved \subseteq Requests
  BY DEF TypeOK, Saved
<1>1. CASE a \in verified
  <2>1. a \in Saved /\ a \notin changed /\ email'[a] = email[a] /\ arg'[a] = arg[a]
    BY <1>0, <1>1, Grows, SeenStays
  <2>2. \A b \in Saved : Who[b] = Who[a] => b = a
    BY Grows
  <2> QED BY <1>1, <2>1, <2>2 DEF VerifiedOwnsMailbox
<1>2. ASSUME NEW r \in Requests, StoreAccount(r), UNCHANGED arg, a \notin verified
      PROVE  arg'[a].verified
  BY <1>2, SaveIs
<1>3. ASSUME NEW r \in Requests, StoreVerified(r), a \notin verified
      PROVE  Box[email'[a]] = Who[a]
  <2>1. a = arg[r].acc /\ op[r] = "verifyOtp" /\ pc[r] = "update" /\ UNCHANGED email
        /\ UNCHANGED changed
    BY <1>3, VerifyIs DEF history
  <2>2. Who[a] = Who[r] /\ a \in Saved
    BY <2>1 DEF OwnInv, Naming, Tokened
  <2> DEFINE t == arg[r].otp
  <2>3. t = arg[r].otptoken /\ CodeOf(r, arg[r]) /\ t \in Requests
    BY <2>1, ArgTypes DEF CodeInv, Verifies
  <2>4. op[t] = "sendOtp" /\ pc[t] = "done" /\ Box[mailTo[t]] = Who[r] /\ Who[t] = Who[r]
    BY <2>1, <2>3 DEF CodeOf
  <2>5. arg[t].acc \in Saved /\ Who[arg[t].acc] = Who[a]
    BY <2>2, <2>3, <2>4 DEF OwnInv, Naming, Tokened
  <2>6. arg[t].acc = a
    BY <2>5, Grows
  <2>7. mailTo[t] = email[a]
    BY <2>1, <2>3, <2>4, <2>6 DEF MailInv
  <2> QED BY <2>1, <2>2, <2>4, <2>7
<1>4. ASSUME NEW r \in Requests, StoreEmail(r) PROVE a \in verified
  BY <1>4, UpdateIs
<1>5. CASE UNCHANGED <<users, changed>>
  BY <1>1, <1>5 DEF users
<1> QED BY <1>1, <1>2, <1>3, <1>4, <1>5, WritesAre

\* VerifiedOwnsMailbox, in every behaviour.
THEOREM VerifiedOwnsMailboxAlways == Spec => []VerifiedOwnsMailbox
<1> DEFINE Inv == TypeInv /\ KeptInv /\ MailInv /\ CodeInv /\ VerifiedOwnsMailbox
<1>1. Inv /\ [Next]_vars => Inv'
  BY TypeStep, KeptStep, MailStep, CodeStep, VerifiedStep
<1>2. Init => Inv
  BY TypeInit, ApartInit DEF Init, MailInv, CodeInv, VerifiedOwnsMailbox
<1>3. Inv => VerifiedOwnsMailbox
  OBVIOUS
<1> QED BY <1>1, <1>2, <1>3, PTL DEF Spec
=============================================================================
