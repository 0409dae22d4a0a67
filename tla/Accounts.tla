------------------------------ MODULE Accounts ------------------------------
(***************************************************************************)
(* The user and OTP routes over the `User` collection: sign-up, login,     *)
(* change of e-mail, sending a code and verifying it, with AuthMiddleware  *)
(* before the last three.  The collection has no unique index: that an     *)
(* e-mail or a username is free is looked up one or two awaits before the  *)
(* account is saved, and changeEmail does not look at all.  An account is  *)
(* known by the sign-up that made it, a code by the sendOtp that mailed it. *)
(***************************************************************************)
EXTENDS Naturals

CONSTANTS
  Requests,     \* requests to these routes
  Who, Place,   \* the person each is of, the replica that runs it
  May,          \* bound on what each may be
  People, Replicas,
  Emails, Names,
  Box,          \* [Emails -> People]: who reads the mail of an address
  Bodies,       \* bound on what sign-ups may say
  NoEmail,      \* of an account that is not there
  NoArg,        \* the argument of a request not made yet
  MaxFaults     \* bound on crashes and on MongoDB and mail errors

ASSUME PeopleAssumption ==
  /\ Who \in [Requests -> People] /\ Place \in [Requests -> Replicas]
  /\ Box \in [Emails -> People]
ASSUME NothingAssumption == NoEmail \notin Emails
ASSUME BoundsAssumption == MaxFaults \in Nat

VARIABLES
  op, arg,    \* what each request is
  pc,         \* the await it is at
  reply,      \* what its client was answered
  found,      \* the account a login found
  mailTo,     \* the address a code goes to
  fits,       \* codes that four characters can write
  email,      \* users: the e-mail of each account
  verified,   \* users: accounts with isEmailVerified
  seen,       \* history: accounts there when a sign-up looked for its e-mail
  seenName,   \* history: and for its username
  changed,    \* history: accounts whose e-mail was ever changed
  faults      \* faults so far

users   == <<email, verified>>
request == <<op, arg>>
history == <<seen, seenName, changed>>
vars == <<request, pc, reply, found, mailTo, fits, users, history, faults>>

SignUps  == [email : Emails, name : Names, verified : BOOLEAN]
Logins   == [acc : Requests, email : Emails]
Verifies == [acc : Requests, otp : Requests, otptoken : Requests]
ArgsOf(o) == CASE o = "none"                      -> {NoArg}
               [] o = "signUp"                    -> SignUps
               [] o \in {"login", "changeEmail"}  -> Logins
               [] o = "sendOtp"                   -> [acc : Requests]
               [] o = "verifyOtp"                 -> Verifies

Ops  == {"none", "signUp", "login", "changeEmail", "sendOtp", "verifyOtp"}
Args == UNION {ArgsOf(o) : o \in Ops}

Awaits == {"auth", "lookup", "lookupName", "save", "find", "update"}
Final  == {"done", "failed", "killed"}
Stages == Awaits \cup Final \cup {"idle", "check", "mail", "answer"}

Saved == {a \in Requests : email[a] # NoEmail}

TypeOK ==
  /\ op       \in [Requests -> Ops]
  /\ arg      \in [Requests -> Args] /\ \A r \in Requests : arg[r] \in ArgsOf(op[r])
  /\ pc       \in [Requests -> Stages]
  /\ reply    \in [Requests -> {"none", "ok", "refused", "error"}]
  /\ found    \in [Requests -> Requests]
  /\ mailTo   \in [Requests -> Emails \cup {NoEmail}]
  /\ fits     \subseteq Requests
  /\ email    \in [Requests -> Emails \cup {NoEmail}]
  /\ verified \subseteq Saved
  /\ seen     \in [Requests -> SUBSET Requests]
  /\ seenName \in [Requests -> SUBSET Requests]
  /\ changed  \subseteq Saved
  /\ faults   \in 0..MaxFaults

Init ==
  /\ op       = [r \in Requests |-> "none"]
  /\ arg      = [r \in Requests |-> NoArg]
  /\ pc       = [r \in Requests |-> "idle"]
  /\ reply    = [r \in Requests |-> "none"]
  /\ found    = [r \in Requests |-> r]
  /\ mailTo   = [r \in Requests |-> NoEmail]
  /\ fits     = {}
  /\ email    = [r \in Requests |-> NoEmail]
  /\ verified = {}
  /\ seen     = [r \in Requests |-> {}]
  /\ seenName = [r \in Requests |-> {}]
  /\ changed  = {}
  /\ faults   = 0

-----------------------------------------------------------------------------
(* Clients. *)

\* The sign-up or login that answered person p with a token of account a.
Token(p, a) == \E r \in Requests :
  /\ Who[r] = p /\ reply[r] = "ok"
  /\ (op[r] = "signUp" /\ r = a) \/ (op[r] = "login" /\ found[r] = a)

Start(r, o, first, x) ==
  /\ op[r] = "none" /\ o \in May[r]
  /\ op'  = [op EXCEPT ![r] = o]
  /\ arg' = [arg EXCEPT ![r] = x]
  /\ pc'  = [pc EXCEPT ![r] = first]
  /\ UNCHANGED <<reply, found, mailTo, fits, users, history, faults>>

\* createUserAccount: isEmailVerified is taken from the body.
StartSignUp(r) == \E x \in SignUps \cap Bodies : Start(r, "signUp", "lookup", x)

\* loginUser, with the e-mail one of the person's accounts has now.
StartLogin(r) == \E a \in Saved :
  Who[a] = Who[r] /\ Start(r, "login", "lookup", [acc |-> a, email |-> email[a]])

StartChangeEmail(r) == \E a \in Saved, e \in Emails :
  Token(Who[r], a) /\ Start(r, "changeEmail", "auth", [acc |-> a, email |-> e])

StartSendOtp(r) == \E a \in Saved :
  Token(Who[r], a) /\ Start(r, "sendOtp", "auth", [acc |-> a])

\* A code the person was mailed, or else one of no mail (r itself), with a token
\* it was answered, of the same sendOtp or another.
StartVerifyOtp(r) == \E a \in Saved, o, t \in Requests :
  /\ Token(Who[r], a)
  /\ o = r \/ (op[o] = "sendOtp" /\ pc[o] = "done" /\ Box[mailTo[o]] = Who[r])
  /\ op[t] = "sendOtp" /\ reply[t] = "ok" /\ Who[t] = Who[r]
  /\ Start(r, "verifyOtp", "auth", [acc |-> a, otp |-> o, otptoken |-> t])

-----------------------------------------------------------------------------
(* The writes to `User`. *)

\* `createUser.save()`.
StoreAccount(r) ==
  /\ pc[r] = "save"
  /\ email'    = [email EXCEPT ![r] = arg[r].email]
  /\ verified' = verified \cup (IF arg[r].verified THEN {r} ELSE {})
  /\ UNCHANGED history

\* `User.findByIdAndUpdate` with the new e-mail, and that alone.
StoreEmail(r) ==
  /\ op[r] = "changeEmail" /\ pc[r] = "update"
  /\ email'   = [email EXCEPT ![arg[r].acc] = arg[r].email]
  /\ changed' = changed \cup {arg[r].acc}
  /\ UNCHANGED <<verified, seen, seenName>>

\* Mutant: of whoever asked for the code, by its request.
StoreVerifiedToken(r) ==
  /\ op[r] = "verifyOtp" /\ pc[r] = "update"
  /\ verified' = verified \cup {arg[r].otptoken}
  /\ UNCHANGED <<email, history>>
\* `User.findByIdAndUpdate` of whoever asks.
StoreVerified(r) ==
  /\ op[r] = "verifyOtp" /\ pc[r] = "update"
  /\ verified' = verified \cup {arg[r].acc}
  /\ UNCHANGED <<email, history>>

-----------------------------------------------------------------------------
(* The handlers.  Each action is what happens up to the next await. *)

\* Request r goes on from s to next.
Go(r, s, next) ==
  /\ pc[r] = s
  /\ pc' = [pc EXCEPT ![r] = next]
  /\ UNCHANGED <<request, reply, faults>>

\* It throws a BadRequestError, which it answers itself.
Refuse(r, s) ==
  /\ pc[r] = s
  /\ pc'    = [pc EXCEPT ![r] = "failed"]
  /\ reply' = [reply EXCEPT ![r] = "refused"]
  /\ UNCHANGED <<request, faults>>

\* AuthMiddleware: `User.findById(decode.id)`, then `req.id`.
Auth(r) ==
  /\ pc[r] = "auth"
  /\ IF arg[r].acc \in Saved
     THEN Go(r, "auth", IF op[r] = "verifyOtp" THEN "check" ELSE "find")
     ELSE Refuse(r, "auth")
  /\ UNCHANGED <<found, mailTo, fits, users, history>>

\* Mutant: only a verified account holds an e-mail.
LookupEmailVerified(r) ==
  /\ op[r] = "signUp"
  /\ IF \E a \in verified : email[a] = arg[r].email
     THEN Refuse(r, "lookup") ELSE Go(r, "lookup", "lookupName")
  /\ seen' = [seen EXCEPT ![r] = Saved]
  /\ UNCHANGED <<found, mailTo, fits, users, seenName, changed>>
\* createAccount: `User.findOne({ email })`.
LookupEmail(r) ==
  /\ op[r] = "signUp"
  /\ IF \E a \in Saved : email[a] = arg[r].email
     THEN Refuse(r, "lookup") ELSE Go(r, "lookup", "lookupName")
  /\ seen' = [seen EXCEPT ![r] = Saved]
  /\ UNCHANGED <<found, mailTo, fits, users, seenName, changed>>

\* Mutant: a name of the same e-mail only.
LookupNameOfEmail(r) ==
  /\ pc[r] = "lookupName"
  /\ IF \E a \in Saved : arg[a].name = arg[r].name /\ email[a] = arg[r].email
     THEN Refuse(r, "lookupName") ELSE Go(r, "lookupName", "save")
  /\ seenName' = [seenName EXCEPT ![r] = Saved]
  /\ UNCHANGED <<found, mailTo, fits, users, seen, changed>>
\* createAccount: `User.findOne({ username })`; the hash changes nothing shared.
LookupName(r) ==
  /\ pc[r] = "lookupName"
  /\ IF \E a \in Saved : arg[a].name = arg[r].name
     THEN Refuse(r, "lookupName") ELSE Go(r, "lookupName", "save")
  /\ seenName' = [seenName EXCEPT ![r] = Saved]
  /\ UNCHANGED <<found, mailTo, fits, users, seen, changed>>

\* createAccount: the hash is done, and the account saved.
Save(r) ==
  /\ StoreAccount(r)
  /\ Go(r, "save", "answer")
  /\ UNCHANGED <<found, mailTo, fits>>

\* userLogin: one of the accounts with this e-mail, then its password.
LookupLogin(r) ==
  /\ op[r] = "login"
  /\ LET A == {a \in Saved : email[a] = arg[r].email}
     IN  \/ /\ A = {}
            /\ Refuse(r, "lookup") /\ UNCHANGED found
         \/ \E a \in A : /\ found' = [found EXCEPT ![r] = a]
                         /\ IF Who[a] = Who[r] THEN Go(r, "lookup", "answer")
                                               ELSE Refuse(r, "lookup")
  /\ UNCHANGED <<mailTo, fits, users, history>>

\* changeEmail: `User.findById`, then the password.
Find(r) ==
  /\ op[r] = "changeEmail"
  /\ IF Who[arg[r].acc] = Who[r] THEN Go(r, "find", "update") ELSE Refuse(r, "find")
  /\ UNCHANGED <<found, mailTo, fits, users, history>>

\* changeEmail: the update.
UpdateEmail(r) ==
  /\ StoreEmail(r)
  /\ Go(r, "update", "answer")
  /\ UNCHANGED <<found, mailTo, fits>>

\* sendOtp: `User.findById`, generateOtp, sendMail.  Six digits: with leading
\* zeros some of them are four.
Mail(r) ==
  /\ op[r] = "sendOtp"
  /\ Go(r, "find", "mail")
  /\ mailTo' = [mailTo EXCEPT ![r] = email[arg[r].acc]]
  /\ fits' \in {fits, fits \cup {r}}
  /\ UNCHANGED <<found, users, history>>

\* Its callback, with the token for the answer.
MailSent(r) ==
  /\ pc[r] = "mail"
  /\ pc'    = [pc EXCEPT ![r] = "done"]
  /\ reply' = [reply EXCEPT ![r] = "ok"]
  /\ UNCHANGED <<request, found, mailTo, fits, users, history, faults>>

\* Mutant: any code will do.
verifyOTPAny(r) == arg[r].otptoken \in fits
\* verifyOTP(...): the code is the token's, and can be typed in four characters.
verifyOTP(r) == arg[r].otp = arg[r].otptoken /\ arg[r].otp \in fits

\* verifyOtp: its checks.  The code may be over ten minutes old.
CheckOtp(r) ==
  /\ pc[r] = "check"
  /\ \/ verifyOTP(r) /\ Go(r, "check", "update")
     \/ Refuse(r, "check")
  /\ UNCHANGED <<found, mailTo, fits, users, history>>

\* verifyOtp: the update.
UpdateVerified(r) ==
  /\ StoreVerified(r)
  /\ Go(r, "update", "answer")
  /\ UNCHANGED <<found, mailTo, fits>>

Answer(r) ==
  /\ pc[r] = "answer"
  /\ pc'    = [pc EXCEPT ![r] = "done"]
  /\ reply' = [reply EXCEPT ![r] = "ok"]
  /\ UNCHANGED <<request, found, mailTo, fits, users, history, faults>>

-----------------------------------------------------------------------------
(* Faults. *)

Fault == faults < MaxFaults /\ faults' = faults + 1
Live(r) == pc[r] \notin Final \cup {"idle"}

Kill(p) ==
  /\ pc' = [r \in Requests |-> IF Place[r] = p /\ Live(r) THEN "killed" ELSE pc[r]]
  /\ UNCHANGED <<request, reply, found, mailTo, fits, users, history>>

\* An awaited query rejects, a write perhaps after it was applied: the handler
\* throws on, and Nest answers.
DbError(r) ==
  /\ Fault /\ pc[r] \in Awaits
  /\ pc'    = [pc EXCEPT ![r] = "failed"]
  /\ reply' = [reply EXCEPT ![r] = "error"]
  /\ \/ StoreAccount(r) \/ StoreEmail(r) \/ StoreVerified(r)
     \/ UNCHANGED <<users, history>>
  /\ UNCHANGED <<request, found, mailTo, fits>>

\* Mutant: the error is logged.
MailFailsLogged(r) ==
  /\ Fault /\ pc[r] = "mail"
  /\ pc' = [pc EXCEPT ![r] = "idle"]
  /\ UNCHANGED <<request, reply, found, mailTo, fits, users, history>>
\* The mail is refused: the callback throws, and nobody catches.
MailFails(r) == Fault /\ pc[r] = "mail" /\ Kill(Place[r])

Crash(p) == Fault /\ Kill(p)

-----------------------------------------------------------------------------

Ask(r) == \/ StartSignUp(r) \/ StartLogin(r) \/ StartChangeEmail(r)
          \/ StartSendOtp(r) \/ StartVerifyOtp(r)

Handle(r) == \/ Auth(r)
             \/ LookupEmail(r) \/ LookupName(r) \/ Save(r)
             \/ LookupLogin(r)
             \/ Find(r) \/ UpdateEmail(r)
             \/ Mail(r) \/ MailSent(r)
             \/ CheckOtp(r) \/ UpdateVerified(r)
             \/ Answer(r)

Next == \/ \E r \in Requests : Ask(r) \/ Handle(r) \/ DbError(r) \/ MailFails(r)
        \/ \E p \in Replicas : Crash(p)

Spec == Init /\ [][Next]_vars

\* MongoDB and the mail service answer or fail.
FairSpec == Spec /\ \A r \in Requests : WF_vars(Handle(r))

-----------------------------------------------------------------------------
\* Two sign-ups that each looked before the other was saved.
Overlapped(a, b) == a \notin seen[b] /\ b \notin seen[a]
OverlappedName(a, b) == a \notin seenName[b] /\ b \notin seenName[a]

\* Two accounts share an e-mail only if createAccount's lookup of each missed the
\* other, or one of them came by it through changeEmail, which does not look.
EmailsApart ==
  \A a, b \in Saved : a # b /\ email[a] = email[b] =>
    a \in changed \/ b \in changed \/ Overlapped(a, b)

\* Two accounts share a username only if createAccount's second lookup of each
\* missed the other.
NamesApart ==
  \A a, b \in Saved : a # b /\ arg[a].name = arg[b].name => OverlappedName(a, b)

\* A person that gives the e-mail and the password of its account is let in by
\* userLogin, even if the sign-up was cut before its answer, but for two cases:
\* the account's e-mail was changed, or the lookup found another account that
\* came by the same e-mail through a race or a change.
LoginFindsOwner ==
  \A r \in Requests : op[r] = "login" /\ reply[r] = "refused" =>
    \/ arg[r].acc \in changed
    \/ /\ found[r] # arg[r].acc
       /\ found[r] \in changed \/ Overlapped(arg[r].acc, found[r])

\* Where a person has one account and never changed its e-mail, verifyOtp marks
\* it only if the person reads the mail of that e-mail (or it signed up as
\* verified), although code and token are bound to neither account nor address.
VerifiedOwnsMailbox ==
  \A a \in verified \ changed :
    (\A b \in Saved : Who[b] = Who[a] => b = a)
      => arg[a].verified \/ Box[email[a]] = Who[a]

\* Under FairSpec: every request is answered, or its process has died.
RequestsEnd == \A r \in Requests :
  op[r] # "none" ~> reply[r] # "none" \/ pc[r] = "killed"
=============================================================================
