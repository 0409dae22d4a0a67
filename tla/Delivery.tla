------------------------------ MODULE Delivery ------------------------------
(***************************************************************************)
(* sendMessageToUser from end to end: the user is online or not by a set   *)
(* in Redis, its socket by a hash, and these are two reads before the      *)
(* PUBLISH, as userOnline is two writes.  Who is told by no socket is left *)
(* a message with the queue service, here the MessageQueue it implements.  *)
(* The gateway that holds the sockets, calls userOnline and takes users    *)
(* from the set again is not in the repository; nor is it bound to make    *)
(* its calls for one connection after those for another.                   *)
(***************************************************************************)
EXTENDS Naturals

CONSTANTS
  Users, Replicas,
  Sends,        \* calls of sendMessageToUser
  To, Place,    \* whom each is to, the replica that runs it
  Connections,  \* sockets, each opened once
  Of,           \* whose each is
  NoSocket,
  MaxFaults     \* bound on crashes and errors

ASSUME WhoAssumption ==
  /\ To \in [Sends -> Users] /\ Place \in [Sends -> Replicas]
  /\ Of \in [Connections -> Users]
ASSUME NoSocketAssumption == NoSocket \notin Connections
ASSUME BoundsAssumption == MaxFaults \in Nat

VARIABLES
  online,    \* Redis: online-users
  socketId,  \* Redis: OnlineUserMap<user>.socketId
  socket,    \* each connection
  joining,   \* its userOnline
  leaving,   \* closed connections whose user is yet to be taken from the set
  pc,        \* the await of each send
  id,        \* the socket id it read
  after,     \* its afterAcknowledgement
  pushed,    \* the socket that got it
  saving,    \* its saveMessage, as the web server knows it
  call,      \* and as the queue service does
  queued,    \* messages in the queue
  faults,    \* faults so far
  muddled,   \* history: users whose presence calls overlapped or failed
  doubled,   \* history: users who had two sockets since they last had none
  moved,     \* history: sends whose user came or went meanwhile
  found      \* history: their user as they began, and as Redis had it

presence == <<online, socketId, socket, joining, leaving, muddled, doubled>>
service  == <<call, queued>>
outcome  == <<id, after, pushed, saving>>
vars == <<presence, pc, outcome, service, faults, moved, found>>

Queue == INSTANCE MessageQueue WITH
  Messages <- Sends, Readers <- {},
  stream <- <<>>, asker <- <<>>, got <- <<>>, owed <- <<>>

Sockets  == Connections \cup {NoSocket}
OfUser(u) == {c \in Connections : Of[c] = u}
Open(u)  == {c \in OfUser(u) : socket[c] = "open"}

TypeOK ==
  /\ online   \subseteq Users
  /\ socketId \in [Users -> Sockets]
  /\ socket   \in [Connections -> {"new", "open", "closed"}]
  /\ joining  \in [Connections -> {"none", "add", "map", "done", "failed"}]
  /\ leaving  \subseteq {c \in Connections : socket[c] = "closed"}
  /\ pc       \in [Sends -> {"none", "lookup", "map", "publish", "after",
                             "done", "failed", "killed"}]
  /\ id       \in [Sends -> Sockets]
  /\ after    \in [Sends -> {"none", "running", "done", "cut"}]
  /\ pushed   \in [Sends -> Sockets]
  /\ saving   \in [Sends -> {"none", "sent", "cut"}]
  /\ call     \in [Sends -> {"none", "acked", "error"}]
  /\ queued   \subseteq {m \in Sends : call[m] = "acked"}
  /\ faults   \in 0..MaxFaults
  /\ muddled  \subseteq Users
  /\ doubled  \subseteq Users
  /\ moved    \subseteq Sends
  /\ found    \in [Sends -> {"online", "offline", "dangling", "hidden"}]

Init ==
  /\ online   = {}
  /\ socketId = [u \in Users |-> NoSocket]
  /\ socket   = [c \in Connections |-> "new"]
  /\ joining  = [c \in Connections |-> "none"]
  /\ leaving  = {}
  /\ pc       = [m \in Sends |-> "none"]
  /\ id       = [m \in Sends |-> NoSocket]
  /\ after    = [m \in Sends |-> "none"]
  /\ pushed   = [m \in Sends |-> NoSocket]
  /\ saving   = [m \in Sends |-> "none"]
  /\ call     = [m \in Sends |-> "none"]
  /\ queued   = {}
  /\ faults   = 0
  /\ muddled  = {}
  /\ doubled  = {}
  /\ moved    = {}
  /\ found    = [m \in Sends |-> "offline"]

Fault == faults < MaxFaults /\ faults' = faults + 1

-----------------------------------------------------------------------------
(* Presence. *)

\* No presence call of u is under way.
Calm(u) == \A c \in OfUser(u) : joining[c] \notin {"add", "map"} /\ c \notin leaving
Settled(u) == Calm(u) /\ u \notin muddled

\* Redis has u online, by a socket it no longer has, or offline though it has one.
Dangling(u) == u \in online /\ socketId[u] \notin Open(u)
Hidden(u)   == u \notin online /\ Open(u) # {}
Found(u) == CASE Dangling(u) -> "dangling"
              [] Hidden(u)   -> "hidden"
              [] OTHER       -> IF u \in online THEN "online" ELSE "offline"

\* A step of u's presence: its sends that still read it are marked.
Moves(u) ==
  /\ moved' = moved \cup {m \in Sends : To[m] = u /\ pc[m] \in {"lookup", "map", "publish"}}
  /\ UNCHANGED <<pc, outcome, service, found>>

\* A socket opens, and userOnline is called.  Made between other calls, it leaves the
\* user with a hash of its own, whatever went wrong before.
Connect(c) ==
  LET u == Of[c] IN
  /\ socket[c] = "new"
  /\ socket'  = [socket EXCEPT ![c] = "open"]
  /\ joining' = [joining EXCEPT ![c] = "add"]
  /\ muddled' = IF Calm(u) THEN muddled \ {u} ELSE muddled \cup {u}
  /\ doubled' = IF Open(u) = {} THEN doubled ELSE doubled \cup {u}
  /\ Moves(u)
  /\ UNCHANGED <<online, socketId, leaving, faults>>

\* userOnline: SADD.
SAdd(c) ==
  /\ joining[c] = "add"
  /\ online'  = online \cup {Of[c]}
  /\ joining' = [joining EXCEPT ![c] = "map"]
  /\ Moves(Of[c])
  /\ UNCHANGED <<socketId, socket, leaving, muddled, doubled, faults>>

\* Mutant: for a user without a socket id only.
HSetOnce(c) ==
  /\ joining[c] = "map"
  /\ socketId' = IF socketId[Of[c]] = NoSocket
                 THEN [socketId EXCEPT ![Of[c]] = c] ELSE socketId
  /\ joining'  = [joining EXCEPT ![c] = "done"]
  /\ Moves(Of[c])
  /\ UNCHANGED <<online, socket, leaving, muddled, doubled, faults>>
\* Mutant: the user's id for the socket's.
HSetSwapped(c) ==
  /\ joining[c] = "map"
  /\ socketId' = [socketId EXCEPT ![Of[c]] = Of[c]]
  /\ joining'  = [joining EXCEPT ![c] = "done"]
  /\ Moves(Of[c])
  /\ UNCHANGED <<online, socket, leaving, muddled, doubled, faults>>
\* userOnline: HSET.
HSet(c) ==
  /\ joining[c] = "map"
  /\ socketId' = [socketId EXCEPT ![Of[c]] = c]
  /\ joining'  = [joining EXCEPT ![c] = "done"]
  /\ Moves(Of[c])
  /\ UNCHANGED <<online, socket, leaving, muddled, doubled, faults>>

\* Redis rejects either: userOnline throws, and undoes nothing.
JoinFails(c) ==
  /\ Fault /\ joining[c] \in {"add", "map"}
  /\ joining' = [joining EXCEPT ![c] = "failed"]
  /\ muddled' = muddled \cup {Of[c]}
  /\ Moves(Of[c])
  /\ UNCHANGED <<online, socketId, socket, leaving, doubled>>

Disconnect(c) ==
  /\ socket[c] = "open"
  /\ socket'  = [socket EXCEPT ![c] = "closed"]
  /\ leaving' = leaving \cup {c}
  /\ muddled' = IF Calm(Of[c]) THEN muddled ELSE muddled \cup {Of[c]}
  /\ doubled' = IF Open(Of[c]) = {c} THEN doubled \ {Of[c]} ELSE doubled
  /\ Moves(Of[c])
  /\ UNCHANGED <<online, socketId, joining, faults>>

\* The user is taken from the set, but not its hash: sendMessageToUser reads that
\* only of users in the set.
Remove(c) ==
  /\ c \in leaving
  /\ online'  = online \ {Of[c]}
  /\ leaving' = leaving \ {c}
  /\ Moves(Of[c])
  /\ UNCHANGED <<socketId, socket, joining, muddled, doubled, faults>>

-----------------------------------------------------------------------------
(* sendMessageToUser. *)

Step(m, s, next) ==
  /\ pc[m] = s
  /\ pc' = [pc EXCEPT ![m] = next]
  /\ UNCHANGED <<presence, service, faults>>

\* A handler calls it.
Start(m) ==
  /\ Step(m, "none", "lookup")
  /\ found' = [found EXCEPT ![m] = Found(To[m])]
  /\ UNCHANGED <<outcome, moved>>

\* Mutant: the save is under the `if (wantTosendNotification)`, too.
sendMessageToOfflineUserNotified(m) ==
  /\ Step(m, "lookup", "done")
  /\ after'  = [after EXCEPT ![m] = "running"]
  /\ saving' \in {saving, [saving EXCEPT ![m] = "sent"]}
  /\ UNCHANGED <<id, moved, found>>
\* sendMessageToOfflineUser, all in one go: the afterAcknowledgement is not
\* awaited, nor the answer of the queue service.
sendMessageToOfflineUser(m) ==
  /\ Step(m, "lookup", "done")
  /\ after'  = [after EXCEPT ![m] = "running"]
  /\ saving' = [saving EXCEPT ![m] = "sent"]
  /\ UNCHANGED <<id, moved, found>>

\* ifUserIsOnline: SISMEMBER.
LookupOnline(m) ==
  /\ To[m] \in online
  /\ Step(m, "lookup", "map")
  /\ UNCHANGED <<outcome, moved, found>>
LookupOffline(m) ==
  /\ To[m] \notin online
  /\ sendMessageToOfflineUser(m)
  /\ UNCHANGED pushed

\* HGET of the socket id.
HGet(m) ==
  /\ Step(m, "map", "publish")
  /\ id' = [id EXCEPT ![m] = socketId[To[m]]]
  /\ UNCHANGED <<after, pushed, saving, moved, found>>

\* The gateway has the message for a socket: it is there or not.
Push(m) == pushed' = IF id[m] \in Connections /\ socket[id[m]] = "open"
                     THEN [pushed EXCEPT ![m] = id[m]] ELSE pushed

\* PUBLISH, whose count of receivers is not looked at.
Publish(m) ==
  /\ Step(m, "publish", "after")
  /\ Push(m)
  /\ after' = [after EXCEPT ![m] = "running"]
  /\ UNCHANGED <<id, saving, moved, found>>

\* The awaited afterAcknowledgement ends, and so does the call.
AfterAcknowledgement(m) ==
  /\ Step(m, "after", "done")
  /\ after' = [after EXCEPT ![m] = "done"]
  /\ UNCHANGED <<id, pushed, saving, moved, found>>

\* The floating one ends.
Floats(m) == after[m] = "running" /\ pc[m] # "after"
FloatEnds(m) ==
  /\ Floats(m)
  /\ after' = [after EXCEPT ![m] = "done"]
  /\ UNCHANGED <<presence, pc, id, pushed, saving, service, faults, moved, found>>

\* The queue service saves the message.
SaveArrives(m) ==
  /\ saving[m] # "none"
  /\ Queue!Save(m)
  /\ UNCHANGED <<presence, pc, outcome, faults, moved, found>>

-----------------------------------------------------------------------------
(* Faults. *)

\* Redis rejects, before the PUBLISH went through or after.
Rejects(m) == \/ pc[m] \in {"lookup", "map", "publish"} /\ UNCHANGED pushed
              \/ pc[m] = "publish" /\ Push(m)

\* Mutant: whatever was caught, the user counts as offline.
RedisErrorOffline(m) ==
  /\ Fault /\ Rejects(m)
  /\ pc'     = [pc EXCEPT ![m] = "failed"]
  /\ after'  = [after EXCEPT ![m] = "running"]
  /\ saving' = [saving EXCEPT ![m] = "sent"]
  /\ UNCHANGED <<presence, id, service, moved, found>>
\* The catch: a WebSocketMessageError would have the message queued, but nothing
\* throws one, and it throws on.
RedisError(m) ==
  /\ Fault /\ Rejects(m)
  /\ pc' = [pc EXCEPT ![m] = "failed"]
  /\ UNCHANGED <<presence, id, after, saving, service, moved, found>>

\* The awaited afterAcknowledgement throws.
AfterFails(m) ==
  /\ Fault /\ pc[m] = "after"
  /\ pc'    = [pc EXCEPT ![m] = "failed"]
  /\ after' = [after EXCEPT ![m] = "cut"]
  /\ UNCHANGED <<presence, id, pushed, saving, service, moved, found>>

\* A web process ends.
Kill(p) ==
  /\ pc' = [m \in Sends |->
       IF Place[m] = p /\ pc[m] \in {"lookup", "map", "publish", "after"}
       THEN "killed" ELSE pc[m]]
  /\ after' = [m \in Sends |->
       IF Place[m] = p /\ after[m] = "running" THEN "cut" ELSE after[m]]
  /\ saving' = [m \in Sends |->
       IF Place[m] = p /\ saving[m] = "sent" /\ call[m] = "none"
       THEN "cut" ELSE saving[m]]
  /\ UNCHANGED <<presence, id, pushed, moved, found>>

Crash(p) == Fault /\ Kill(p) /\ UNCHANGED service

\* The floating afterAcknowledgement rejects: nobody catches.
FloatFails(m) == Fault /\ Floats(m) /\ Kill(Place[m]) /\ UNCHANGED service

\* Mutant: the error is logged.
SaveFailsLogged(m) ==
  /\ Fault /\ saving[m] = "sent" /\ Queue!Fail(m) /\ UNCHANGED queued
  /\ UNCHANGED <<presence, pc, outcome, moved, found>>
\* The save fails: its callback throws, and nobody catches.
SaveFails(m) ==
  Fault /\ saving[m] = "sent" /\ Queue!Fail(m) /\ Kill(Place[m])

\* The queue service starts anew.
Forget == /\ Fault /\ queued # {} /\ Queue!Forget
          /\ UNCHANGED <<presence, pc, outcome, moved, found>>

-----------------------------------------------------------------------------

Gateway(c) == Connect(c) \/ SAdd(c) \/ HSet(c) \/ JoinFails(c) \/ Disconnect(c) \/ Remove(c)

Handle(m) == \/ LookupOnline(m) \/ LookupOffline(m) \/ HGet(m) \/ Publish(m)
             \/ AfterAcknowledgement(m)

Fails(m) == RedisError(m) \/ AfterFails(m) \/ FloatFails(m) \/ SaveFails(m)

Next == \/ \E c \in Connections : Gateway(c)
        \/ \E m \in Sends : Start(m) \/ Handle(m) \/ FloatEnds(m) \/ SaveArrives(m) \/ Fails(m)
        \/ \E p \in Replicas : Crash(p)
        \/ Forget

Spec == Init /\ [][Next]_vars

\* Redis answers or fails, and the queue service answers what a living process
\* asks of it.  Nothing is assumed of the gateway.
Fairness == \A m \in Sends :
  /\ WF_vars(Handle(m))
  /\ WF_vars(saving[m] = "sent" /\ (SaveArrives(m) \/ SaveFails(m)))
FairSpec == Spec /\ Fairness

-----------------------------------------------------------------------------
\* What Redis says of a user after presence calls of which none failed, nor was made
\* while another was under way: the user is in the set only by a hash with a socket
\* it has, and, not having had two at a time, whenever it has one.  (Of two, the
\* first to close takes the user from the set, and the other is never pushed to.)
PresenceIsTrue == \A u \in Users : Settled(u) =>
  /\ ~Dangling(u)
  /\ u \notin doubled => ~Hidden(u)

\* A send that sendMessageToUser ended well, while its user neither came nor went: it
\* was pushed to a socket of the user if Redis knew of one as it began, and was left
\* with the queue if the user was offline, or if Redis missed that it was not.  Only
\* a message to a user whose hash was dangling then may be lost.
SteadyIsReached == \A m \in Sends \ moved : pc[m] \in {"after", "done"} =>
  /\ found[m] = "online" => pushed[m] # NoSocket
  /\ found[m] \in {"offline", "hidden"} => saving[m] # "none"

\* No message is both pushed and left with the queue, even if the reply to the
\* PUBLISH was lost: catch does not take an error for an offline user.
NotTwice == \A m \in Sends : pushed[m] # NoSocket => saving[m] = "none"

\* Under FairSpec: a send ends in an error its client hears of, in the death of its
\* process, in the user's hands or in the queue, or else its user came or went
\* meanwhile, or had a dangling hash to begin with: by PresenceIsTrue, because calls
\* of userOnline or removals of that user failed, overlapped or were under way.
Reached == \A m \in Sends : pc[m] # "none" ~>
  \/ pc[m] \in {"failed", "killed"} \/ saving[m] = "cut"
  \/ pushed[m] # NoSocket \/ call[m] = "acked"
  \/ m \in moved \/ found[m] = "dangling"
=============================================================================
