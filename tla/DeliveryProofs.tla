--------------------------- MODULE DeliveryProofs ---------------------------
(***************************************************************************)
(* For any users, sockets, sends, replicas and faults: what Redis says of  *)
(* a user whose presence calls do not overlap, and where the messages go.  *)
(***************************************************************************)
EXTENDS Delivery, TLAPS

\* What the presence of a user is, call by call, when none failed or met another.
PresInv == \A u \in Users : u \notin muddled =>
  /\ \A c \in OfUser(u) : joining[c] \in {"add", "map"} =>
       /\ socket[c] = "open" /\ leaving \cap OfUser(u) = {}
       /\ \A d \in OfUser(u) : joining[d] \in {"add", "map"} => d = c
       /\ joining[c] = "map" => u \in online
  /\ \A c, d \in leaving \cap OfUser(u) : c = d
  /\ Calm(u) => ~Dangling(u)
  /\ u \notin doubled => \A c \in Open(u) :
       /\ Open(u) = {c} /\ leaving \cap OfUser(u) = {}
       /\ joining[c] \in {"add", "map", "done"}
       /\ joining[c] = "done" => u \in online

\* A send whose user does not move reads what it would have found as it began.
SteadyInv == \A m \in Sends : m \notin moved =>
  /\ pc[m] \in {"lookup", "map", "publish"} => Found(To[m]) = found[m]
  /\ pc[m] \in {"map", "publish"} => To[m] \in online
  /\ pc[m] = "publish" => id[m] = socketId[To[m]]
  /\ pc[m] \in {"after", "done"} =>
       /\ found[m] = "online" => pushed[m] # NoSocket
       /\ found[m] \in {"offline", "hidden"} => saving[m] # "none"

\* No message is anywhere before the step that sends it off.
OnceInv == \A m \in Sends :
  /\ pushed[m] # NoSocket => saving[m] = "none"
  /\ pc[m] \in {"none", "lookup", "map", "publish"} =>
       pushed[m] = NoSocket /\ saving[m] = "none"

-----------------------------------------------------------------------------
(* The steps. *)

Sending == <<pc, outcome, service, faults, moved, found>>

LEMMA NextIs ==
  ASSUME [Next]_vars
  PROVE  \/ \E c \in Connections : Gateway(c)
         \/ /\ UNCHANGED presence
            /\ \/ \E m \in Sends : \/ Start(m) \/ Handle(m) \/ FloatEnds(m) \/ SaveArrives(m)
                                   \/ RedisError(m) \/ AfterFails(m)
                                   \/ Queue!Fail(m) /\ Kill(Place[m]) /\ Fault
               \/ \E p \in Replicas : Kill(p) /\ Fault /\ UNCHANGED service
               \/ Forget
               \/ UNCHANGED vars
<1>1. ASSUME NEW m \in Sends, Start(m) PROVE UNCHANGED presence
  BY <1>1 DEF Start, Step
<1>2. ASSUME NEW m \in Sends, Handle(m) PROVE UNCHANGED presence
  BY <1>2 DEF Handle, LookupOnline, LookupOffline, sendMessageToOfflineUser, HGet, Publish,
              AfterAcknowledgement, Step
<1>3. ASSUME NEW m \in Sends, FloatEnds(m) \/ SaveArrives(m) \/ RedisError(m) \/ AfterFails(m)
      PROVE  UNCHANGED presence
  BY <1>3 DEF FloatEnds, SaveArrives, RedisError, AfterFails
<1>4. ASSUME NEW p, Kill(p) PROVE UNCHANGED presence
  BY <1>4 DEF Kill
<1>5. ASSUME NEW m \in Sends, FloatFails(m)
      PROVE  \E p \in Replicas : Kill(p) /\ Fault /\ UNCHANGED service
  BY <1>5, WhoAssumption DEF FloatFails
<1>6. ASSUME NEW m \in Sends, SaveFails(m)
      PROVE  Queue!Fail(m) /\ Kill(Place[m]) /\ Fault
  BY <1>6 DEF SaveFails
<1>7. Forget \/ UNCHANGED vars => UNCHANGED presence
  BY DEF Forget, vars
<1> QED BY <1>1, <1>2, <1>3, <1>4, <1>5, <1>6, <1>7 DEF Next, Fails, Crash

\* A step of the gateway is of one user's presence.
LEMMA GatewayIs ==
  ASSUME TypeOK, NEW c \in Connections, Gateway(c)
  PROVE  /\ Moves(Of[c]) /\ Of[c] \in Users
         /\ \A d \in Connections \ {c} :
              /\ joining'[d] = joining[d] /\ socket'[d] = socket[d]
              /\ d \in leaving' <=> d \in leaving
         /\ \A v \in Users \ {Of[c]} :
              /\ v \in online' <=> v \in online
              /\ v \in muddled' <=> v \in muddled
              /\ v \in doubled' <=> v \in doubled
              /\ socketId'[v] = socketId[v]
<1>0. Of[c] \in Users
  BY WhoAssumption
<1>1. CASE Connect(c)
  BY <1>0, <1>1 DEF Connect, TypeOK
<1>2. CASE SAdd(c)
  BY <1>0, <1>2 DEF SAdd, TypeOK
<1>3. CASE HSet(c)
  BY <1>0, <1>3 DEF HSet, TypeOK
<1>4. CASE JoinFails(c)
  BY <1>0, <1>4 DEF JoinFails, TypeOK
<1>5. CASE Disconnect(c)
  BY <1>0, <1>5 DEF Disconnect, TypeOK
<1>6. CASE Remove(c)
  BY <1>0, <1>6 DEF Remove, TypeOK
<1> QED BY <1>1, <1>2, <1>3, <1>4, <1>5, <1>6 DEF Gateway

\* Which leaves every other user where it was.
LEMMA OthersStay ==
  ASSUME TypeOK, NEW c \in Connections, Gateway(c), NEW v \in Users \ {Of[c]}
  PROVE  Open(v)' = Open(v) /\ (Calm(v)' <=> Calm(v)) /\ Found(v)' = Found(v)
<1>1. c \notin OfUser(v)
  BY DEF OfUser
<1>2. \A d \in OfUser(v) : joining'[d] = joining[d] /\ socket'[d] = socket[d]
                           /\ (d \in leaving' <=> d \in leaving)
  BY <1>1, GatewayIs DEF OfUser
<1>3. Open(v)' = Open(v)
  BY <1>2 DEF Open, OfUser
<1>4. Calm(v)' <=> Calm(v)
  BY <1>2 DEF Calm, OfUser
<1> QED BY <1>3, <1>4, GatewayIs DEF Found, Dangling, Hidden

-----------------------------------------------------------------------------
(* The types. *)

PresTypes ==
  /\ online   \subseteq Users
  /\ socketId \in [Users -> Sockets]
  /\ socket   \in [Connections -> {"new", "open", "closed"}]
  /\ joining  \in [Connections -> {"none", "add", "map", "done", "failed"}]
  /\ leaving  \subseteq {c \in Connections : socket[c] = "closed"}
  /\ muddled  \subseteq Users
  /\ doubled  \subseteq Users

SendTypes ==
  /\ pc       \in [Sends -> {"none", "lookup", "map", "publish", "after",
                             "done", "failed", "killed"}]
  /\ id       \in [Sends -> Sockets]
  /\ after    \in [Sends -> {"none", "running", "done", "cut"}]
  /\ pushed   \in [Sends -> Sockets]
  /\ saving   \in [Sends -> {"none", "sent", "cut"}]
  /\ call     \in [Sends -> {"none", "acked", "error"}]
  /\ queued   \subseteq {m \in Sends : call[m] = "acked"}
  /\ faults   \in 0..MaxFaults
  /\ moved    \subseteq Sends
  /\ found    \in [Sends -> {"online", "offline", "dangling", "hidden"}]

LEMMA PresTypesStep ==
  ASSUME TypeOK, [Next]_vars
  PROVE  PresTypes'
<1>0. PresTypes
  BY DEF TypeOK, PresTypes
<1>1. CASE UNCHANGED presence
  BY <1>0, <1>1 DEF presence, PresTypes
<1>2. ASSUME NEW c \in Connections, Gateway(c) PROVE PresTypes'
  <2>0. Of[c] \in Users /\ c \in Sockets
    BY WhoAssumption DEF Sockets
  <2>1. CASE Connect(c)
    BY <1>0, <2>0, <2>1 DEF Connect, PresTypes
  <2>2. CASE SAdd(c)
    BY <1>0, <2>0, <2>2 DEF SAdd, PresTypes
  <2>3. CASE HSet(c)
    BY <1>0, <2>0, <2>3 DEF HSet, PresTypes
  <2>4. CASE JoinFails(c)
    BY <1>0, <2>0, <2>4 DEF JoinFails, PresTypes
  <2>5. CASE Disconnect(c)
    BY <1>0, <2>0, <2>5 DEF Disconnect, PresTypes
  <2>6. CASE Remove(c)
    BY <1>0, <2>0, <2>6 DEF Remove, PresTypes
  <2> QED BY <1>2, <2>1, <2>2, <2>3, <2>4, <2>5, <2>6 DEF Gateway
<1> QED BY <1>1, <1>2, NextIs

\* What Found says of a user.
LEMMA FoundIs ==
  ASSUME NEW u \in Users
  PROVE  /\ u \in online => Found(u) \in {"online", "dangling"}
         /\ u \notin online => Found(u) \in {"offline", "hidden"}
         /\ Found(u) = "online" => socketId[u] \in Open(u)
  BY DEF Found, Dangling, Hidden

LEMMA SendTypesStep ==
  ASSUME TypeOK, [Next]_vars
  PROVE  SendTypes'
<1>0. SendTypes /\ NoSocket \in Sockets /\ Connections \subseteq Sockets
  BY DEF TypeOK, SendTypes, Sockets
<1>1. ASSUME NEW c \in Connections, Gateway(c) PROVE SendTypes'
  <2>1. faults' \in 0..MaxFaults
    BY <1>0, <1>1, BoundsAssumption
       DEF Gateway, Connect, SAdd, HSet, JoinFails, Fault, Disconnect, Remove, SendTypes
  <2>2. Moves(Of[c])
    BY <1>1, GatewayIs
  <2> QED BY <1>0, <2>1, <2>2 DEF Moves, outcome, service, SendTypes
<1>2. ASSUME NEW m \in Sends, Start(m) PROVE SendTypes'
  <2>1. Found(To[m]) \in {"online", "offline", "dangling", "hidden"}
    BY WhoAssumption, FoundIs
  <2> QED BY <1>0, <1>2, <2>1 DEF Start, Step, outcome, service, SendTypes
<1>3. ASSUME NEW m \in Sends, Handle(m) PROVE SendTypes'
  <2>1. CASE LookupOnline(m)
    BY <1>0, <2>1 DEF LookupOnline, Step, outcome, service, SendTypes
  <2>2. CASE LookupOffline(m)
    BY <1>0, <2>2 DEF LookupOffline, sendMessageToOfflineUser, Step, service, SendTypes
  <2>3. CASE HGet(m)
    <3>1. socketId[To[m]] \in Sockets
      BY WhoAssumption DEF TypeOK
    <3> QED BY <1>0, <2>3, <3>1 DEF HGet, Step, service, SendTypes
  <2>4. CASE Publish(m)
    BY <1>0, <2>4 DEF Publish, Push, Step, service, SendTypes
  <2>5. CASE AfterAcknowledgement(m)
    BY <1>0, <2>5 DEF AfterAcknowledgement, Step, service, SendTypes
  <2> QED BY <1>3, <2>1, <2>2, <2>3, <2>4, <2>5 DEF Handle
<1>4. ASSUME NEW m \in Sends, FloatEnds(m) \/ RedisError(m) \/ AfterFails(m) PROVE SendTypes'
  BY <1>0, <1>4, BoundsAssumption
     DEF FloatEnds, RedisError, AfterFails, Rejects, Push, Fault, service, SendTypes
<1>5. ASSUME NEW m \in Sends, SaveArrives(m) PROVE SendTypes'
  <2>1. /\ call' = [call EXCEPT ![m] = "acked"] /\ queued' = queued \cup {m}
        /\ UNCHANGED <<pc, outcome, faults, moved, found>>
    BY <1>5 DEF SaveArrives, Queue!Save
  <2> QED BY <1>0, <2>1 DEF outcome, SendTypes
<1>6. ASSUME NEW p, Kill(p), Fault, call' \in [Sends -> {"none", "acked", "error"}],
             queued' \subseteq {m \in Sends : call'[m] = "acked"}
      PROVE  SendTypes'
  BY <1>0, <1>6, BoundsAssumption DEF Kill, Fault, SendTypes
<1>7. ASSUME NEW p, Kill(p), Fault, UNCHANGED service PROVE SendTypes'
  BY <1>0, <1>6, <1>7 DEF service, SendTypes
<1>8. ASSUME NEW m \in Sends, Queue!Fail(m), Kill(Place[m]), Fault PROVE SendTypes'
  <2>1. call[m] = "none" /\ call' = [call EXCEPT ![m] = "error"] /\ queued' = queued
    BY <1>8 DEF Queue!Fail, Queue!Break
  <2> QED BY <1>0, <1>6, <1>8, <2>1 DEF SendTypes
<1>9. CASE Forget
  <2>1. queued' = {} /\ call' = call /\ Fault /\ UNCHANGED <<pc, outcome, moved, found>>
    BY <1>9 DEF Forget, Queue!Forget
  <2> QED BY <1>0, <2>1, BoundsAssumption DEF Fault, outcome, SendTypes
<1>10. CASE UNCHANGED vars
  BY <1>0, <1>10 DEF vars, outcome, service, SendTypes
<1> QED BY <1>1, <1>2, <1>3, <1>4, <1>5, <1>7, <1>8, <1>9, <1>10, NextIs

LEMMA TypeInit == Init => TypeOK
  BY BoundsAssumption DEF Init, TypeOK, Sockets

LEMMA TypeStep == TypeOK /\ [Next]_vars => TypeOK'
  BY PresTypesStep, SendTypesStep DEF TypeOK, PresTypes, SendTypes

\* TypeOK, in every behaviour.
THEOREM TypeCorrect == Spec => []TypeOK
  BY TypeInit, TypeStep, PTL DEF Spec

-----------------------------------------------------------------------------
(* Presence. *)

\* PresInv, of one user.
PresOf(u) == u \notin muddled =>
  /\ \A c \in OfUser(u) : joining[c] \in {"add", "map"} =>
       /\ socket[c] = "open" /\ leaving \cap OfUser(u) = {}
       /\ \A d \in OfUser(u) : joining[d] \in {"add", "map"} => d = c
       /\ joining[c] = "map" => u \in online
  /\ \A c, d \in leaving \cap OfUser(u) : c = d
  /\ Calm(u) => ~Dangling(u)
  /\ u \notin doubled => \A c \in Open(u) :
       /\ Open(u) = {c} /\ leaving \cap OfUser(u) = {}
       /\ joining[c] \in {"add", "map", "done"}
       /\ joining[c] = "done" => u \in online

LEMMA PresStep ==
  ASSUME TypeOK, PresInv, [Next]_vars
  PROVE  PresInv'
<1>0. PresTypes /\ \A u \in Users : PresOf(u)
  BY DEF TypeOK, PresTypes, PresInv, PresOf
<1>1. CASE UNCHANGED presence
  BY <1>1 DEF presence, PresInv, Open, OfUser, Calm, Dangling
<1>2. ASSUME NEW c \in Connections, Gateway(c) PROVE PresInv'
  <2> DEFINE u == Of[c]
  <2>0. u \in Users /\ c \in OfUser(u)
    BY WhoAssumption DEF OfUser
  <2>1. ASSUME NEW v \in Users, v # u PROVE PresOf(v)'
    <3>1. Open(v)' = Open(v) /\ (Calm(v)' <=> Calm(v))
      BY <1>2, <2>1, OthersStay
    <3>2. c \notin OfUser(v)
      BY <2>1 DEF OfUser
    <3>3. \A d \in OfUser(v) : joining'[d] = joining[d] /\ socket'[d] = socket[d]
                               /\ (d \in leaving' <=> d \in leaving)
      BY <1>2, <3>2, GatewayIs DEF OfUser
    <3>4. /\ v \in online' <=> v \in online
          /\ v \in muddled' <=> v \in muddled
          /\ v \in doubled' <=> v \in doubled
          /\ socketId'[v] = socketId[v]
      BY <1>2, <2>1, GatewayIs
    <3> QED BY <1>0, <3>1, <3>3, <3>4 DEF PresOf, OfUser, Open, Dangling
  <2>2. PresOf(u)'
    <3> SUFFICES ASSUME u \notin muddled' PROVE PresOf(u)'
      BY DEF PresOf
    <3>1. CASE Connect(c)
      <4>1. /\ Calm(u) /\ leaving' = leaving
            /\ socket' = [socket EXCEPT ![c] = "open"]
            /\ joining' = [joining EXCEPT ![c] = "add"]
            /\ u \notin doubled' => Open(u) = {}
        BY <1>0, <2>0, <3>1 DEF Connect, PresTypes
      <4>2. \A d \in OfUser(u) : d # c => /\ joining'[d] \notin {"add", "map"}
                                          /\ socket'[d] = socket[d]
        BY <1>0, <4>1 DEF Calm, OfUser, PresTypes
      <4>3. socket'[c] = "open" /\ joining'[c] = "add" /\ leaving' \cap OfUser(u) = {}
        BY <1>0, <4>1 DEF Calm, PresTypes
      <4>4. u \notin doubled' => Open(u)' = {c}
        BY <2>0, <4>1, <4>2, <4>3 DEF Open, OfUser
      <4>5. ~Calm(u)'
        BY <2>0, <4>3 DEF Calm, OfUser
      <4> QED BY <4>2, <4>3, <4>4, <4>5 DEF PresOf, OfUser
    <3>2. CASE SAdd(c)
      <4>1. /\ u \notin muddled /\ socket' = socket /\ leaving' = leaving /\ doubled' = doubled
            /\ joining[c] = "add" /\ joining'[c] = "map" /\ u \in online'
            /\ \A d \in OfUser(u) : d # c => joining'[d] = joining[d]
        BY <1>0, <2>0, <3>2 DEF SAdd, PresTypes, OfUser
      <4>2. Open(u)' = Open(u) /\ ~Calm(u)'
        BY <2>0, <4>1 DEF Open, Calm, OfUser
      <4>3. /\ c \in Open(u) /\ leaving \cap OfUser(u) = {}
            /\ \A d \in OfUser(u) : d # c => joining[d] \notin {"add", "map"}
        BY <1>0, <2>0, <4>1 DEF PresOf, Open
      <4> QED BY <1>0, <2>0, <4>1, <4>2, <4>3 DEF PresOf, OfUser
    <3>3. CASE HSet(c)
      <4>1. /\ u \notin muddled /\ socket' = socket /\ leaving' = leaving /\ doubled' = doubled
            /\ joining[c] = "map" /\ joining'[c] = "done" /\ socketId'[u] = c
            /\ online' = online /\ \A d \in OfUser(u) : d # c => joining'[d] = joining[d]
        BY <1>0, <2>0, <3>3 DEF HSet, PresTypes, OfUser
      <4>2. Open(u)' = Open(u)
        BY <4>1 DEF Open, OfUser
      <4>3. /\ c \in Open(u) /\ u \in online /\ leaving \cap OfUser(u) = {}
            /\ \A d \in OfUser(u) : d # c => joining[d] \notin {"add", "map"}
        BY <1>0, <2>0, <4>1 DEF PresOf, Open
      <4>4. ~Dangling(u)'
        BY <4>1, <4>2, <4>3 DEF Dangling
      <4> QED BY <1>0, <2>0, <4>1, <4>2, <4>3, <4>4 DEF PresOf, OfUser
    <3>4. CASE JoinFails(c)
      BY <2>0, <3>4 DEF JoinFails
    <3>5. CASE Disconnect(c)
      <4>1. /\ Calm(u) /\ u \notin muddled /\ c \in Open(u)
            /\ socket' = [socket EXCEPT ![c] = "closed"] /\ joining' = joining
            /\ leaving' = leaving \cup {c}
            /\ u \notin doubled' => Open(u) = {c} \/ u \notin doubled
        BY <1>0, <2>0, <3>5 DEF Disconnect, Open, PresTypes
      <4>2. u \notin doubled' => Open(u) = {c}
        BY <1>0, <2>0, <4>1 DEF PresOf
      <4>3. u \notin doubled' => Open(u)' = {}
        BY <1>0, <2>0, <4>1, <4>2 DEF Open, OfUser, PresTypes
      <4>4. /\ ~Calm(u)' /\ \A d \in OfUser(u) : joining'[d] \notin {"add", "map"}
            /\ leaving' \cap OfUser(u) = {c}
        BY <2>0, <4>1 DEF Calm, OfUser
      <4> QED BY <4>3, <4>4 DEF PresOf, OfUser
    <3>6. CASE Remove(c)
      <4>1. /\ u \notin muddled /\ c \in leaving /\ u \notin online'
            /\ socket' = socket /\ joining' = joining /\ doubled' = doubled
            /\ leaving' = leaving \ {c}
        BY <3>6 DEF Remove
      <4>2. Open(u)' = Open(u) /\ (u \notin doubled => Open(u) = {})
        BY <1>0, <2>0, <4>1 DEF PresOf, Open, OfUser
      <4>3. \A d \in OfUser(u) : joining'[d] \notin {"add", "map"}
        BY <1>0, <2>0, <4>1 DEF PresOf
      <4>4. ~Dangling(u)' /\ \A b, d \in leaving' \cap OfUser(u)' : b = d
        BY <1>0, <2>0, <4>1 DEF Dangling, PresOf, OfUser
      <4> QED BY <4>1, <4>2, <4>3, <4>4 DEF PresOf, OfUser
    <3> QED BY <1>2, <3>1, <3>2, <3>3, <3>4, <3>5, <3>6 DEF Gateway
  <2> QED BY <2>1, <2>2 DEF PresInv, PresOf
<1> QED BY <1>1, <1>2, NextIs

LEMMA PresInit == Init => PresInv
  BY DEF Init, PresInv, Open, OfUser, Dangling

LEMMA PresIs ==
  ASSUME PresInv
  PROVE  PresenceIsTrue
<1> SUFFICES ASSUME NEW u \in Users, Settled(u)
             PROVE  ~Dangling(u) /\ (u \notin doubled => ~Hidden(u))
  BY DEF PresenceIsTrue
<1>1. u \notin muddled /\ \A c \in OfUser(u) : joining[c] \notin {"add", "map"}
  BY DEF Settled, Calm
<1>2. ~Dangling(u)
  BY DEF Settled, PresInv
<1>3. ASSUME u \notin doubled PROVE ~Hidden(u)
  <2>1. \A c \in Open(u) : u \in online
    BY <1>1, <1>3 DEF PresInv, Open
  <2> QED BY <2>1 DEF Hidden
<1> QED BY <1>2, <1>3

\* PresenceIsTrue, in every behaviour.
THEOREM PresenceIsTrueAlways == Spec => []PresenceIsTrue
<1>1. TypeOK /\ PresInv /\ [Next]_vars => (TypeOK /\ PresInv)'
  BY TypeStep, PresStep
<1> QED BY <1>1, TypeInit, PresInit, PresIs, PTL DEF Spec

-----------------------------------------------------------------------------
(* Where the messages go. *)

\* Send m does not run: it is as it was, fails or dies, and a save may be cut.
Kept(m) ==
  /\ \/ pc'[m] = pc[m]
     \/ pc'[m] \in {"failed", "killed"}
  /\ id'[m] = id[m] /\ found'[m] = found[m] /\ (m \in moved' <=> m \in moved)
  /\ pushed'[m] # pushed[m] => pc[m] = "publish" /\ pc'[m] = "failed"
                                 /\ pushed'[m] = id[m]
  /\ saving'[m] # saving[m] => saving[m] = "sent" /\ saving'[m] = "cut"

LEMMA StepOf ==
  ASSUME TypeOK, [Next]_vars, NEW q \in Sends
  PROVE  \/ \E c \in Connections : Gateway(c)
         \/ UNCHANGED presence /\ (Start(q) \/ Handle(q) \/ Kept(q))
<1>0. SendTypes
  BY DEF TypeOK, SendTypes
<1>1. ASSUME NEW m \in Sends, m # q, Start(m) \/ Handle(m) PROVE Kept(q)
  <2>1. CASE Start(m)
    BY <1>0, <1>1, <2>1 DEF Start, Step, outcome, Kept, SendTypes
  <2>2. CASE LookupOnline(m) \/ HGet(m)
    BY <1>0, <1>1, <2>2 DEF LookupOnline, HGet, Step, outcome, Kept, SendTypes
  <2>3. CASE LookupOffline(m)
    BY <1>0, <1>1, <2>3 DEF LookupOffline, sendMessageToOfflineUser, Step, Kept, SendTypes
  <2>4. CASE Publish(m) \/ AfterAcknowledgement(m)
    BY <1>0, <1>1, <2>4 DEF Publish, Push, AfterAcknowledgement, Step, Kept, SendTypes
  <2> QED BY <1>1, <2>1, <2>2, <2>3, <2>4 DEF Handle
<1>2. ASSUME NEW m \in Sends, FloatEnds(m) \/ SaveArrives(m) PROVE Kept(q)
  BY <1>2 DEF FloatEnds, SaveArrives, outcome, Kept
<1>3. ASSUME NEW m \in Sends, RedisError(m) \/ AfterFails(m) PROVE Kept(q)
  BY <1>0, <1>3 DEF RedisError, AfterFails, Rejects, Push, Kept, SendTypes
<1>4. ASSUME NEW p, Kill(p) PROVE Kept(q)
  BY <1>0, <1>4 DEF Kill, Kept, SendTypes
<1>5. CASE Forget \/ UNCHANGED vars
  BY <1>5 DEF Forget, vars, outcome, Kept
<1> QED BY <1>1, <1>2, <1>3, <1>4, <1>5, NextIs

LEMMA SteadyStep ==
  ASSUME TypeOK, SteadyInv, [Next]_vars
  PROVE  SteadyInv'
<1>0. SendTypes
  BY DEF TypeOK, SendTypes
<1> DEFINE Reads(m) ==
      /\ pc[m] \in {"lookup", "map", "publish"} => Found(To[m]) = found[m]
      /\ pc[m] \in {"map", "publish"} => To[m] \in online
      /\ pc[m] = "publish" => id[m] = socketId[To[m]]
    Ended(m) == pc[m] \in {"after", "done"} =>
      /\ found[m] = "online" => pushed[m] # NoSocket
      /\ found[m] \in {"offline", "hidden"} => saving[m] # "none"
<1> SUFFICES ASSUME NEW m \in Sends, m \notin moved' PROVE Reads(m)' /\ Ended(m)'
  BY DEF SteadyInv
<1> DEFINE u == To[m]
<1>1. u \in Users
  BY WhoAssumption
<1>a. m \notin moved => Reads(m) /\ Ended(m)
  BY DEF SteadyInv
<1>2. ASSUME NEW c \in Connections, Gateway(c) PROVE Reads(m)' /\ Ended(m)'
  <2>1. /\ m \notin moved /\ UNCHANGED <<pc, id, saving, pushed, found>>
        /\ u = Of[c] => pc[m] \notin {"lookup", "map", "publish"}
    BY <1>2, GatewayIs DEF Moves, outcome
  <2>2. ASSUME u # Of[c]
        PROVE  /\ Found(u)' = Found(u) /\ socketId'[u] = socketId[u]
               /\ u \in online' <=> u \in online
    BY <1>1, <1>2, <2>2, GatewayIs, OthersStay
  <2> QED BY <1>a, <2>1, <2>2
<1>3. ASSUME UNCHANGED presence
      PROVE  /\ Found(u)' = Found(u) /\ socketId'[u] = socketId[u]
             /\ u \in online' <=> u \in online
  BY <1>3 DEF presence, Found, Dangling, Hidden, Open, OfUser
<1>4. CASE UNCHANGED presence /\ Start(m)
  <2>1. pc'[m] = "lookup" /\ found'[m] = Found(u)
    BY <1>0, <1>4 DEF Start, Step, SendTypes
  <2> QED BY <1>3, <1>4, <2>1
<1>5. CASE UNCHANGED presence /\ Handle(m)
  <2>0. m \notin moved /\ found' = found
    BY <1>5 DEF Handle, LookupOnline, LookupOffline, sendMessageToOfflineUser, HGet, Publish,
                AfterAcknowledgement, Step
  <2>1. CASE LookupOnline(m)
    <3>1. pc[m] = "lookup" /\ pc'[m] = "map" /\ u \in online
      BY <1>0, <2>1 DEF LookupOnline, Step, SendTypes
    <3> QED BY <1>a, <1>3, <1>5, <2>0, <3>1
  <2>2. CASE LookupOffline(m)
    <3>1. pc[m] = "lookup" /\ pc'[m] = "done" /\ u \notin online /\ saving'[m] = "sent"
      BY <1>0, <2>2 DEF LookupOffline, sendMessageToOfflineUser, Step, SendTypes
    <3>2. found[m] \in {"offline", "hidden"}
      BY <1>1, <1>a, <2>0, <3>1, FoundIs
    <3> QED BY <2>0, <3>1, <3>2
  <2>3. CASE HGet(m)
    <3>1. pc[m] = "map" /\ pc'[m] = "publish" /\ id'[m] = socketId[u]
      BY <1>0, <2>3 DEF HGet, Step, SendTypes
    <3> QED BY <1>a, <1>3, <1>5, <2>0, <3>1
  <2>4. CASE Publish(m)
    <3>1. pc[m] = "publish" /\ pc'[m] = "after" /\ found[m] = Found(u) /\ u \in online
          /\ id[m] = socketId[u]
      BY <1>0, <1>a, <2>0, <2>4 DEF Publish, Step, SendTypes
    <3>2. found[m] \in {"online", "dangling"}
      BY <1>1, <3>1, FoundIs
    <3>3. ASSUME found[m] = "online" PROVE pushed'[m] # NoSocket
      <4>1. id[m] \in Connections /\ socket[id[m]] = "open"
        BY <1>1, <3>1, <3>3, FoundIs DEF Open, OfUser
      <4> QED BY <1>0, <2>4, <4>1, NoSocketAssumption DEF Publish, Push, SendTypes
    <3> QED BY <2>0, <3>1, <3>2, <3>3
  <2>5. CASE AfterAcknowledgement(m)
    <3>1. pc[m] = "after" /\ pc'[m] = "done" /\ UNCHANGED <<pushed, saving>>
      BY <1>0, <2>5 DEF AfterAcknowledgement, Step, SendTypes
    <3> QED BY <1>a, <2>0, <3>1
  <2> QED BY <1>5, <2>1, <2>2, <2>3, <2>4, <2>5 DEF Handle
<1>6. CASE UNCHANGED presence /\ Kept(m)
  BY <1>a, <1>3, <1>6 DEF Kept
<1> QED BY <1>2, <1>4, <1>5, <1>6, StepOf

LEMMA SteadyInit == Init => SteadyInv
  BY DEF Init, SteadyInv

\* SteadyIsReached, in every behaviour: the three reads agree with one another on a
\* user who does not move, so what Redis said of it as the send began decides.
THEOREM SteadyIsReachedAlways == Spec => []SteadyIsReached
<1> DEFINE Inv == TypeOK /\ SteadyInv
<1>1. Inv /\ [Next]_vars => Inv'
  BY TypeStep, SteadyStep
<1>2. Init => Inv
  BY TypeInit, SteadyInit
<1>3. Inv => SteadyIsReached
  BY DEF SteadyInv, SteadyIsReached
<1> QED BY <1>1, <1>2, <1>3, PTL DEF Spec

LEMMA OnceStep ==
  ASSUME TypeOK, OnceInv, [Next]_vars
  PROVE  OnceInv'
<1>0. SendTypes
  BY DEF TypeOK, SendTypes
<1> SUFFICES ASSUME NEW m \in Sends
             PROVE  /\ pushed'[m] # NoSocket => saving'[m] = "none"
                    /\ pc'[m] \in {"none", "lookup", "map", "publish"} =>
                         pushed'[m] = NoSocket /\ saving'[m] = "none"
  BY DEF OnceInv
<1>1. ASSUME NEW c \in Connections, Gateway(c) PROVE UNCHANGED <<pc, outcome>>
  BY <1>1, GatewayIs DEF Moves
<1>2. CASE Start(m)
  BY <1>0, <1>2 DEF Start, Step, outcome, OnceInv, SendTypes
<1>3. CASE Handle(m)
  <2>1. CASE LookupOnline(m) \/ HGet(m)
    BY <1>0, <2>1 DEF LookupOnline, HGet, Step, outcome, OnceInv, SendTypes
  <2>2. CASE LookupOffline(m)
    BY <1>0, <2>2 DEF LookupOffline, sendMessageToOfflineUser, Step, OnceInv, SendTypes
  <2>3. CASE Publish(m) \/ AfterAcknowledgement(m)
    BY <1>0, <2>3 DEF Publish, Push, AfterAcknowledgement, Step, OnceInv, SendTypes
  <2> QED BY <1>3, <2>1, <2>2, <2>3 DEF Handle
<1>4. CASE Kept(m)
  BY <1>4 DEF Kept, OnceInv
<1> QED BY <1>1, <1>2, <1>3, <1>4, StepOf DEF outcome, OnceInv

\* NotTwice, in every behaviour.
THEOREM NotTwiceAlways == Spec => []NotTwice
<1>1. TypeOK /\ OnceInv /\ [Next]_vars => (TypeOK /\ OnceInv)'
  BY TypeStep, OnceStep
<1>2. Init => OnceInv
  BY DEF Init, OnceInv
<1>3. OnceInv => NotTwice
  BY DEF OnceInv, NotTwice
<1> QED BY <1>1, <1>2, <1>3, TypeInit, PTL DEF Spec

-----------------------------------------------------------------------------
(* Whose socket a message is pushed to, also when Redis is wrong. *)

\* A hash holds a socket of its user, and a send has read its own user's hash.
OwnSocketInv ==
  /\ \A u \in Users : socketId[u] \in OfUser(u) \cup {NoSocket}
  /\ \A m \in Sends : /\ id[m] \in OfUser(To[m]) \cup {NoSocket}
                      /\ pushed[m] \in OfUser(To[m]) \cup {NoSocket}

\* A message is pushed to no socket but its addressee's.
PushedToOwn == \A m \in Sends : pushed[m] # NoSocket => Of[pushed[m]] = To[m]

LEMMA OwnSocketStep ==
  ASSUME TypeOK, OwnSocketInv, [Next]_vars
  PROVE  OwnSocketInv'
<1> USE DEF OfUser
<1>0. SendTypes /\ socketId \in [Users -> Sockets] /\ To \in [Sends -> Users]
  BY WhoAssumption DEF TypeOK, SendTypes
<1>1. ASSUME NEW u \in Users PROVE socketId'[u] \in OfUser(u) \cup {NoSocket}
  <2>1. CASE socketId'[u] = socketId[u]
    BY <2>1 DEF OwnSocketInv
  <2>2. ASSUME NEW c \in Connections, Gateway(c) PROVE
          socketId'[u] = socketId[u] \/ (socketId'[u] = c /\ Of[c] = u)
    BY <1>0, <2>2 DEF Gateway, Connect, SAdd, HSet, JoinFails, Disconnect, Remove
  <2>3. QED
    BY <2>1, <2>2, NextIs DEF presence
<1>2. ASSUME NEW m \in Sends
      PROVE  /\ id'[m] \in OfUser(To[m]) \cup {NoSocket}
             /\ pushed'[m] \in OfUser(To[m]) \cup {NoSocket}
  <2> USE DEF OwnSocketInv
  <2>1. ASSUME NEW c \in Connections, Gateway(c) PROVE UNCHANGED <<id, pushed>>
    BY <2>1, GatewayIs DEF Moves, outcome
  <2>2. CASE Start(m) \/ LookupOnline(m) \/ LookupOffline(m) \/ AfterAcknowledgement(m)
    BY <2>2 DEF Start, LookupOnline, LookupOffline, sendMessageToOfflineUser,
       AfterAcknowledgement, outcome
  <2>3. CASE HGet(m)
    BY <1>0, <2>3 DEF HGet, SendTypes
  <2>4. CASE Publish(m)
    BY <1>0, <2>4, NoSocketAssumption DEF Publish, Push, SendTypes
  <2>5. CASE Kept(m)
    BY <1>0, <2>5 DEF Kept, SendTypes
  <2>6. QED
    BY <2>1, <2>2, <2>3, <2>4, <2>5, StepOf DEF Handle
<1>3. QED
  BY <1>1, <1>2 DEF OwnSocketInv

\* PushedToOwn, in every behaviour: a stale socket id of a user that moved, or whose
\* presence calls overlapped, loses the message but shows it to nobody else.
THEOREM PushedToOwnAlways == Spec => []PushedToOwn
<1>1. TypeOK /\ OwnSocketInv /\ [Next]_vars => (TypeOK /\ OwnSocketInv)'
  BY TypeStep, OwnSocketStep
<1>2. Init => OwnSocketInv
  BY DEF Init, OwnSocketInv
<1>3. OwnSocketInv => PushedToOwn
  BY DEF OwnSocketInv, PushedToOwn, OfUser
<1> QED BY <1>1, <1>2, <1>3, TypeInit, PTL DEF Spec

-----------------------------------------------------------------------------
(* What the web servers do to the queue is what a MessageQueue allows.       *)

\* A step of Delivery is one save, one failed save, a restart of the queue, or
\* nothing to it.
LEMMA QueueStep ==
  ASSUME [Next]_vars
  PROVE  [Queue!Next]_Queue!vars
<1>1. ASSUME NEW m \in Sends, SaveArrives(m) PROVE Queue!Next
  BY <1>1 DEF SaveArrives, Queue!Next
<1>2. ASSUME NEW m \in Sends, Queue!Fail(m) PROVE Queue!Next
  BY <1>2 DEF Queue!Next
<1>3. CASE Forget
  BY <1>3 DEF Forget, Queue!Next
<1>4. CASE UNCHANGED service
  BY <1>4 DEF service, Queue!vars
<1>5. ASSUME NEW c \in Connections, Gateway(c) PROVE UNCHANGED service
  BY <1>5 DEF Gateway, Connect, SAdd, HSet, JoinFails, Disconnect, Remove, Moves
<1>6. ASSUME NEW m \in Sends,
             Start(m) \/ Handle(m) \/ FloatEnds(m) \/ RedisError(m) \/ AfterFails(m)
      PROVE  UNCHANGED service
  BY <1>6 DEF Start, Handle, LookupOnline, LookupOffline, sendMessageToOfflineUser, HGet,
     Publish, AfterAcknowledgement, Step, FloatEnds, RedisError, AfterFails
<1>7. UNCHANGED vars => UNCHANGED service
  BY DEF vars
<1>8. QED
  BY <1>1, <1>2, <1>3, <1>4, <1>5, <1>6, <1>7, NextIs

\* The composition is sound: of the MessageQueue it is composed with, Delivery takes
\* no step that the abstract queue does not have, so what QueueService refines is
\* what Delivery relies on.
THEOREM UsesQueueAlways == Spec => Queue!Spec
<1>1. Init => Queue!Init
  BY DEF Init, Queue!Init
<1>2. [Next]_vars => [Queue!Next]_Queue!vars
  BY QueueStep
<1>3. QED
  BY <1>1, <1>2, PTL DEF Spec, Queue!Spec

=============================================================================
