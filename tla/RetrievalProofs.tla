--------------------------- MODULE RetrievalProofs ---------------------------
(***************************************************************************)
(* Theorems about Retrieval, for any confessions, clients, replicas, page  *)
(* size and number of faults.                                              *)
(***************************************************************************)
EXTENDS Retrieval, TLAPS

-----------------------------------------------------------------------------
(* The clustering order. *)

Points == Nat \X Nat

\* Keys and the beginning are pairs of numbers.
LEMMA KeysArePoints == Keys \cup {Beginning} \subseteq Points
<1>1. \A t \in Times, c \in Confessions : <<t, c>> \in Points
  BY OrderAssumption DEF Points
<1>2. <<0, 0>> \in Points
  BY DEF Points
<1> QED BY <1>1, <1>2 DEF Keys, Beginning

\* The clustering order is transitive.
LEMMA BeforeTransitive ==
  ASSUME NEW a \in Points, NEW b \in Points, NEW c \in Points,
         Before(a, b), Before(b, c)
  PROVE  Before(a, c)
BY DEF Before, Points

\* No page ends before the first row.
LEMMA BeginningIsFirst ==
  ASSUME NEW k \in Keys
  PROVE  Before(Beginning, k) /\ ~Before(k, Beginning) /\ k # Beginning
<1>1. k[1] \in Nat \ {0}
  BY OrderAssumption DEF Keys
<1>2. Beginning[1] = 0 /\ Beginning[2] = 0
  BY DEF Beginning
<1> QED BY <1>1, <1>2 DEF Before

-----------------------------------------------------------------------------
(* Type correctness. *)

\* A call is for a table, and only a fetched page holds anything.
CallInv ==
  \A v \in Clients : /\ call[v] # "rest" => route[v] \in Tables
                     /\ call[v] # "fetched" => page[v] = {} /\ more[v] = FALSE

TypeInv == TypeOK /\ CallInv

\* The key of an unread row is a key.
LEMMA UnreadKeyType == \A c \in Confessions : UnreadKey(c) \in Keys
BY OrderAssumption DEF UnreadKey, Keys

\* What the end of a process does to the types.
LEMMA KillType ==
  ASSUME TypeInv, NEW p \in Replicas, Kill(p), faults' \in 0..MaxFaults
  PROVE  TypeInv'
<1>1. TypeOK'
  BY DEF Kill, TypeInv, TypeOK, writers, walk
<1>2. CallInv'
  BY DEF Kill, TypeInv, TypeOK, CallInv, writers, walk
<1> QED BY <1>1, <1>2 DEF TypeInv

\* A fault keeps the count of faults within its bound.
LEMMA FaultType ==
  ASSUME TypeOK, Fault
  PROVE  faults' \in 0..MaxFaults
BY BoundsAssumption DEF Fault, TypeOK

\* The rows a page_state has to bring are rows.
LEMMA RestType ==
  ASSUME TypeInv, NEW v \in Clients, call[v] = "asked"
  PROVE  Rest(v) \subseteq Keys /\ route[v] \in Tables
<1>1. route[v] \in Tables
  BY DEF TypeInv, CallInv
<1>2. rows[route[v]] \subseteq Keys
  BY <1>1 DEF TypeInv, TypeOK
<1> QED BY <1>1, <1>2 DEF Rest

\* The types, and CallInv with them, are inductive.
LEMMA TypeStep ==
  ASSUME TypeInv, [Next]_vars
  PROVE  TypeInv'
<1> USE DEF TypeInv, writers, walk, vars
<1>1. ASSUME NEW c \in Confessions, InsertUnread(c) PROVE TypeInv'
  <2>1. TypeOK'
    BY <1>1, UnreadKeyType DEF InsertUnread, TypeOK, Tables
  <2> QED BY <1>1, <2>1 DEF InsertUnread, CallInv
<1>2. ASSUME NEW q \in Reads, DeleteUnread(q) PROVE TypeInv'
  <2>1. TypeOK'
    BY <1>2 DEF DeleteUnread, TypeOK, Tables
  <2> QED BY <1>2, <2>1 DEF DeleteUnread, CallInv
<1>3. ASSUME NEW q \in Reads, InsertRead(q) PROVE TypeInv'
  <2>1. PICK t \in Times : rows' = [rows EXCEPT !["read"] = @ \cup {<<t, Of[q]>>}]
    BY <1>3 DEF InsertRead
  <2>2. <<t, Of[q]>> \in Keys
    BY ReadsAssumption DEF Keys
  <2>3. rows' \in [Tables -> SUBSET Keys]
    BY <2>1, <2>2 DEF TypeOK, Tables
  <2>4. TypeOK'
    BY <1>3, <2>3 DEF InsertRead, TypeOK
  <2> QED BY <1>3, <2>4 DEF InsertRead, CallInv
<1>4. ASSUME NEW q \in Reads, ReadFails(q) PROVE TypeInv'
  <2>1. TypeOK'
    BY <1>4, FaultType DEF ReadFails, TypeOK
  <2> QED BY <1>4, <2>1 DEF ReadFails, CallInv
<1>5. ASSUME NEW v \in Clients, Ask(v) PROVE TypeInv'
  <2>1. Named(rows["unread"] \cup rows["read"]) \subseteq Confessions
    BY DEF TypeOK, Named, Tables, Keys
  <2>2. InMove \subseteq Confessions
    BY ReadsAssumption DEF InMove
  <2>3. rows[route[v]] \in SUBSET Keys /\ route[v] \in Tables
    BY <1>5 DEF Ask, TypeOK
  <2>4. steady' \in [Clients -> [Tables -> SUBSET Keys]]
    <3>1. CASE cursor[v] = Beginning
      <4>1. steady' = [steady EXCEPT ![v][route[v]] = rows[route[v]]]
        BY <1>5, <3>1 DEF Ask
      <4> QED BY <2>3, <4>1 DEF TypeOK
    <3>2. CASE cursor[v] # Beginning
      BY <1>5, <3>2 DEF Ask, TypeOK
    <3> QED BY <3>1, <3>2
  <2>5. owed' \in [Clients -> SUBSET Confessions]
    BY <1>5, <2>1 DEF Ask, TypeOK
  <2>6. moving' \in [Clients -> SUBSET Confessions]
    BY <1>5, <2>2 DEF Ask, TypeOK
  <2>7. call' \in [Clients -> {"rest", "asked", "fetched"}] /\ server' \in [Clients -> Replicas]
    BY <1>5 DEF Ask, TypeOK
  <2>8. UNCHANGED <<rows, sent, pc, route, cursor, got, page, more, faults>>
    BY <1>5 DEF Ask
  <2>9. TypeOK'
    BY <2>4, <2>5, <2>6, <2>7, <2>8 DEF TypeOK
  <2>10. CallInv'
    BY <1>5, <2>3 DEF Ask, TypeOK, CallInv
  <2> QED BY <2>9, <2>10
<1>6. ASSUME NEW v \in Clients, Fetch(v) PROVE TypeInv'
  <2>1. Rest(v) \subseteq Keys /\ route[v] \in Tables
    BY <1>6, RestType DEF Fetch
  <2>2. TypeOK'
    BY <1>6, <2>1 DEF Fetch, HasPageState, TypeOK
  <2>3. CallInv'
    BY <1>6, <2>1 DEF Fetch, TypeOK, CallInv
  <2> QED BY <2>2, <2>3
<1>7. ASSUME NEW v \in Clients, Answer(v) PROVE TypeInv'
  <2>1. route[v] \in Tables
    BY <1>7 DEF Answer, CallInv
  <2>2. got' \in [Clients -> [Tables -> SUBSET Keys]]
    BY <1>7, <2>1 DEF Answer, TypeOK
  <2>3. cursor' \in [Clients -> Keys \cup {Beginning}]
    BY <1>7 DEF Answer, PageState, TypeOK
  <2>4. route' \in [Clients -> Tables \cup {"over"}]
    BY <1>7 DEF Answer, Tables, TypeOK
  <2>5. TypeOK'
    BY <1>7, <2>2, <2>3, <2>4 DEF Answer, TypeOK
  <2>6. CallInv'
    BY <1>7 DEF Answer, TypeOK, CallInv
  <2> QED BY <2>5, <2>6
<1>8. ASSUME NEW v \in Clients, PageFails(v) PROVE TypeInv'
  BY <1>8, FaultType, KillType DEF PageFails, TypeOK
<1>9. ASSUME NEW p \in Replicas, RetrieveChats(p) \/ RetrieveOffline(p) PROVE TypeInv'
  BY <1>9, FaultType, KillType DEF RetrieveChats, RetrieveOffline
<1>10. CASE UNCHANGED vars
  BY <1>10 DEF TypeOK, CallInv
<1> QED BY <1>1, <1>2, <1>3, <1>4, <1>5, <1>6, <1>7, <1>8, <1>9, <1>10 DEF Next, Write

\* The initial states have the types.
LEMMA TypeInit == Init => TypeInv
BY BoundsAssumption DEF Init, TypeInv, TypeOK, CallInv, Tables, Beginning

\* Every variable keeps its type (the routes and the moves of readConfession),
\* for any constants.
THEOREM TypeCorrect == Spec => []TypeOK
<1>1. Spec => []TypeInv
  BY TypeInit, TypeStep, PTL DEF Spec
<1> QED BY <1>1, PTL DEF TypeInv

-----------------------------------------------------------------------------
(* The walk. *)

\* Whatever ends a process is Kill, for the clients and for the moves.
LEMMA NextIs ==
  ASSUME TypeInv, [Next]_vars
  PROVE  \/ Write
         \/ \E v \in Clients : Ask(v) \/ Fetch(v) \/ Answer(v)
         \/ \E p \in Replicas : Kill(p)
         \/ UNCHANGED vars
<1>1. ASSUME NEW v \in Clients, PageFails(v) PROVE \E p \in Replicas : Kill(p)
  <2>1. server[v] \in Replicas
    BY DEF TypeInv, TypeOK
  <2> QED BY <1>1, <2>1 DEF PageFails
<1> QED BY <1>1 DEF Next, RetrieveChats, RetrieveOffline

\* What a client was shown lies up to its page_state, what it is about to be
\* shown after it.
WalkInv ==
  \A v \in Clients :
    /\ route[v] \in Tables =>
         \A g \in got[v][route[v]] : g = cursor[v] \/ Before(g, cursor[v])
    /\ route[v] = "unread" => got[v]["read"] = {}
    /\ \A k \in page[v] : Before(cursor[v], k)

\* A full page ends with a row of its own, and all its rows lie up to it.
LEMMA PageEnd ==
  ASSUME TypeInv, NEW v \in Clients, NEW k \in PageState(v)
  PROVE  k \in page[v] /\ \A l \in page[v] : l = k \/ Before(l, k)
BY DEF PageState

\* WalkInv is inductive.
LEMMA WalkStep ==
  ASSUME TypeInv, WalkInv, [Next]_vars
  PROVE  WalkInv'
<1>1. CASE Write
  BY <1>1 DEF Write, InsertUnread, DeleteUnread, InsertRead, ReadFails, walk, WalkInv
<1>2. ASSUME NEW v \in Clients, Ask(v) PROVE WalkInv'
  BY <1>2 DEF Ask, walk, WalkInv
<1>3. ASSUME NEW v \in Clients, Fetch(v) PROVE WalkInv'
  <2>1. \A k \in page'[v] : Before(cursor[v], k)
    <3>1. PICK P \in SUBSET Rest(v) : page' = [page EXCEPT ![v] = P]
      BY <1>3 DEF Fetch
    <3> QED BY <3>1 DEF Rest, TypeInv, TypeOK
  <2>2. \A u \in Clients : u # v => page'[u] = page[u]
    BY <1>3 DEF Fetch, TypeInv, TypeOK
  <2>3. UNCHANGED <<route, cursor, got>>
    BY <1>3 DEF Fetch, walk
  <2> QED BY <2>1, <2>2, <2>3 DEF WalkInv
<1>4. ASSUME NEW v \in Clients, Answer(v) PROVE WalkInv'
  <2>1. route[v] \in Tables
    BY <1>4 DEF Answer, TypeInv, CallInv
  <2>2. \A u \in Clients : u # v =>
          page'[u] = page[u] /\ got'[u] = got[u] /\ route'[u] = route[u] /\ cursor'[u] = cursor[u]
    BY <1>4 DEF Answer, TypeInv, TypeOK
  <2>3. page'[v] = {} /\ got'[v] = [got[v] EXCEPT ![route[v]] = @ \cup page[v]]
    BY <1>4 DEF Answer, TypeInv, TypeOK
  <2>4. got[v] \in [Tables -> SUBSET Keys] /\ page[v] \subseteq Keys
    BY DEF TypeInv, TypeOK
  <2>5. route'[v] \in Tables =>
          \A g \in got'[v][route'[v]] : g = cursor'[v] \/ Before(g, cursor'[v])
    <3>1. CASE more[v]
      <4>1. PICK k \in PageState(v) : cursor'[v] = k
        BY <1>4, <3>1 DEF Answer, TypeInv, TypeOK
      <4>2. route'[v] = route[v]
        BY <1>4, <3>1 DEF Answer
      <4>3. k \in page[v] /\ \A l \in page[v] : l = k \/ Before(l, k)
        BY <4>1, PageEnd
      <4>4. \A g \in got[v][route[v]] : Before(g, k)
        <5> TAKE g \in got[v][route[v]]
        <5>1. g = cursor[v] \/ Before(g, cursor[v])
          BY <2>1 DEF WalkInv
        <5>2. Before(cursor[v], k)
          BY <4>3 DEF WalkInv
        <5>3. g \in Points /\ cursor[v] \in Points /\ k \in Points
          BY <2>1, <2>4, <4>3, KeysArePoints DEF TypeInv, TypeOK
        <5> QED BY <5>1, <5>2, <5>3, BeforeTransitive
      <4>5. got'[v][route[v]] = got[v][route[v]] \cup page[v]
        BY <2>1, <2>3, <2>4
      <4> QED BY <4>1, <4>2, <4>3, <4>4, <4>5
    <3>2. CASE ~more[v]
      <4>1. route'[v] = (IF route[v] = "unread" THEN "read" ELSE "over")
        BY <1>4, <3>2 DEF Answer, TypeInv, TypeOK
      <4>2. CASE route[v] = "unread"
        <5>1. got'[v]["read"] = got[v]["read"] /\ got[v]["read"] = {}
          BY <2>3, <2>4, <4>2 DEF WalkInv, Tables
        <5> QED BY <4>1, <4>2, <5>1
      <4>3. CASE route[v] # "unread"
        BY <4>1, <4>3 DEF Tables
      <4> QED BY <4>2, <4>3
    <3> QED BY <3>1, <3>2
  <2>6. route'[v] = "unread" => got'[v]["read"] = {}
    <3>1. route'[v] = "unread" => route[v] = "unread"
      BY <1>4 DEF Answer, TypeInv, TypeOK
    <3>2. route[v] = "unread" => got'[v]["read"] = got[v]["read"]
      BY <2>3, <2>4 DEF Tables
    <3> QED BY <3>1, <3>2 DEF WalkInv
  <2> QED BY <2>2, <2>3, <2>5, <2>6 DEF WalkInv
<1>5. ASSUME NEW p \in Replicas, Kill(p) PROVE WalkInv'
  <2>1. \A u \in Clients : page'[u] \subseteq page[u]
    BY <1>5 DEF Kill, TypeInv, TypeOK
  <2>2. UNCHANGED <<route, cursor, got>>
    BY <1>5 DEF Kill, walk
  <2> QED BY <2>1, <2>2 DEF WalkInv
<1>6. CASE UNCHANGED vars
  BY <1>6 DEF vars, walk, WalkInv
<1> QED BY <1>1, <1>2, <1>3, <1>4, <1>5, <1>6, NextIs

\* The walk, from the first state on.
LEMMA WalkAlways == Spec => [](TypeInv /\ WalkInv)
<1>1. Init => WalkInv
  BY DEF Init, WalkInv, Tables
<1> QED BY <1>1, TypeInit, TypeStep, WalkStep, PTL DEF Spec

\* A page brings rows that come after all its client was shown of the table, for
\* any page size and whatever the writers do meanwhile (page_state).
THEOREM PagesInOrderAlways == Spec => []PagesInOrder
<1>1. TypeInv /\ WalkInv => PagesInOrder
  <2> SUFFICES ASSUME TypeInv, WalkInv, NEW v \in Clients, NEW k \in page[v],
                      NEW g \in got[v][route[v]]
               PROVE  Before(g, k)
    BY DEF PagesInOrder
  <2>1. route[v] \in Tables
    BY DEF TypeInv, TypeOK, CallInv
  <2>2. g = cursor[v] \/ Before(g, cursor[v])
    BY <2>1 DEF WalkInv
  <2>3. Before(cursor[v], k)
    BY DEF WalkInv
  <2>4. g \in Points /\ cursor[v] \in Points /\ k \in Points
    BY <2>1, KeysArePoints DEF TypeInv, TypeOK
  <2> QED BY <2>2, <2>3, <2>4, BeforeTransitive
<1> QED BY <1>1, WalkAlways, PTL

-----------------------------------------------------------------------------
(* Rows that stay are shown. *)

\* A row that stayed since its client began with the table is still a row; it
\* was shown or lies after the page_state; and of the latter, a fetched page has
\* it or ends before it.
SteadyInv ==
  \A v \in Clients :
    /\ \A t \in Tables : steady[v][t] \subseteq rows[t]
    /\ route[v] \in Tables =>
         \A x \in steady[v][route[v]] : x \in got[v][route[v]] \/ Before(cursor[v], x)
    /\ call[v] = "fetched" =>
         \A x \in steady[v][route[v]] : Before(cursor[v], x) =>
           x \in page[v] \/ (more[v] /\ \A k \in page[v] : Before(k, x))

\* The writers change steady rows only by taking some away, and then from the
\* table as well.
LEMMA WritesSteady ==
  ASSUME TypeInv, SteadyInv, Write
  PROVE  /\ \A v \in Clients, t \in Tables : /\ steady'[v][t] \subseteq steady[v][t]
                                             /\ steady'[v][t] \subseteq rows'[t]
         /\ UNCHANGED <<walk, call, page, more>>
<1> USE DEF TypeInv, TypeOK, SteadyInv
<1>1. ASSUME NEW c \in Confessions, InsertUnread(c)
      PROVE  \A v \in Clients, t \in Tables : /\ steady'[v][t] \subseteq steady[v][t]
                                              /\ steady'[v][t] \subseteq rows'[t]
  BY <1>1 DEF InsertUnread, Tables
<1>2. ASSUME NEW q \in Reads, DeleteUnread(q)
      PROVE  \A v \in Clients, t \in Tables : /\ steady'[v][t] \subseteq steady[v][t]
                                              /\ steady'[v][t] \subseteq rows'[t]
  BY <1>2 DEF DeleteUnread, Tables
<1>3. ASSUME NEW q \in Reads, InsertRead(q)
      PROVE  \A v \in Clients, t \in Tables : /\ steady'[v][t] \subseteq steady[v][t]
                                              /\ steady'[v][t] \subseteq rows'[t]
  <2>1. PICK t \in Times : rows' = [rows EXCEPT !["read"] = @ \cup {<<t, Of[q]>>}]
    BY <1>3 DEF InsertRead
  <2>2. steady' = steady
    BY <1>3 DEF InsertRead
  <2>3. \A u \in Tables : rows[u] \subseteq rows'[u]
    BY <2>1 DEF Tables
  <2> QED BY <2>2, <2>3
<1>4. ASSUME NEW q \in Reads, ReadFails(q)
      PROVE  \A v \in Clients, t \in Tables : /\ steady'[v][t] \subseteq steady[v][t]
                                              /\ steady'[v][t] \subseteq rows'[t]
  BY <1>4 DEF ReadFails
<1>5. UNCHANGED <<walk, call, page, more>>
  BY DEF Write, InsertUnread, DeleteUnread, InsertRead, ReadFails
<1> QED BY <1>1, <1>2, <1>3, <1>4, <1>5 DEF Write

\* SteadyInv is inductive.
LEMMA SteadyStep ==
  ASSUME TypeInv, SteadyInv, [Next]_vars
  PROVE  SteadyInv'
<1>1. CASE Write
  <2>1. UNCHANGED <<route, cursor, got, call, page, more>>
    BY <1>1, WritesSteady DEF walk
  <2>2. \A v \in Clients : route[v] \in Tables => steady'[v][route[v]] \subseteq steady[v][route[v]]
    BY <1>1, WritesSteady
  <2>3. \A v \in Clients : call[v] = "fetched" => route[v] \in Tables
    BY DEF TypeInv, CallInv
  <2> QED BY <1>1, <2>1, <2>2, <2>3, WritesSteady DEF SteadyInv
<1>2. ASSUME NEW v \in Clients, Ask(v) PROVE SteadyInv'
  <2>1. UNCHANGED <<rows, route, cursor, got, page, more>> /\ call' = [call EXCEPT ![v] = "asked"]
    BY <1>2 DEF Ask, walk, writers
  <2>2. CASE cursor[v] = Beginning
    <3>1. steady' = [steady EXCEPT ![v][route[v]] = rows[route[v]]]
      BY <1>2, <2>2 DEF Ask
    <3>2. route[v] \in Tables /\ steady \in [Clients -> [Tables -> SUBSET Keys]]
      BY <1>2 DEF Ask, TypeInv, TypeOK
    <3>3. steady'[v] = [steady[v] EXCEPT ![route[v]] = rows[route[v]]]
      BY <3>1, <3>2
    <3>4. \A u \in Clients : u # v => steady'[u] = steady[u] /\ call'[u] = call[u]
      BY <2>1, <3>1, <3>2 DEF TypeInv, TypeOK
    <3>5. \A t \in Tables : steady'[v][t] \subseteq rows[t]
      BY <3>2, <3>3 DEF SteadyInv
    <3>6. \A x \in rows[route[v]] : Before(Beginning, x)
      BY <3>2, BeginningIsFirst DEF TypeInv, TypeOK
    <3>7. steady'[v][route[v]] = rows[route[v]] /\ call'[v] = "asked"
      BY <2>1, <3>2, <3>3 DEF TypeInv, TypeOK
    <3> QED BY <2>1, <2>2, <3>4, <3>5, <3>6, <3>7 DEF SteadyInv
  <2>3. CASE cursor[v] # Beginning
    <3>1. steady' = steady
      BY <1>2, <2>3 DEF Ask
    <3>2. \A u \in Clients : call'[u] = "fetched" => call[u] = "fetched"
      BY <2>1 DEF TypeInv, TypeOK
    <3> QED BY <2>1, <3>1, <3>2 DEF SteadyInv
  <2> QED BY <2>2, <2>3
<1>3. ASSUME NEW v \in Clients, Fetch(v) PROVE SteadyInv'
  <2>1. PICK P \in SUBSET Rest(v) :
          /\ \A k \in P, l \in Rest(v) \ P : Before(k, l)
          /\ page' = [page EXCEPT ![v] = P]
          /\ \E m \in HasPageState(P, Rest(v)) : more' = [more EXCEPT ![v] = m]
    BY <1>3 DEF Fetch
  <2>2. UNCHANGED <<rows, route, cursor, got, steady>>
    BY <1>3 DEF Fetch, walk, writers
  <2>3. \A u \in Clients : u # v =>
          page'[u] = page[u] /\ more'[u] = more[u] /\ call'[u] = call[u]
    BY <1>3, <2>1 DEF Fetch, TypeInv, TypeOK
  <2>4. page'[v] = P /\ (P # Rest(v) => more'[v])
    BY <2>1 DEF HasPageState, TypeInv, TypeOK
  <2>5. route[v] \in Tables
    BY <1>3, RestType DEF Fetch
  <2>6. ASSUME NEW x \in steady[v][route[v]], Before(cursor[v], x)
        PROVE  x \in P \/ (more'[v] /\ \A k \in P : Before(k, x))
    <3>1. x \in Rest(v)
      BY <2>5, <2>6 DEF Rest, SteadyInv
    <3> QED BY <2>1, <2>4, <3>1
  <2> QED BY <2>2, <2>3, <2>4, <2>6 DEF SteadyInv
<1>4. ASSUME NEW v \in Clients, Answer(v) PROVE SteadyInv'
  <2>1. UNCHANGED <<rows, steady>> /\ call' = [call EXCEPT ![v] = "rest"]
    BY <1>4 DEF Answer, writers
  <2>2. \A u \in Clients : u # v =>
          /\ page'[u] = page[u] /\ more'[u] = more[u] /\ call'[u] = call[u]
          /\ got'[u] = got[u] /\ route'[u] = route[u] /\ cursor'[u] = cursor[u]
    BY <1>4 DEF Answer, TypeInv, TypeOK
  <2>3. call'[v] = "rest" /\ got'[v] = [got[v] EXCEPT ![route[v]] = @ \cup page[v]]
    BY <1>4 DEF Answer, TypeInv, TypeOK
  <2>4. route[v] \in Tables /\ call[v] = "fetched"
    BY <1>4 DEF Answer, TypeInv, CallInv
  <2>5. ASSUME route'[v] \in Tables, NEW x \in steady[v][route'[v]]
        PROVE  x \in got'[v][route'[v]] \/ Before(cursor'[v], x)
    <3>1. CASE more[v]
      <4>1. PICK k \in PageState(v) : cursor'[v] = k
        BY <1>4, <3>1 DEF Answer, TypeInv, TypeOK
      <4>2. route'[v] = route[v]
        BY <1>4, <3>1 DEF Answer
      <4>3. got'[v][route[v]] = got[v][route[v]] \cup page[v]
        BY <2>3, <2>4 DEF TypeInv, TypeOK
      <4>4. CASE x \in got[v][route[v]] \cup page[v]
        BY <4>2, <4>3, <4>4
      <4>5. CASE x \notin got[v][route[v]] \cup page[v]
        <5>1. Before(cursor[v], x)
          BY <2>4, <2>5, <4>2, <4>5 DEF SteadyInv
        <5>2. \A l \in page[v] : Before(l, x)
          BY <2>4, <2>5, <4>2, <4>5, <5>1 DEF SteadyInv
        <5> QED BY <4>1, <5>2, PageEnd
      <4> QED BY <4>4, <4>5
    <3>2. CASE ~more[v]
      <4>1. cursor'[v] = Beginning
        BY <1>4, <3>2 DEF Answer, TypeInv, TypeOK
      <4>2. x \in Keys
        BY <2>5 DEF TypeInv, TypeOK
      <4> QED BY <4>1, <4>2, BeginningIsFirst
    <3> QED BY <3>1, <3>2
  <2>6. ASSUME NEW u \in Clients
        PROVE  /\ \A t \in Tables : steady'[u][t] \subseteq rows'[t]
               /\ route'[u] \in Tables =>
                    \A x \in steady'[u][route'[u]] :
                      x \in got'[u][route'[u]] \/ Before(cursor'[u], x)
               /\ call'[u] = "fetched" =>
                    \A x \in steady'[u][route'[u]] : Before(cursor'[u], x) =>
                      x \in page'[u] \/ (more'[u] /\ \A k \in page'[u] : Before(k, x))
    <3>1. \A t \in Tables : steady'[u][t] \subseteq rows'[t]
      BY <2>1 DEF SteadyInv
    <3>2. CASE u = v
      BY <2>1, <2>3, <2>5, <3>1, <3>2
    <3>3. CASE u # v
      BY <2>1, <2>2, <3>1, <3>3 DEF SteadyInv
    <3> QED BY <3>2, <3>3
  <2> QED BY <2>6 DEF SteadyInv
<1>5. ASSUME NEW p \in Replicas, Kill(p) PROVE SteadyInv'
  <2>1. UNCHANGED <<rows, steady, route, cursor, got>>
    BY <1>5 DEF Kill, walk
  <2>2. \A u \in Clients : call'[u] = "fetched" =>
          call[u] = "fetched" /\ page'[u] = page[u] /\ more'[u] = more[u]
    BY <1>5 DEF Kill, TypeInv, TypeOK
  <2> QED BY <2>1, <2>2 DEF SteadyInv
<1>6. CASE UNCHANGED vars
  BY <1>6 DEF vars, walk, writers, SteadyInv
<1> QED BY <1>1, <1>2, <1>3, <1>4, <1>5, <1>6, NextIs

\* When a table is through, its steady rows are shown.
LEMMA AnswerShows ==
  ASSUME TypeInv, SteadyInv, NEW v \in Clients, Answer(v), ~more[v]
  PROVE  /\ route[v] \in Tables
         /\ steady[v][route[v]] \subseteq got'[v][route[v]]
         /\ route'[v] = IF route[v] = "unread" THEN "read" ELSE "over"
<1>1. route[v] \in Tables /\ call[v] = "fetched"
  BY DEF Answer, TypeInv, CallInv
<1>2. got'[v][route[v]] = got[v][route[v]] \cup page[v]
  BY <1>1 DEF Answer, TypeInv, TypeOK
<1>3. route'[v] = IF route[v] = "unread" THEN "read" ELSE "over"
  BY DEF Answer, TypeInv, TypeOK
<1> QED BY <1>1, <1>2, <1>3 DEF SteadyInv

\* Tables that are through stay so, and nothing shown is taken back.
LEMMA SteadyIsShownStep ==
  ASSUME TypeInv, SteadyInv, SteadyIsShown, [Next]_vars
  PROVE  SteadyIsShown'
<1>1. CASE Write
  <2>1. UNCHANGED <<route, got>>
    BY <1>1, WritesSteady DEF walk
  <2>2. \A v \in Clients, t \in Tables : steady'[v][t] \subseteq steady[v][t]
    BY <1>1, WritesSteady
  <2> QED BY <2>1, <2>2 DEF SteadyIsShown, Tables
<1>2. ASSUME NEW v \in Clients, Ask(v) PROVE SteadyIsShown'
  <2>1. UNCHANGED <<route, got>> /\ route[v] # "over"
    BY <1>2 DEF Ask, walk
  <2>2. \A u \in Clients, t \in Tables : u # v \/ t # route[v] => steady'[u][t] = steady[u][t]
    BY <1>2 DEF Ask, TypeInv, TypeOK
  <2> QED BY <2>1, <2>2 DEF SteadyIsShown, Tables, TypeInv, TypeOK
<1>3. ASSUME NEW v \in Clients, Fetch(v) PROVE SteadyIsShown'
  BY <1>3 DEF Fetch, walk, SteadyIsShown
<1>4. ASSUME NEW v \in Clients, Answer(v) PROVE SteadyIsShown'
  <2>1. steady' = steady
    BY <1>4 DEF Answer
  <2>2. \A u \in Clients : u # v => got'[u] = got[u] /\ route'[u] = route[u]
    BY <1>4 DEF Answer, TypeInv, TypeOK
  <2>3. \A t \in Tables : got[v][t] \subseteq got'[v][t]
    BY <1>4 DEF Answer, TypeInv, TypeOK
  <2>4. CASE more[v]
    <3>1. route' = route
      BY <1>4, <2>4 DEF Answer
    <3> QED BY <2>1, <2>2, <2>3, <3>1 DEF SteadyIsShown, Tables
  <2>5. CASE ~more[v]
    BY <1>4, <2>1, <2>2, <2>3, <2>5, AnswerShows DEF SteadyIsShown, Tables
  <2> QED BY <2>4, <2>5
<1>5. ASSUME NEW p \in Replicas, Kill(p) PROVE SteadyIsShown'
  BY <1>5 DEF Kill, walk, SteadyIsShown
<1>6. CASE UNCHANGED vars
  BY <1>6 DEF vars, walk, SteadyIsShown
<1> QED BY <1>1, <1>2, <1>3, <1>4, <1>5, <1>6, NextIs

\* The steady rows, from the first state on.
LEMMA SteadyAlways == Spec => [](TypeInv /\ SteadyInv /\ SteadyIsShown)
<1>1. Init => SteadyInv /\ SteadyIsShown
  BY DEF Init, SteadyInv, SteadyIsShown, Tables
<1> QED BY <1>1, TypeInit, TypeStep, SteadyStep, SteadyIsShownStep, PTL DEF Spec

\* No boundary between pages swallows a row that stayed (getUnread- and
\* getReadConfessionsByCrushId), for any page size and number of deaths.
THEOREM SteadyIsShownAlways == Spec => []SteadyIsShown
BY SteadyAlways, PTL

-----------------------------------------------------------------------------
(* What the two walks together show. *)

\* A confession that was moved, or is on its way.
Moved == Named(rows["read"]) \cup InMove

\* Unread rows have the keys saveConfessionToCassandra gives them.
KeyedInv == \A k \in rows["unread"] : k = UnreadKey(k[2])

\* Where a confession is that its client is owed: while the client walks the
\* unread table, while it walks the read one, and since it began with that.
OwedInv ==
  \A v \in Clients :
    /\ route[v] = "unread" => \A c \in owed[v] :
         \/ UnreadKey(c) \in steady[v]["unread"]
         \/ c \in Named(got[v]["unread"])
         \/ c \in Moved
    /\ route[v] = "read" =>
         owed[v] \subseteq Named(got[v]["unread"]) \cup Moved
    /\ route[v] = "read" /\ (call[v] # "rest" \/ cursor[v] # Beginning) =>
         owed[v] \subseteq Named(got[v]["unread"]) \cup Named(steady[v]["read"]) \cup moving[v]

\* A request in a move stays in it until its row is in the read table, and read
\* rows stay.
LEMMA MovedGrows ==
  ASSUME TypeInv, [Next]_vars
  PROVE  Moved \subseteq Moved'
<1> USE DEF TypeInv, TypeOK
<1>1. ASSUME NEW q \in Reads, InsertRead(q) PROVE Moved \subseteq Moved'
  <2>1. PICK t \in Times : rows' = [rows EXCEPT !["read"] = @ \cup {<<t, Of[q]>>}]
    BY <1>1 DEF InsertRead
  <2>2. rows'["read"] = rows["read"] \cup {<<t, Of[q]>>}
    BY <2>1 DEF Tables
  <2>3. Of[q] \in Named(rows["read"])'
    <3>1. <<t, Of[q]>> \in rows'["read"] /\ <<t, Of[q]>>[2] = Of[q]
      BY <2>2
    <3> QED BY <3>1 DEF Named
  <2>4. Named(rows["read"]) \subseteq Named(rows["read"])'
    BY <2>2 DEF Named
  <2>5. InMove \subseteq InMove' \cup {Of[q]}
    BY <1>1 DEF InsertRead, InMove
  <2> QED BY <2>3, <2>4, <2>5 DEF Moved
<1>2. ASSUME UNCHANGED rows["read"], \A q \in Reads : pc[q] \in {"deleted", "cut"} => pc'[q] \in {"deleted", "cut"}
      PROVE  Moved \subseteq Moved'
  <2>1. Named(rows["read"])' = Named(rows["read"])
    BY <1>2 DEF Named
  <2>2. ASSUME NEW c \in InMove PROVE c \in InMove'
    <3>1. PICK q \in Reads : pc[q] \in {"deleted", "cut"} /\ c = Of[q]
      BY <2>2 DEF InMove
    <3>2. pc'[q] \in {"deleted", "cut"}
      BY <1>2, <3>1
    <3> QED BY <3>1, <3>2 DEF InMove
  <2> QED BY <2>1, <2>2 DEF Moved
<1>3. ASSUME NEW c \in Confessions, InsertUnread(c) PROVE Moved \subseteq Moved'
  BY <1>2, <1>3 DEF InsertUnread, Tables
<1>4. ASSUME NEW q \in Reads, DeleteUnread(q) PROVE Moved \subseteq Moved'
  BY <1>2, <1>4 DEF DeleteUnread, Tables
<1>5. ASSUME NEW q \in Reads, ReadFails(q) PROVE Moved \subseteq Moved'
  BY <1>2, <1>5 DEF ReadFails
<1>6. ASSUME NEW v \in Clients, Ask(v) \/ Fetch(v) \/ Answer(v) PROVE Moved \subseteq Moved'
  BY <1>2, <1>6 DEF Ask, Fetch, Answer, writers
<1>7. ASSUME NEW p \in Replicas, Kill(p) PROVE Moved \subseteq Moved'
  BY <1>2, <1>7 DEF Kill
<1>8. CASE UNCHANGED vars
  BY <1>2, <1>8 DEF vars, writers
<1> QED BY <1>1, <1>3, <1>4, <1>5, <1>6, <1>7, <1>8, NextIs DEF Write

\* An unread row that goes has its confession moved.
LEMMA UnreadMoves ==
  ASSUME TypeInv, Write, NEW v \in Clients, NEW c \in Confessions,
         UnreadKey(c) \in steady[v]["unread"]
  PROVE  UnreadKey(c) \in steady'[v]["unread"] \/ c \in Moved'
<1> USE DEF TypeInv, TypeOK
<1>1. ASSUME NEW q \in Reads, DeleteUnread(q)
      PROVE  UnreadKey(c) \in steady'[v]["unread"] \/ c \in Moved'
  <2>1. CASE Of[q] = c
    <3>1. pc'[q] = "deleted"
      BY <1>1 DEF DeleteUnread
    <3> QED BY <2>1, <3>1 DEF Moved, InMove
  <2>2. CASE Of[q] # c
    <3>1. UnreadKey(c) # UnreadKey(Of[q])
      BY <2>2 DEF UnreadKey
    <3>2. steady'[v]["unread"] = steady[v]["unread"] \ {UnreadKey(Of[q])}
      BY <1>1 DEF DeleteUnread, Tables
    <3> QED BY <3>1, <3>2
  <2> QED BY <2>1, <2>2
<1>2. ASSUME steady' = steady PROVE UnreadKey(c) \in steady'[v]["unread"]
  BY <1>2
<1> QED BY <1>1, <1>2 DEF Write, InsertUnread, InsertRead, ReadFails

\* KeyedInv is inductive.
LEMMA KeyedStep ==
  ASSUME TypeInv, KeyedInv, [Next]_vars
  PROVE  KeyedInv'
<1> USE DEF TypeInv, TypeOK, KeyedInv
<1>1. ASSUME NEW c \in Confessions, InsertUnread(c) PROVE KeyedInv'
  <2>1. rows'["unread"] = rows["unread"] \cup {UnreadKey(c)}
    BY <1>1 DEF InsertUnread, Tables
  <2> QED BY <2>1 DEF UnreadKey
<1>2. ASSUME NEW q \in Reads, DeleteUnread(q) PROVE KeyedInv'
  BY <1>2 DEF DeleteUnread, Tables, UnreadKey
<1>3. ASSUME NEW q \in Reads, InsertRead(q) PROVE KeyedInv'
  <2>1. rows'["unread"] = rows["unread"]
    BY <1>3 DEF InsertRead, Tables
  <2> QED BY <2>1 DEF UnreadKey
<1>4. ASSUME UNCHANGED rows PROVE KeyedInv'
  BY <1>4 DEF UnreadKey
<1> QED BY <1>1, <1>2, <1>3, <1>4, NextIs
        DEF Write, ReadFails, Ask, Fetch, Answer, Kill, writers, vars

\* OwedInv is inductive.
LEMMA OwedStep ==
  ASSUME TypeInv, KeyedInv, SteadyInv, OwedInv, SteadyIsShown, SteadyIsShown', [Next]_vars
  PROVE  OwedInv'
<1>0. Moved \subseteq Moved'
  BY MovedGrows
<1> DEFINE Owing(v) ==
      /\ route[v] = "unread" => \A c \in owed[v] :
           \/ UnreadKey(c) \in steady[v]["unread"]
           \/ c \in Named(got[v]["unread"])
           \/ c \in Moved
      /\ route[v] = "read" =>
           owed[v] \subseteq Named(got[v]["unread"]) \cup Moved
      /\ route[v] = "read" /\ (call[v] # "rest" \/ cursor[v] # Beginning) =>
           owed[v] \subseteq Named(got[v]["unread"]) \cup Named(steady[v]["read"]) \cup moving[v]
\* Clients a step leaves alone.
<1>1. ASSUME NEW u \in Clients, route'[u] = route[u], owed'[u] = owed[u], got'[u] = got[u],
             steady'[u] = steady[u], moving'[u] = moving[u], cursor'[u] = cursor[u],
             call'[u] = call[u] \/ call'[u] = "rest" \/ call[u] # "rest"
      PROVE  Owing(u)'
  BY <1>0, <1>1 DEF OwedInv, UnreadKey, Named
<1>2. CASE Write
  <2> SUFFICES ASSUME NEW u \in Clients PROVE Owing(u)'
    BY DEF OwedInv
  <2>1. UNCHANGED <<route, cursor, got, call, owed, moving>>
    BY <1>2 DEF Write, InsertUnread, DeleteUnread, InsertRead, ReadFails, walk
  <2>2. steady'[u]["read"] = steady[u]["read"]
    BY <1>2 DEF Write, InsertUnread, DeleteUnread, InsertRead, ReadFails, TypeInv, TypeOK, Tables
  <2>3. \A c \in owed[u] : UnreadKey(c) \in steady[u]["unread"] =>
          UnreadKey(c) \in steady'[u]["unread"] \/ c \in Moved'
    BY <1>2, UnreadMoves DEF TypeInv, TypeOK
  <2>4. route'[u] = "unread" => \A c \in owed'[u] :
           \/ UnreadKey(c)' \in steady'[u]["unread"]
           \/ c \in Named(got[u]["unread"])'
           \/ c \in Moved'
    BY <1>0, <2>1, <2>3 DEF OwedInv, UnreadKey, Named
  <2>5. route'[u] = "read" => owed'[u] \subseteq Named(got[u]["unread"])' \cup Moved'
    BY <1>0, <2>1 DEF OwedInv, Named
  <2>6. route'[u] = "read" /\ (call'[u] # "rest" \/ cursor'[u] # Beginning) =>
          owed'[u] \subseteq Named(got[u]["unread"])' \cup Named(steady[u]["read"])' \cup moving'[u]
    BY <2>1, <2>2 DEF OwedInv, Named
  <2> QED BY <2>4, <2>5, <2>6
<1>3. ASSUME NEW v \in Clients, Ask(v) PROVE OwedInv'
  <2> SUFFICES ASSUME NEW u \in Clients PROVE Owing(u)'
    BY DEF OwedInv
  <2>1. UNCHANGED <<rows, pc, route, cursor, got>> /\ route[v] # "over" /\ call[v] = "rest"
    BY <1>3 DEF Ask, walk, writers
  <2>2. CASE u # v
    <3>1. /\ owed'[u] = owed[u] /\ steady'[u] = steady[u] /\ moving'[u] = moving[u]
          /\ call'[u] = call[u]
      BY <1>3, <2>2 DEF Ask, TypeInv, TypeOK
    <3> QED BY <1>1, <2>1, <3>1
  <2>3. CASE u = v /\ cursor[v] # Beginning
    <3>1. owed' = owed /\ steady' = steady /\ moving' = moving
      BY <1>3, <2>3 DEF Ask
    <3> QED BY <1>0, <2>1, <2>3, <3>1 DEF OwedInv, UnreadKey, Named
  <2>4. CASE u = v /\ cursor[v] = Beginning /\ route[v] = "unread"
    <3>1. owed'[v] = Named(rows["unread"] \cup rows["read"])
      BY <1>3, <2>4 DEF Ask, TypeInv, TypeOK
    <3>2. steady'[v]["unread"] = rows["unread"]
      BY <1>3, <2>4 DEF Ask, TypeInv, TypeOK, Tables
    <3>3. ASSUME NEW c \in owed'[v] PROVE UnreadKey(c) \in steady'[v]["unread"] \/ c \in Moved'
      <4>1. PICK k \in rows["unread"] \cup rows["read"] : c = k[2]
        BY <3>1, <3>3 DEF Named
      <4>2. CASE k \in rows["unread"]
        BY <3>2, <4>1, <4>2 DEF KeyedInv
      <4>3. CASE k \in rows["read"]
        BY <1>0, <4>1, <4>3 DEF Moved, Named
      <4> QED BY <4>1, <4>2, <4>3
    <3> QED BY <2>1, <2>4, <3>3 DEF UnreadKey
  <2>5. CASE u = v /\ cursor[v] = Beginning /\ route[v] = "read"
    <3>1. owed' = owed /\ moving'[v] = InMove
      BY <1>3, <2>5 DEF Ask, TypeInv, TypeOK
    <3>2. steady'[v]["read"] = rows["read"]
      BY <1>3, <2>5 DEF Ask, TypeInv, TypeOK, Tables
    <3>3. owed[v] \subseteq Named(got[v]["unread"]) \cup Moved
      BY <2>5 DEF OwedInv
    <3>4. owed'[v] \subseteq Named(got[v]["unread"])' \cup Moved'
      BY <1>0, <2>1, <3>1, <3>3 DEF Named
    <3>5. owed'[v] \subseteq Named(got[v]["unread"])' \cup Named(steady[v]["read"])' \cup moving'[v]
      BY <2>1, <3>1, <3>2, <3>3 DEF Moved, Named
    <3> QED BY <2>1, <2>5, <3>4, <3>5
  <2> QED BY <2>1, <2>2, <2>3, <2>4, <2>5 DEF TypeInv, TypeOK, Tables
<1>4. ASSUME NEW v \in Clients, Fetch(v) PROVE OwedInv'
  <2> SUFFICES ASSUME NEW u \in Clients PROVE Owing(u)'
    BY DEF OwedInv
  <2>1. UNCHANGED <<route, cursor, got, owed, steady, moving>>
    BY <1>4 DEF Fetch, walk
  <2>2. call'[u] = call[u] \/ call[u] # "rest"
    BY <1>4 DEF Fetch, TypeInv, TypeOK
  <2> QED BY <1>1, <2>1, <2>2
<1>5. ASSUME NEW v \in Clients, Answer(v) PROVE OwedInv'
  <2> SUFFICES ASSUME NEW u \in Clients PROVE Owing(u)'
    BY DEF OwedInv
  <2>1. UNCHANGED <<owed, steady, moving>> /\ call[v] = "fetched"
    BY <1>5 DEF Answer
  <2>2. CASE u # v
    <3>1. /\ got'[u] = got[u] /\ route'[u] = route[u] /\ cursor'[u] = cursor[u]
          /\ call'[u] = call[u]
      BY <1>5, <2>2 DEF Answer, TypeInv, TypeOK
    <3> QED BY <1>1, <2>1, <3>1
  <2>3. got[v]["unread"] \subseteq got'[v]["unread"] /\ call'[v] = "rest"
    BY <1>5 DEF Answer, TypeInv, TypeOK, Tables
  <2>4. Named(got[v]["unread"]) \subseteq Named(got[v]["unread"])'
    BY <2>3 DEF Named
  <2>5. CASE u = v /\ more[v]
    <3>1. route'[v] = route[v]
      BY <1>5, <2>5 DEF Answer
    <3> QED BY <1>0, <2>1, <2>4, <2>5, <3>1 DEF OwedInv, UnreadKey, Named
  <2>6. CASE u = v /\ ~more[v]
    <3>1. /\ route'[v] = IF route[v] = "unread" THEN "read" ELSE "over"
          /\ cursor'[v] = Beginning
      BY <1>5, <2>6 DEF Answer, TypeInv, TypeOK
    <3>2. ASSUME route[v] = "unread", NEW c \in owed[v]
          PROVE  c \in Named(got[v]["unread"])' \cup Moved'
      <4>1. CASE UnreadKey(c) \in steady[v]["unread"]
        <5>1. UnreadKey(c) \in got'[v]["unread"]
          BY <2>1, <3>1, <3>2, <4>1 DEF SteadyIsShown
        <5>2. UnreadKey(c)[2] = c
          BY DEF UnreadKey
        <5> QED BY <5>1, <5>2 DEF Named
      <4>2. CASE c \in Named(got[v]["unread"])
        BY <2>4, <4>2
      <4>3. CASE c \in Moved
        BY <1>0, <4>3
      <4> QED BY <3>2, <4>1, <4>2, <4>3 DEF OwedInv
    <3> QED BY <2>1, <2>3, <2>6, <3>1, <3>2
  <2> QED BY <2>2, <2>5, <2>6
<1>6. ASSUME NEW p \in Replicas, Kill(p) PROVE OwedInv'
  <2> SUFFICES ASSUME NEW u \in Clients PROVE Owing(u)'
    BY DEF OwedInv
  <2>1. UNCHANGED <<route, cursor, got, owed, steady, moving>>
    BY <1>6 DEF Kill, walk
  <2>2. call'[u] = call[u] \/ call'[u] = "rest"
    BY <1>6 DEF Kill, TypeInv, TypeOK
  <2> QED BY <1>1, <2>1, <2>2
<1>7. CASE UNCHANGED vars
  <2> SUFFICES ASSUME NEW u \in Clients PROVE Owing(u)'
    BY DEF OwedInv
  <2> QED BY <1>1, <1>7 DEF vars, walk
<1> QED BY <1>2, <1>3, <1>4, <1>5, <1>6, <1>7, NextIs

\* What a client that is through was shown, it keeps.
LEMMA ShownStep ==
  ASSUME TypeInv, SteadyInv, OwedInv, SteadyIsShown', ShownOrMoving, [Next]_vars
  PROVE  ShownOrMoving'
<1>1. ASSUME UNCHANGED <<route, got, owed, moving>> PROVE ShownOrMoving'
  BY <1>1 DEF ShownOrMoving, Named
<1>2. CASE Write
  BY <1>1, <1>2 DEF Write, InsertUnread, DeleteUnread, InsertRead, ReadFails, walk
<1>3. ASSUME NEW v \in Clients, Ask(v) PROVE ShownOrMoving'
  <2>1. UNCHANGED <<route, got>> /\ route[v] # "over"
    BY <1>3 DEF Ask, walk
  <2>2. \A u \in Clients : u # v => owed'[u] = owed[u] /\ moving'[u] = moving[u]
    BY <1>3 DEF Ask, TypeInv, TypeOK
  <2> QED BY <2>1, <2>2 DEF ShownOrMoving, Named
<1>4. ASSUME NEW v \in Clients, Fetch(v) PROVE ShownOrMoving'
  BY <1>1, <1>4 DEF Fetch, walk
<1>5. ASSUME NEW v \in Clients, Answer(v) PROVE ShownOrMoving'
  <2>1. UNCHANGED <<owed, moving, steady>> /\ call[v] = "fetched"
    BY <1>5 DEF Answer
  <2>2. \A u \in Clients : u # v => got'[u] = got[u] /\ route'[u] = route[u]
    BY <1>5 DEF Answer, TypeInv, TypeOK
  <2>3. ASSUME route'[v] = "over"
        PROVE  owed[v] \subseteq Named(got[v]["unread"] \cup got[v]["read"])' \cup moving[v]
    <3>1. route[v] = "read"
      <4>1. route[v] \in Tables
        BY <1>5 DEF Answer, TypeInv, CallInv
      <4>2. route'[v] = route[v] \/ route'[v] = IF route[v] = "unread" THEN "read" ELSE "over"
        BY <1>5 DEF Answer, TypeInv, TypeOK
      <4> QED BY <2>3, <4>1, <4>2 DEF Tables
    <3>2. owed[v] \subseteq Named(got[v]["unread"]) \cup Named(steady[v]["read"]) \cup moving[v]
      BY <2>1, <3>1 DEF OwedInv
    <3>3. steady[v]["read"] \subseteq got'[v]["read"]
      BY <2>1, <2>3 DEF SteadyIsShown
    <3>4. got[v]["unread"] \subseteq got'[v]["unread"]
      BY <1>5 DEF Answer, TypeInv, TypeOK, Tables
    <3> QED BY <3>2, <3>3, <3>4 DEF Named
  <2> SUFFICES ASSUME NEW u \in Clients, route'[u] = "over"
               PROVE  owed'[u] \subseteq Named(got[u]["unread"] \cup got[u]["read"])' \cup moving'[u]
    BY DEF ShownOrMoving
  <2>4. CASE u = v
    BY <2>1, <2>3, <2>4
  <2>5. CASE u # v
    <3>1. Named(got[u]["unread"] \cup got[u]["read"])' = Named(got[u]["unread"] \cup got[u]["read"])
      BY <2>2, <2>5 DEF Named
    <3> QED BY <2>1, <2>2, <2>5, <3>1 DEF ShownOrMoving
  <2> QED BY <2>4, <2>5
<1>6. ASSUME NEW p \in Replicas, Kill(p) PROVE ShownOrMoving'
  BY <1>1, <1>6 DEF Kill, walk
<1>7. CASE UNCHANGED vars
  BY <1>1, <1>7 DEF vars, walk
<1> QED BY <1>2, <1>3, <1>4, <1>5, <1>6, <1>7, NextIs

\* A walk of the unread table and then the read one shows every confession its
\* client had when it began, but for those in a move as it turned to the second
\* (readConfession's DELETE and INSERT).
THEOREM ShownOrMovingAlways == Spec => []ShownOrMoving
<1>1. Init => SteadyInv /\ SteadyIsShown /\ KeyedInv /\ OwedInv /\ ShownOrMoving
  BY DEF Init, SteadyInv, SteadyIsShown, KeyedInv, OwedInv, ShownOrMoving, Tables
<1> QED BY <1>1, TypeInit, TypeStep, SteadyStep, SteadyIsShownStep, KeyedStep, OwedStep,
           ShownStep, PTL DEF Spec
=============================================================================
