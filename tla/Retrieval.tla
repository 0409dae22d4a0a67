------------------------------ MODULE Retrieval ------------------------------
(***************************************************************************)
(* How a crush gets at its confessions when it was not there to be told:   *)
(* the two paged routes over the unread and the read table, while senders  *)
(* insert and read requests move rows from the one to the other.           *)
(*                                                                         *)
(* The web server keeps nothing between two pages: `page_state` travels in *)
(* the client's headers, so the next page may be asked of any replica, at  *)
(* any time.  The client here walks the unread table to its end and then   *)
(* the read one.  The moves are those of readConfession: DELETE from       *)
(* unread, then INSERT into read, with nothing that ties the two together. *)
(*                                                                         *)
(* The three routes that need `req.id` (two chat streams and the offline   *)
(* queue) are here as what they do to everybody else: the controller is    *)
(* not behind AuthMiddleware, and the call ends the process.               *)
(***************************************************************************)
EXTENDS Naturals, FiniteSets

CONSTANTS
  Confessions,  \* confession ids, in the order of their TimeUuids
  Times,        \* instants
  SentAt,       \* [Confessions -> Times]: sending_time
  Reads,        \* requests to read a confession
  Of, Place,    \* the confession each is for, the replica that runs it
  Clients,      \* crushes that walk the two tables
  Replicas,     \* web-server processes
  PageSize,     \* fetchSize: 50 in the code
  MaxFaults     \* bound on what ends a process or fails a statement

ASSUME OrderAssumption ==
  /\ Confessions \subseteq Nat /\ Times \subseteq Nat \ {0}
  /\ SentAt \in [Confessions -> Times]
ASSUME ReadsAssumption ==
  Of \in [Reads -> Confessions] /\ Place \in [Reads -> Replicas]
ASSUME BoundsAssumption == PageSize \in Nat \ {0} /\ MaxFaults \in Nat

VARIABLES
  rows,       \* the crush's rows, by table: keys of time and confession
  sent,       \* confessions whose unread row was inserted
  pc,         \* where each read request is
  route,      \* the table each client walks, or "over"
  call,       \* its request for a page: "rest", "asked", "fetched"
  server,     \* the replica that has it
  cursor,     \* its page_state
  page, more, \* the page on its way to it; is there a page_state with it?
  got,        \* rows it was shown, by table
  steady,     \* history: rows there since it began with a table
  owed,       \* history: confessions in one of the tables when it began
  moving,     \* history: confessions in a move when it turned to "read"
  faults      \* faults so far

writers == <<rows, sent, pc>>
walk    == <<route, cursor, got>>
vars == <<writers, walk, call, server, page, more, steady, owed, moving, faults>>

Tables    == {"unread", "read"}
Keys      == Times \X Confessions
Beginning == <<0, 0>>

TypeOK ==
  /\ rows   \in [Tables -> SUBSET Keys]
  /\ sent   \subseteq Confessions
  /\ pc     \in [Reads -> {"none", "deleted", "done", "cut"}]
  /\ route  \in [Clients -> Tables \cup {"over"}]
  /\ call   \in [Clients -> {"rest", "asked", "fetched"}]
  /\ server \in [Clients -> Replicas]
  /\ cursor \in [Clients -> Keys \cup {Beginning}]
  /\ page   \in [Clients -> SUBSET Keys]
  /\ more   \in [Clients -> BOOLEAN]
  /\ got    \in [Clients -> [Tables -> SUBSET Keys]]
  /\ steady \in [Clients -> [Tables -> SUBSET Keys]]
  /\ owed   \in [Clients -> SUBSET Confessions]
  /\ moving \in [Clients -> SUBSET Confessions]
  /\ faults \in 0..MaxFaults

Init ==
  /\ rows   = [t \in Tables |-> {}]
  /\ sent   = {}
  /\ pc     = [q \in Reads |-> "none"]
  /\ route  = [v \in Clients |-> "unread"]
  /\ call   = [v \in Clients |-> "rest"]
  /\ server \in [Clients -> Replicas]
  /\ cursor = [v \in Clients |-> Beginning]
  /\ page   = [v \in Clients |-> {}]
  /\ more   = [v \in Clients |-> FALSE]
  /\ got    = [v \in Clients |-> [t \in Tables |-> {}]]
  /\ steady = [v \in Clients |-> [t \in Tables |-> {}]]
  /\ owed   = [v \in Clients |-> {}]
  /\ moving = [v \in Clients |-> {}]
  /\ faults = 0

\* Clustering order of both tables: by time, then by confession id.
Before(a, b) == a[1] < b[1] \/ (a[1] = b[1] /\ a[2] < b[2])

\* Mutant: the key columns are swapped.
UnreadKeySwapped(c) == <<c, SentAt[c]>>
UnreadKey(c) == <<SentAt[c], c>>
Named(S)     == {k[2] : k \in S}

-----------------------------------------------------------------------------
(* The writers: the statements of ConfessionService that touch these tables. *)

\* saveConfessionToCassandra, its second INSERT.
InsertUnread(c) ==
  /\ c \notin sent
  /\ sent' = sent \cup {c}
  /\ rows' = [rows EXCEPT !["unread"] = @ \cup {UnreadKey(c)}]
  /\ UNCHANGED <<pc, walk, call, server, page, more, steady, owed, moving, faults>>

\* Mutant: the read row is never inserted.
DeleteUnreadForgets(q) ==
  /\ pc[q] = "none"
  /\ pc' = [pc EXCEPT ![q] = "done"]
  /\ LET k == UnreadKey(Of[q])
     IN  /\ rows'   = [rows EXCEPT !["unread"] = @ \ {k}]
         /\ steady' = [v \in Clients |-> [steady[v] EXCEPT !["unread"] = @ \ {k}]]
  /\ UNCHANGED <<sent, walk, call, server, page, more, owed, moving, faults>>

\* readConfession, its DELETE.  The crush may have heard of a confession by a
\* push, before its row is there.
DeleteUnread(q) ==
  /\ pc[q] = "none"
  /\ pc' = [pc EXCEPT ![q] = "deleted"]
  /\ LET k == UnreadKey(Of[q])
     IN  /\ rows'   = [rows EXCEPT !["unread"] = @ \ {k}]
         /\ steady' = [v \in Clients |-> [steady[v] EXCEPT !["unread"] = @ \ {k}]]
  /\ UNCHANGED <<sent, walk, call, server, page, more, owed, moving, faults>>

\* readConfession, its INSERT, with the reading time the client sent.
InsertRead(q) ==
  /\ pc[q] = "deleted"
  /\ pc' = [pc EXCEPT ![q] = "done"]
  /\ \E t \in Times : rows' = [rows EXCEPT !["read"] = @ \cup {<<t, Of[q]>>}]
  /\ UNCHANGED <<sent, walk, call, server, page, more, steady, owed, moving, faults>>

-----------------------------------------------------------------------------
(* The two routes, one page at a time. *)

InMove == {Of[q] : q \in {q \in Reads : pc[q] \in {"deleted", "cut"}}}

\* The client asks some replica for the page at its page_state.  What it is
\* owed is noted as it begins with a table.
Ask(v) ==
  /\ call[v] = "rest" /\ route[v] # "over"
  /\ call' = [call EXCEPT ![v] = "asked"]
  /\ \E p \in Replicas : server' = [server EXCEPT ![v] = p]
  /\ IF cursor[v] = Beginning
     THEN /\ steady' = [steady EXCEPT ![v][route[v]] = rows[route[v]]]
          /\ owed'   = IF route[v] = "read" THEN owed
                       ELSE [owed EXCEPT ![v] = Named(rows["unread"] \cup rows["read"])]
          /\ moving' = IF route[v] = "unread" THEN moving
                       ELSE [moving EXCEPT ![v] = InMove]
     ELSE UNCHANGED <<steady, owed, moving>>
  /\ UNCHANGED <<writers, walk, page, more, faults>>

\* Mutant: the page begins with the row the last one ended with.
RestFromCursor(v) ==
  {k \in rows[route[v]] : k = cursor[v] \/ Before(cursor[v], k)}

\* The rows a page_state still has to bring.
Rest(v) == {k \in rows[route[v]] : Before(cursor[v], k)}

\* Mutant: no page_state in the answer.
HasPageStateNever(P, R) == {FALSE}
\* A page of all the rest may still carry a page_state, if it is full.
HasPageState(P, R) ==
  {m \in BOOLEAN : (P # R => m) /\ (m => Cardinality(P) = PageSize)}

\* Cassandra's answer: the first rows of the rest, PageSize of them while there
\* are as many.
Fetch(v) ==
  /\ call[v] = "asked"
  /\ call' = [call EXCEPT ![v] = "fetched"]
  /\ \E P \in SUBSET Rest(v) :
       /\ \A k \in P, l \in Rest(v) \ P : Before(k, l)
       /\ Cardinality(P) = PageSize \/ (P = Rest(v) /\ Cardinality(P) < PageSize)
       /\ page' = [page EXCEPT ![v] = P]
       /\ \E m \in HasPageState(P, Rest(v)) : more' = [more EXCEPT ![v] = m]
  /\ UNCHANGED <<writers, walk, server, steady, owed, moving, faults>>

\* Mutant: the request's own page_state is sent back.
PageStateOld(v) == {cursor[v]}
\* A page_state says which row was the last of its page.
PageState(v) == {k \in page[v] : \A l \in page[v] : l = k \/ Before(l, k)}

\* `res.json`: the page and its page_state.  Without one the client is through
\* with the table.
Answer(v) ==
  /\ call[v] = "fetched"
  /\ call' = [call EXCEPT ![v] = "rest"]
  /\ page' = [page EXCEPT ![v] = {}]
  /\ more' = [more EXCEPT ![v] = FALSE]
  /\ got'  = [got EXCEPT ![v][route[v]] = @ \cup page[v]]
  /\ IF more[v]
     THEN /\ \E k \in PageState(v) : cursor' = [cursor EXCEPT ![v] = k]
          /\ UNCHANGED route
     ELSE /\ cursor' = [cursor EXCEPT ![v] = Beginning]
          /\ route'  = [route EXCEPT ![v] = IF @ = "unread" THEN "read" ELSE "over"]
  /\ UNCHANGED <<writers, server, steady, owed, moving, faults>>

-----------------------------------------------------------------------------
(* What ends a process, and with it all it was doing. *)

Fault == faults < MaxFaults /\ faults' = faults + 1

\* A client whose call is cut may ask again: its page_state is its own.
Kill(p) ==
  /\ call' = [v \in Clients |-> IF server[v] = p THEN "rest" ELSE call[v]]
  /\ page' = [v \in Clients |-> IF server[v] = p THEN {} ELSE page[v]]
  /\ more' = [v \in Clients |-> IF server[v] = p THEN FALSE ELSE more[v]]
  /\ pc'   = [q \in Reads |-> IF Place[q] = p /\ pc[q] = "deleted" THEN "cut" ELSE pc[q]]
  /\ UNCHANGED <<rows, sent, walk, server, steady, owed, moving>>

\* Cassandra fails a page: the callback of eachRow throws, and nobody catches.
PageFails(v) == Fault /\ call[v] = "asked" /\ Kill(server[v])

\* retrieveChatsForSender, retrieveChatsForCrush: `req.id` is undefined, the
\* query is refused, and the stream's `error` has no listener.
RetrieveChats(p) == Fault /\ Kill(p)

\* retrieveDataForOfflineUser: the stream of the queue service fails, without a
\* listener, or brings a message, an object that `res` refuses to write.
RetrieveOffline(p) == Fault /\ Kill(p)

\* An awaited statement of a read request fails after its DELETE.
ReadFails(q) ==
  /\ Fault /\ pc[q] = "deleted"
  /\ pc' = [pc EXCEPT ![q] = "cut"]
  /\ UNCHANGED <<rows, sent, walk, call, server, page, more, steady, owed, moving>>

-----------------------------------------------------------------------------

Write == \/ \E c \in Confessions : InsertUnread(c)
         \/ \E q \in Reads : DeleteUnread(q) \/ InsertRead(q) \/ ReadFails(q)

Next == \/ Write
        \/ \E v \in Clients : Ask(v) \/ Fetch(v) \/ Answer(v) \/ PageFails(v)
        \/ \E p \in Replicas : RetrieveChats(p) \/ RetrieveOffline(p)

Spec == Init /\ [][Next]_vars

\* Drivers answer or fail, and a client that lacks a page asks for it.
FairSpec == Spec /\ \A v \in Clients : WF_vars(Ask(v) \/ Fetch(v) \/ Answer(v))

-----------------------------------------------------------------------------
\* A page brings rows of its table that come after everything the client was
\* shown of it, so no row twice, whatever is inserted, moved or lost meanwhile
\* and whichever replica serves the page (page_state in getUnread- and
\* getReadConfessionsByCrushId).
PagesInOrder ==
  \A v \in Clients : \A k \in page[v] : \A g \in got[v][route[v]] : Before(g, k)

\* A row that was in a table from the first page asked to the last one shown is
\* shown: no boundary between pages swallows it.
SteadyIsShown ==
  \A v \in Clients : /\ route[v] # "unread" => steady[v]["unread"] \subseteq got[v]["unread"]
                     /\ route[v] = "over"   => steady[v]["read"] \subseteq got[v]["read"]

\* A client that walks the unread table and then the read one is shown every
\* confession it had when it began, but for those whose read request was between
\* its DELETE and its INSERT, or cut there, as it turned from one to the other.
ShownOrMoving ==
  \A v \in Clients : route[v] = "over" =>
    owed[v] \subseteq Named(got[v]["unread"] \cup got[v]["read"]) \cup moving[v]

\* Under FairSpec: a client that keeps asking comes to the end of both tables,
\* however often its server dies (MaxFaults times) and its rows move.
WalkEnds == \A v \in Clients : route[v] = "unread" ~> route[v] = "over"
=============================================================================
