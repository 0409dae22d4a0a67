---------------------------- MODULE QueueService ----------------------------
(***************************************************************************)
(* The Go queue service: a gRPC server over a Badger store that keeps what *)
(* the web server could not deliver, and streams it back when asked.       *)
(*                                                                         *)
(* createBadgerEntry copies the user id into a buffer and then writes the  *)
(* 8-byte microsecond clock over its FIRST bytes, so a key is              *)
(*    clock . id from its ninth byte on . eight zero bytes                 *)
(* and Badger's byte order is the order of the clock, whoever the user.    *)
(*                                                                         *)
(* New fills its own receiver with the store but registers a fresh         *)
(* CoreServer.  The server main.go starts is the "fresh" one, whose store   *)
(* is nil; the "filled" one is what the methods were written for, and where *)
(* the logic of the store can be checked.                                  *)
(***************************************************************************)
EXTENDS Naturals, Sequences, Functions

CONSTANTS
  Users,        \* user ids
  Prefix, Rest, \* their first eight bytes, and the others, as numbers
  Messages,     \* messages to save, one gRPC call each
  To,           \* [Messages -> Users]: the addressee
  Readers,      \* GetMessages calls
  Registered,   \* which CoreServers gRPC may serve: "fresh", "filled"
  SharedTick,   \* may two saves fall in one microsecond?
  MaxClock,     \* bound on the clock
  MaxCrashes    \* bound on crashes of the service

ASSUME UsersAssumption ==
  /\ Prefix \in [Users -> Nat] /\ Rest \in [Users -> Nat]
  /\ To \in [Messages -> Users]
ASSUME BoundsAssumption ==
  /\ Registered \subseteq {"fresh", "filled"} /\ SharedTick \in BOOLEAN
  /\ MaxClock \in Nat /\ MaxCrashes \in Nat
\* An id is text: its first byte is '0' or above.  The first byte of the clock
\* stays zero for the next two thousand years.
ASSUME TextAboveClock == \A u \in Users : Prefix[u] > MaxClock

VARIABLES
  served,    \* the CoreServer gRPC serves
  up,        \* is the process running?
  clock,     \* time.Now() in microseconds
  store,     \* the Badger entries: records of a key and a value
  call,      \* the SaveMessage call of each message
  stream,    \* the GetMessages call of each reader
  asker,     \* its user
  todo,      \* entries its iterator has still to visit
  got,       \* values it was sent, in order
  owed,      \* history: the user's messages stored when it opened
  savedAt,   \* history: the clock as each message was saved
  crashes    \* crashes so far

vars == <<served, up, clock, store, call, stream, asker, todo, got, owed, savedAt,
          crashes>>

Entries == [key : (0..MaxClock) \X Range(Rest), val : Messages]

TypeOK ==
  /\ served \in Registered
  /\ up \in BOOLEAN
  /\ clock \in 0..MaxClock
  /\ store \subseteq Entries
  /\ call \in [Messages -> {"none", "acked", "error"}]
  /\ stream \in [Readers -> {"none", "open", "closed", "broken"}]
  /\ asker \in [Readers -> Users]
  /\ todo \in [Readers -> SUBSET Entries]
  /\ got \in [Readers -> Seq(Messages)]
  /\ owed \in [Readers -> SUBSET Messages]
  /\ savedAt \in [Messages -> 0..MaxClock]
  /\ crashes \in 0..MaxCrashes

Init ==
  /\ served \in Registered
  /\ up = TRUE
  /\ clock = 0
  /\ store = {}
  /\ call = [m \in Messages |-> "none"]
  /\ stream = [r \in Readers |-> "none"]
  /\ asker \in [Readers -> Users]
  /\ todo = [r \in Readers |-> {}]
  /\ got = [r \in Readers |-> << >>]
  /\ owed = [r \in Readers |-> {}]
  /\ savedAt = [m \in Messages |-> 0]
  /\ crashes = 0

\* Mutants: the clock written after the id, as the buffer's length intends; no
\* clock at all; a clock of a coarser unit, two ticks to each of its own.
KeyIdFirst(u, now) == <<Prefix[u], Rest[u]>>
KeyNoClock(u, now) == <<0, Rest[u]>>
KeyCoarse(u, now) == <<now \div 2, Rest[u]>>
\* The key createBadgerEntry builds; the trailing zeros never decide an order.
Key(u, now) == <<now, Rest[u]>>
Id(u) == <<Prefix[u], Rest[u]>>

\* Byte order of keys and ids.
Before(a, b) == a[1] < b[1] \/ (a[1] = b[1] /\ a[2] < b[2])

\* SetEntry: a blind write, which replaces an entry of the same key.
Put(k, m) == {e \in store : e.key # k} \cup {[key |-> k, val |-> m]}

\* A nil store: `db.View` and `db.Update` dereference it, the panic ends the
\* process, and every open stream with it.
Die ==
  /\ up' = FALSE
  /\ stream' = [r \in Readers |-> IF stream[r] = "open" THEN "broken" ELSE stream[r]]

\* SaveMessage, one transaction.
SaveMessage(m) ==
  /\ up /\ served = "filled" /\ call[m] = "none"
  /\ SharedTick \/ \A e \in store : e.key[1] # clock
  /\ store' = Put(Key(To[m], clock), m)
  /\ call' = [call EXCEPT ![m] = "acked"]
  /\ savedAt' = [savedAt EXCEPT ![m] = clock]
  /\ UNCHANGED <<served, up, clock, stream, asker, todo, got, owed, crashes>>

\* The transaction fails, or there is no id to make a key of.
SaveErrors(m) ==
  /\ up /\ served = "filled" /\ call[m] = "none"
  /\ call' = [call EXCEPT ![m] = "error"]
  /\ UNCHANGED <<served, up, clock, store, stream, asker, todo, got, owed, savedAt, crashes>>

SaveMessageNil(m) ==
  /\ up /\ served = "fresh" /\ call[m] = "none"
  /\ Die
  /\ call' = [call EXCEPT ![m] = "error"]
  /\ UNCHANGED <<served, clock, store, asker, todo, got, owed, savedAt, crashes>>

\* The web server's client finds nobody listening.
SaveRefused(m) ==
  /\ ~up /\ call[m] = "none"
  /\ call' = [call EXCEPT ![m] = "error"]
  /\ UNCHANGED <<served, up, clock, store, stream, asker, todo, got, owed, savedAt, crashes>>

\* Mutant: the iterator goes forward from the id.
VisitedForward(u) == {e \in store : ~Before(e.key, Id(u))}
\* `Reverse`, `Seek(id)` and `Valid()`: from the last key at or below the id
\* down to the first, with no test that a key is the user's.
Visited(u) == {e \in store : Before(e.key, Id(u))}

Own(u) == {e \in store : To[e.val] = u}

\* GetMessages opens a read transaction: later saves are not in its snapshot.
GetMessages(r) ==
  /\ up /\ served = "filled" /\ stream[r] = "none"
  /\ stream' = [stream EXCEPT ![r] = "open"]
  /\ todo' = [todo EXCEPT ![r] = Visited(asker[r])]
  /\ owed' = [owed EXCEPT ![r] = {e.val : e \in Own(asker[r])}]
  /\ UNCHANGED <<served, up, clock, store, call, asker, got, savedAt, crashes>>

GetMessagesNil(r) ==
  /\ up /\ served = "fresh" /\ stream[r] = "none"
  /\ up' = FALSE
  /\ stream' = [stream EXCEPT ![r] = "broken"]
  /\ UNCHANGED <<served, clock, store, call, asker, todo, got, owed, savedAt, crashes>>

\* The entry a reverse iterator visits next.
NextIn(S, e) == \A f \in S : f = e \/ Before(f.key, e.key)

\* One `s.Send`.
Send(r) ==
  /\ up /\ stream[r] = "open"
  /\ \E e \in todo[r] :
       /\ NextIn(todo[r], e)
       /\ got'  = [got EXCEPT ![r] = Append(@, e.val)]
       /\ todo' = [todo EXCEPT ![r] = @ \ {e}]
  /\ UNCHANGED <<served, up, clock, store, call, stream, asker, owed, savedAt, crashes>>

\* The iterator is no longer valid: the call returns.  Nothing is deleted.
Return(r) ==
  /\ up /\ stream[r] = "open" /\ todo[r] = {}
  /\ stream' = [stream EXCEPT ![r] = "closed"]
  /\ UNCHANGED <<served, up, clock, store, call, asker, todo, got, owed, savedAt, crashes>>

\* Mutant: its error is dropped, and the call returns as if it were done.
SendFailsQuietly(r) ==
  /\ up /\ stream[r] = "open"
  /\ stream' = [stream EXCEPT ![r] = "closed"]
  /\ UNCHANGED <<served, up, clock, store, call, asker, todo, got, owed, savedAt, crashes>>

\* `s.Send` fails: the client is gone.
SendFails(r) ==
  /\ up /\ stream[r] = "open"
  /\ stream' = [stream EXCEPT ![r] = "broken"]
  /\ UNCHANGED <<served, up, clock, store, call, asker, todo, got, owed, savedAt, crashes>>

Tick ==
  /\ clock < MaxClock
  /\ clock' = clock + 1
  /\ UNCHANGED <<served, up, store, call, stream, asker, todo, got, owed, savedAt, crashes>>

Crash ==
  /\ up /\ crashes < MaxCrashes
  /\ crashes' = crashes + 1
  /\ Die
  /\ UNCHANGED <<served, clock, store, call, asker, todo, got, owed, savedAt>>

\* New: os.MkdirTemp gives every start a directory, and a store, of its own.
New ==
  /\ ~up
  /\ up' = TRUE
  /\ store' = {}
  /\ UNCHANGED <<served, clock, call, stream, asker, todo, got, owed, savedAt, crashes>>

Next ==
  \/ \E m \in Messages : \/ SaveMessage(m) \/ SaveErrors(m)
                         \/ SaveMessageNil(m) \/ SaveRefused(m)
  \/ \E r \in Readers : \/ GetMessages(r) \/ GetMessagesNil(r)
                        \/ Send(r) \/ Return(r) \/ SendFails(r)
  \/ Tick \/ Crash \/ New

Spec == Init /\ [][Next]_vars

\* Each GetMessages call is a goroutine that runs on until it returns.
FairSpec == Spec /\ \A r \in Readers : WF_vars(Send(r) \/ Return(r))

-----------------------------------------------------------------------------
\* A stream brings messages in the reverse order of their saving, whoever they
\* are for: the one saved later comes first (the clock at the head of
\* createBadgerEntry's keys, and `opts.Reverse`).
NewestFirst ==
  \A r \in Readers : \A i, j \in DOMAIN got[r] :
    i < j => savedAt[got[r][j]] <= savedAt[got[r][i]]

\* A stream that ran to its end brought every message of its user that was
\* stored when it opened (GetMessages' scan loses none of them), although the
\* key the scan starts from is not a prefix of theirs.
NothingMissed ==
  \A r \in Readers : stream[r] = "closed" => owed[r] \subseteq Range(got[r])

\* While the process lives, what it acknowledged it has: no save overwrites
\* another, given a microsecond each (createBadgerEntry's key).
AckedIsStored ==
  crashes = 0 => \A m \in Messages : call[m] = "acked" => \E e \in store : e.val = m

\* Under FairSpec: an open stream brings its user what it is owed, or breaks.
OwedIsDelivered ==
  \A r \in Readers :
    stream[r] = "open" ~> owed[r] \subseteq Range(got[r]) \/ stream[r] = "broken"

-----------------------------------------------------------------------------
\* The service as the web server may see it.
Queue == INSTANCE MessageQueue WITH
  queued <- {e.val : e \in store}, got <- [r \in Readers |-> Range(got[r])]

\* Given a microsecond for each save, the service implements MessageQueue: keys,
\* scans and restarts included, every step of it is one of that queue (core.go's
\* SaveMessage and GetMessages, under the deaths of the server main.go starts).
ServesQueue == Queue!Spec

-----------------------------------------------------------------------------
(* What the repository says and this service does not keep. *)

\* "they should be able to retrieve all queued confessions": theirs, that is;
\* a stream brings a user nobody else's messages.
OnlyOwnMessages ==
  \A r \in Readers : \A m \in Range(got[r]) : To[m] = asker[r]

\* "the confession will be queued": no save fails while the process is up.
SavesSucceed ==
  [][\A m \in Messages : up /\ call[m] = "none" => call'[m] # "error"]_vars
=============================================================================
