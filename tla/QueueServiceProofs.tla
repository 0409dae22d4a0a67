------------------------- MODULE QueueServiceProofs -------------------------
(***************************************************************************)
(* For any users, messages, readers and clock bound: the scan of           *)
(* GetMessages, which compares a bare id with keys that begin with a       *)
(* clock, never misses a stored message, and brings what it finds newest   *)
(* first; and, given a microsecond for each save, the service implements   *)
(* MessageQueue.                                                           *)
(***************************************************************************)
EXTENDS QueueService, TLAPS

LEMMA RestInNat == \A u \in Users : Rest[u] \in Range(Rest) /\ Rest[u] \in Nat
  BY UsersAssumption DEF Range

\* Every key the store can hold lies below every id, so a reverse scan from an
\* id visits all of a store.
LEMMA ScanIsComplete ==
  ASSUME NEW u \in Users, store \subseteq Entries
  PROVE  Visited(u) = store
<1>1. SUFFICES ASSUME NEW e \in store PROVE Before(e.key, Id(u))
  BY DEF Visited
<1>2. e.key[1] \in 0..MaxClock
  BY DEF Entries
<1>3. Prefix[u] \in Nat /\ Prefix[u] > MaxClock
  BY UsersAssumption, TextAboveClock
<1> QED
  BY <1>2, <1>3, BoundsAssumption DEF Before, Id

LEMMA OwnIsStored ==
  ASSUME NEW u \in Users
  PROVE  Own(u) \subseteq store
  BY DEF Own

\* What a stream has still to bring is what its iterator has still to visit.
OwedIsAhead ==
  \A r \in Readers : owed[r] \subseteq Range(got[r]) \cup {e.val : e \in todo[r]}

DoneIsEmpty == \A r \in Readers : stream[r] = "closed" => todo[r] = {}

IInv == TypeOK /\ OwedIsAhead /\ DoneIsEmpty

LEMMA AppendRange ==
  ASSUME NEW s \in Seq(Messages), NEW m \in Messages
  PROVE  Range(Append(s, m)) = Range(s) \cup {m}
<1>1. \A i \in DOMAIN s : i \in DOMAIN Append(s, m) /\ Append(s, m)[i] = s[i]
  OBVIOUS
<1>2. Len(s) + 1 \in DOMAIN Append(s, m) /\ Append(s, m)[Len(s) + 1] = m
  OBVIOUS
<1>3. \A i \in DOMAIN Append(s, m) : i \in DOMAIN s \/ i = Len(s) + 1
  OBVIOUS
<1> QED
  BY <1>1, <1>2, <1>3 DEF Range

-----------------------------------------------------------------------------

LEMMA DieTypes ==
  ASSUME TypeOK, Die
  PROVE  up' \in BOOLEAN /\ stream' \in [Readers -> {"none", "open", "closed", "broken"}]
  BY DEF TypeOK, Die

LEMMA PutTypes ==
  ASSUME TypeOK, NEW m \in Messages
  PROVE  Put(Key(To[m], clock), m) \subseteq Entries
<1>1. To[m] \in Users
  BY UsersAssumption
<1>2. [key |-> Key(To[m], clock), val |-> m] \in Entries
  BY <1>1, RestInNat DEF TypeOK, Key, Entries
<1> QED
  BY <1>2 DEF TypeOK, Put

LEMMA TypeStep == TypeOK /\ [Next]_vars => TypeOK'
<1> SUFFICES ASSUME TypeOK, [Next]_vars PROVE TypeOK'
  OBVIOUS
<1>1. ASSUME NEW m \in Messages, SaveMessage(m) PROVE TypeOK'
  BY <1>1, PutTypes DEF SaveMessage, TypeOK
<1>2. ASSUME NEW m \in Messages, SaveMessageNil(m) PROVE TypeOK'
  BY <1>2, DieTypes DEF SaveMessageNil, TypeOK
<1>3. ASSUME NEW m \in Messages, SaveErrors(m) \/ SaveRefused(m) PROVE TypeOK'
  BY <1>3 DEF SaveErrors, SaveRefused, TypeOK
<1>4. ASSUME NEW r \in Readers, GetMessages(r) PROVE TypeOK'
  <2>1. asker[r] \in Users
    BY DEF TypeOK
  <2>2. Visited(asker[r]) \subseteq Entries
    BY <2>1, ScanIsComplete DEF TypeOK
  <2>3. {e.val : e \in Own(asker[r])} \subseteq Messages
    BY <2>1, OwnIsStored DEF TypeOK, Entries
  <2> QED
    BY <1>4, <2>2, <2>3 DEF GetMessages, TypeOK
<1>5. ASSUME NEW r \in Readers, GetMessagesNil(r) PROVE TypeOK'
  BY <1>5 DEF GetMessagesNil, TypeOK
<1>6. ASSUME NEW r \in Readers, Send(r) PROVE TypeOK'
  <2>1. PICK e \in todo[r] : /\ got' = [got EXCEPT ![r] = Append(@, e.val)]
                             /\ todo' = [todo EXCEPT ![r] = @ \ {e}]
    BY <1>6 DEF Send
  <2>2. e.val \in Messages
    BY <2>1 DEF TypeOK, Entries
  <2>3. Append(got[r], e.val) \in Seq(Messages)
    BY <2>2 DEF TypeOK
  <2> QED
    BY <1>6, <2>1, <2>3 DEF Send, TypeOK
<1>7. ASSUME NEW r \in Readers, Return(r) PROVE TypeOK'
  BY <1>7 DEF Return, TypeOK
<1>8. ASSUME NEW r \in Readers, SendFails(r) PROVE TypeOK'
  BY <1>8 DEF SendFails, TypeOK
<1>9. CASE Tick
  BY <1>9, BoundsAssumption DEF Tick, TypeOK
<1>10. CASE Crash
  BY <1>10, DieTypes, BoundsAssumption DEF Crash, TypeOK
<1>11. CASE New
  BY <1>11 DEF New, TypeOK
<1>12. CASE UNCHANGED vars
  BY <1>12 DEF vars, TypeOK
<1> QED
  BY <1>1, <1>2, <1>3, <1>4, <1>5, <1>6, <1>7, <1>8, <1>9, <1>10, <1>11, <1>12 DEF Next

LEMMA AheadStep == TypeOK /\ OwedIsAhead /\ [Next]_vars => OwedIsAhead'
<1> SUFFICES ASSUME TypeOK, OwedIsAhead, [Next]_vars, NEW r \in Readers
             PROVE  owed'[r] \subseteq Range(got'[r]) \cup {e.val : e \in todo'[r]}
  BY DEF OwedIsAhead
<1>1. CASE owed'[r] = owed[r] /\ got'[r] = got[r] /\ todo'[r] = todo[r]
  BY <1>1 DEF OwedIsAhead
<1>2. ASSUME NEW q \in Readers, GetMessages(q)
      PROVE  owed'[r] \subseteq Range(got'[r]) \cup {e.val : e \in todo'[r]}
  <2>1. CASE q = r
    <3>1. asker[r] \in Users
      BY DEF TypeOK
    <3>2. Own(asker[r]) \subseteq Visited(asker[r])
      BY <3>1, ScanIsComplete, OwnIsStored DEF TypeOK
    <3>3. owed'[r] = {e.val : e \in Own(asker[r])} /\ todo'[r] = Visited(asker[r])
      BY <1>2, <2>1 DEF GetMessages, TypeOK
    <3> QED
      BY <3>2, <3>3
  <2>2. CASE q # r
    BY <1>1, <1>2, <2>2 DEF GetMessages, TypeOK
  <2> QED
    BY <2>1, <2>2
<1>3. ASSUME NEW q \in Readers, Send(q)
      PROVE  owed'[r] \subseteq Range(got'[r]) \cup {e.val : e \in todo'[r]}
  <2>1. PICK e \in todo[q] : /\ got' = [got EXCEPT ![q] = Append(@, e.val)]
                             /\ todo' = [todo EXCEPT ![q] = @ \ {e}]
    BY <1>3 DEF Send
  <2>2. owed'[r] = owed[r]
    BY <1>3 DEF Send
  <2>3. CASE q = r
    <3>1. e.val \in Messages
      BY <2>1, <2>3 DEF TypeOK, Entries
    <3>2. got'[r] = Append(got[r], e.val) /\ todo'[r] = todo[r] \ {e}
      BY <2>1, <2>3 DEF TypeOK
    <3>3. Range(got'[r]) = Range(got[r]) \cup {e.val}
      BY <3>1, <3>2, AppendRange DEF TypeOK
    <3> QED
      BY <2>2, <3>2, <3>3 DEF OwedIsAhead
  <2>4. CASE q # r
    BY <1>1, <2>1, <2>2, <2>4 DEF TypeOK
  <2> QED
    BY <2>3, <2>4
<1>4. ASSUME NEW q \in Readers, GetMessagesNil(q) \/ Return(q) \/ SendFails(q)
      PROVE  owed'[r] \subseteq Range(got'[r]) \cup {e.val : e \in todo'[r]}
  BY <1>1, <1>4 DEF GetMessagesNil, Return, SendFails
<1>5. ASSUME NEW m \in Messages, SaveMessage(m) \/ SaveErrors(m) \/ SaveMessageNil(m)
                                     \/ SaveRefused(m)
      PROVE  owed'[r] \subseteq Range(got'[r]) \cup {e.val : e \in todo'[r]}
  BY <1>1, <1>5 DEF SaveMessage, SaveErrors, SaveMessageNil, SaveRefused
<1>6. CASE Tick \/ Crash \/ New \/ UNCHANGED vars
  BY <1>1, <1>6 DEF Tick, Crash, New, vars
<1> QED
  BY <1>2, <1>3, <1>4, <1>5, <1>6 DEF Next

LEMMA DoneStep == TypeOK /\ DoneIsEmpty /\ [Next]_vars => DoneIsEmpty'
<1> SUFFICES ASSUME TypeOK, DoneIsEmpty, [Next]_vars,
                    NEW r \in Readers, stream'[r] = "closed"
             PROVE  todo'[r] = {}
  BY DEF DoneIsEmpty
<1>1. CASE stream'[r] = stream[r] /\ todo'[r] = todo[r]
  BY <1>1 DEF DoneIsEmpty
<1>2. ASSUME Die, UNCHANGED todo PROVE todo'[r] = {}
  BY <1>2 DEF Die, DoneIsEmpty, TypeOK
<1>3. ASSUME NEW q \in Readers, GetMessages(q) \/ GetMessagesNil(q) \/ SendFails(q)
      PROVE  todo'[r] = {}
  BY <1>1, <1>3 DEF GetMessages, GetMessagesNil, SendFails, TypeOK
<1>4. ASSUME NEW q \in Readers, Send(q) PROVE todo'[r] = {}
  <2>1. q # r
    BY <1>4 DEF Send
  <2> QED
    BY <1>1, <1>4, <2>1 DEF Send, TypeOK
<1>5. ASSUME NEW q \in Readers, Return(q) PROVE todo'[r] = {}
  BY <1>1, <1>5 DEF Return, TypeOK
<1>6. ASSUME NEW m \in Messages, SaveMessage(m) \/ SaveErrors(m) \/ SaveMessageNil(m)
                                     \/ SaveRefused(m)
      PROVE  todo'[r] = {}
  BY <1>1, <1>2, <1>6 DEF SaveMessage, SaveErrors, SaveMessageNil, SaveRefused
<1>7. CASE Tick \/ Crash \/ New \/ UNCHANGED vars
  BY <1>1, <1>2, <1>7 DEF Tick, Crash, New, vars
<1> QED
  BY <1>3, <1>4, <1>5, <1>6, <1>7 DEF Next

LEMMA InitIInv == Init => IInv
  BY BoundsAssumption DEF Init, IInv, TypeOK, OwedIsAhead, DoneIsEmpty

-----------------------------------------------------------------------------

\* The invariant of QueueService, types included, holds in every behaviour.
THEOREM QueueInvariant == Spec => []IInv
<1>1. IInv /\ [Next]_vars => IInv'
  BY TypeStep, AheadStep, DoneStep DEF IInv
<1> QED
  BY InitIInv, <1>1, PTL DEF Spec

\* A stream that ran to its end brought everything its user had in the store
\* when it opened (GetMessages).
THEOREM NothingMissedAlways == Spec => []NothingMissed
<1>1. IInv => NothingMissed
  BY DEF IInv, OwedIsAhead, DoneIsEmpty, NothingMissed
<1> QED
  BY QueueInvariant, <1>1, PTL

-----------------------------------------------------------------------------

\* With no crash the process is up, or it is the one main.go starts, which
\* never acknowledged anything.
KeptInv ==
  /\ served = "fresh" => \A m \in Messages : call[m] # "acked"
  /\ served = "filled" /\ crashes = 0 => up
  /\ AckedIsStored

LEMMA KeptStep ==
  ASSUME ~SharedTick
  PROVE  TypeOK /\ KeptInv /\ [Next]_vars => KeptInv'
<1> SUFFICES ASSUME TypeOK, KeptInv, [Next]_vars PROVE KeptInv'
  OBVIOUS
<1>1. ASSUME NEW m \in Messages, SaveMessage(m) PROVE KeptInv'
  <2>1. \A e \in store : e.key # Key(To[m], clock)
    BY <1>1 DEF SaveMessage, Key
  <2>2. store' = store \cup {[key |-> Key(To[m], clock), val |-> m]}
    BY <1>1, <2>1 DEF SaveMessage, Put
  <2>3. ASSUME crashes' = 0, NEW n \in Messages, call'[n] = "acked"
        PROVE  \E e \in store' : e.val = n
    <3>1. CASE n = m
      <4> DEFINE e0 == [key |-> Key(To[m], clock), val |-> m]
      <4>1. e0 \in store' /\ e0.val = m
        BY <2>2
      <4> QED
        BY <3>1, <4>1
    <3>2. CASE n # m
      <4>1. call[n] = "acked" /\ crashes = 0
        BY <1>1, <2>3, <3>2 DEF SaveMessage, TypeOK
      <4> QED
        BY <2>2, <4>1 DEF KeptInv, AckedIsStored
    <3> QED
      BY <3>1, <3>2
  <2> QED
    BY <1>1, <2>3 DEF SaveMessage, KeptInv, AckedIsStored
<1>2. ASSUME NEW m \in Messages, SaveErrors(m) \/ SaveMessageNil(m) \/ SaveRefused(m)
      PROVE  KeptInv'
  <2>1. \A n \in Messages : call'[n] = "acked" => call[n] = "acked"
    BY <1>2 DEF SaveErrors, SaveMessageNil, SaveRefused, TypeOK
  <2> QED
    BY <1>2, <2>1 DEF SaveErrors, SaveMessageNil, SaveRefused, KeptInv, AckedIsStored, Die
<1>3. ASSUME NEW r \in Readers,
             \/ GetMessages(r) \/ GetMessagesNil(r)
             \/ Send(r) \/ Return(r) \/ SendFails(r)
      PROVE  KeptInv'
  BY <1>3 DEF GetMessages, GetMessagesNil, Send, Return, SendFails, KeptInv, AckedIsStored
<1>4. CASE Tick \/ UNCHANGED vars
  BY <1>4 DEF Tick, vars, KeptInv, AckedIsStored
<1>5. CASE Crash
  <2>1. crashes' # 0
    BY <1>5 DEF Crash, TypeOK
  <2> QED
    BY <1>5, <2>1 DEF Crash, KeptInv, AckedIsStored
<1>6. CASE New
  <2>1. crashes # 0 \/ served = "fresh"
    BY <1>6, BoundsAssumption DEF New, KeptInv, TypeOK
  <2> QED
    BY <1>6, <2>1 DEF New, KeptInv, AckedIsStored
<1> QED
  BY <1>1, <1>2, <1>3, <1>4, <1>5, <1>6 DEF Next

\* If every save has a microsecond of its own, what a process acknowledged it
\* keeps while it lives, although the clock overwrites the id's first bytes in
\* the key (createBadgerEntry).
THEOREM AckedIsStoredAlways == ~SharedTick => (Spec => []AckedIsStored)
<1> SUFFICES ASSUME ~SharedTick PROVE Spec => []AckedIsStored
  OBVIOUS
<1>1. Init => TypeOK /\ KeptInv
  BY InitIInv DEF IInv, Init, KeptInv, AckedIsStored
<1>2. TypeOK /\ KeptInv /\ [Next]_vars => (TypeOK /\ KeptInv)'
  BY TypeStep, KeptStep
<1>3. KeptInv => AckedIsStored
  BY DEF KeptInv
<1> QED
  BY <1>1, <1>2, <1>3, PTL DEF Spec

-----------------------------------------------------------------------------

\* The type invariant of QueueService.
THEOREM TypeCorrect == Spec => []TypeOK
  BY QueueInvariant, PTL DEF IInv

-----------------------------------------------------------------------------
(* Nothing is brought twice, and nothing that was refused.                   *)

AckedVals(S) == \A e \in S : call[e.val] = "acked"
Distinct(S)  == \A e, f \in S : e.val = f.val => e = f

\* An acknowledged message is one entry; of an open stream it is either still to be
\* visited or was brought, at one place.
OnceOf(r) ==
  /\ AckedVals(todo[r]) /\ Distinct(todo[r])
  /\ \A m \in Range(got[r]) : call[m] = "acked"
  /\ \A e \in todo[r] : e.val \notin Range(got[r])
  /\ stream[r] = "none" => got[r] = << >>
  /\ IsInjective(got[r])

OnceInv == AckedVals(store) /\ Distinct(store) /\ \A r \in Readers : OnceOf(r)

\* A stream brings each message once at most, and only what was acknowledged.
BroughtOnce == \A r \in Readers :
  IsInjective(got[r]) /\ \A m \in Range(got[r]) : call[m] = "acked"

LEMMA AppendInjective ==
  ASSUME NEW s \in Seq(Messages), NEW m \in Messages, IsInjective(s), m \notin Range(s)
  PROVE  IsInjective(Append(s, m))
<1>1. \A i \in DOMAIN s : Append(s, m)[i] = s[i] /\ s[i] # m
  BY DEF Range
<1>2. \A i \in DOMAIN Append(s, m) : i \in DOMAIN s \/ i = Len(s) + 1
  OBVIOUS
<1>3. Append(s, m)[Len(s) + 1] = m
  OBVIOUS
<1>4. \A i, j \in DOMAIN s : s[i] = s[j] => i = j
  BY DEF IsInjective
<1> QED
  BY <1>1, <1>2, <1>3, <1>4 DEF IsInjective

LEMMA OnceStep == TypeOK /\ OnceInv /\ [Next]_vars => OnceInv'
<1> SUFFICES ASSUME TypeOK, OnceInv, [Next]_vars PROVE OnceInv'
  OBVIOUS
<1>1. ASSUME NEW m \in Messages, SaveMessage(m) PROVE OnceInv'
  <2>1. \A e \in store : e.val # m
    BY <1>1 DEF SaveMessage, OnceInv, AckedVals
  <2>2. \A n \in Messages : call[n] = "acked" => call'[n] = "acked"
    BY <1>1 DEF SaveMessage, TypeOK
  <2>3. call'[m] = "acked"
    BY <1>1 DEF SaveMessage, TypeOK
  <2>4. AckedVals(store)' /\ Distinct(store)'
    BY <1>1, <2>1, <2>2, <2>3
    DEF SaveMessage, Put, OnceInv, AckedVals, Distinct, TypeOK, Entries
  <2>5. ASSUME NEW r \in Readers PROVE OnceOf(r)'
    <3>1. \A e \in todo[r] : e.val \in Messages
      BY DEF TypeOK, Entries
    <3>2. \A n \in Range(got[r]) : n \in Messages
      BY DEF TypeOK, Range
    <3> QED
      BY <1>1, <2>2, <3>1, <3>2 DEF SaveMessage, OnceInv, OnceOf, AckedVals, Distinct
  <2> QED
    BY <2>4, <2>5 DEF OnceInv
<1>2. ASSUME NEW m \in Messages, call[m] = "none", call' = [call EXCEPT ![m] = "error"],
             UNCHANGED <<store, todo, got>>,
             \A r \in Readers : stream'[r] = "none" => stream[r] = "none"
      PROVE  OnceInv'
  <2>1. \A n \in Messages : call[n] = "acked" => call'[n] = "acked"
    BY <1>2 DEF TypeOK
  <2>2. \A e \in store : e.val \in Messages
    BY DEF TypeOK, Entries
  <2>3. ASSUME NEW r \in Readers PROVE OnceOf(r)'
    <3>1. \A e \in todo[r] : e.val \in Messages
      BY DEF TypeOK, Entries
    <3>2. \A n \in Range(got[r]) : n \in Messages
      BY DEF TypeOK, Range
    <3> QED
      BY <1>2, <2>1, <3>1, <3>2 DEF OnceInv, OnceOf, AckedVals, Distinct
  <2> QED
    BY <1>2, <2>1, <2>2, <2>3 DEF OnceInv, AckedVals, Distinct
<1>3. ASSUME UNCHANGED <<call, todo, got>>, store' \subseteq store,
             \A r \in Readers : stream'[r] = "none" => stream[r] = "none"
      PROVE  OnceInv'
  BY <1>3 DEF OnceInv, OnceOf, AckedVals, Distinct
<1>4. ASSUME NEW q \in Readers, GetMessages(q) PROVE OnceInv'
  <2>1. Visited(asker[q]) \subseteq store
    BY DEF Visited
  <2>2. ASSUME NEW r \in Readers, r # q PROVE OnceOf(r)'
    BY <1>4, <2>2 DEF GetMessages, TypeOK, OnceInv, OnceOf, AckedVals, Distinct
  <2>3. got[q] = << >> /\ Range(got[q]) = {} /\ stream'[q] = "open"
        /\ todo'[q] = Visited(asker[q])
    BY <1>4 DEF GetMessages, OnceInv, OnceOf, TypeOK, Range
  <2>4. OnceOf(q)'
    BY <1>4, <2>1, <2>3 DEF GetMessages, OnceInv, OnceOf, AckedVals, Distinct
  <2> QED
    BY <1>4, <2>2, <2>4 DEF GetMessages, OnceInv, AckedVals, Distinct
<1>5. ASSUME NEW q \in Readers, Send(q) PROVE OnceInv'
  <2>1. PICK e \in todo[q] : /\ got' = [got EXCEPT ![q] = Append(@, e.val)]
                             /\ todo' = [todo EXCEPT ![q] = @ \ {e}]
    BY <1>5 DEF Send
  <2>2. e.val \in Messages /\ got[q] \in Seq(Messages) /\ OnceOf(q)
    BY <2>1 DEF TypeOK, Entries, OnceInv
  <2>3. got'[q] = Append(got[q], e.val) /\ todo'[q] = todo[q] \ {e}
    BY <2>1 DEF TypeOK
  <2>4. Range(got'[q]) = Range(got[q]) \cup {e.val}
    BY <2>2, <2>3, AppendRange
  <2>5. IsInjective(got'[q])
    BY <2>1, <2>2, <2>3, AppendInjective DEF OnceOf
  <2>6. \A f \in todo'[q] : f.val \notin Range(got'[q])
    BY <2>1, <2>2, <2>3, <2>4 DEF OnceOf, Distinct
  <2>7. OnceOf(q)'
    BY <1>5, <2>1, <2>2, <2>3, <2>4, <2>5, <2>6 DEF Send, OnceOf, AckedVals, Distinct
  <2>8. ASSUME NEW r \in Readers, r # q PROVE OnceOf(r)'
    BY <1>5, <2>1, <2>8 DEF Send, TypeOK, OnceInv, OnceOf, AckedVals, Distinct
  <2> QED
    BY <1>5, <2>7, <2>8 DEF Send, OnceInv, AckedVals, Distinct
<1>6. ASSUME Die PROVE \A r \in Readers : stream'[r] = "none" => stream[r] = "none"
  BY <1>6 DEF Die
<1>7. ASSUME NEW m \in Messages, SaveErrors(m) \/ SaveMessageNil(m) \/ SaveRefused(m)
      PROVE  OnceInv'
  BY <1>2, <1>6, <1>7 DEF SaveErrors, SaveMessageNil, SaveRefused
<1>8. ASSUME NEW r \in Readers, GetMessagesNil(r) \/ Return(r) \/ SendFails(r) PROVE OnceInv'
  BY <1>3, <1>8 DEF GetMessagesNil, Return, SendFails, TypeOK
<1>9. CASE Tick \/ Crash \/ New \/ UNCHANGED vars
  BY <1>3, <1>6, <1>9 DEF Tick, Crash, New, vars
<1> QED
  BY <1>1, <1>4, <1>5, <1>7, <1>8, <1>9 DEF Next

LEMMA OnceInit == Init => OnceInv
  BY DEF Init, OnceInv, OnceOf, AckedVals, Distinct, IsInjective, Range

\* OnceInv is an invariant.
THEOREM OnceAlways == Spec => []OnceInv
<1>1. TypeOK /\ OnceInv /\ [Next]_vars => OnceInv'
  BY OnceStep
<1> QED
  BY OnceInit, <1>1, TypeCorrect, PTL DEF Spec

\* BroughtOnce, in every behaviour, whatever shares a microsecond: an entry that is
\* overwritten is lost, but none is brought again.
THEOREM BroughtOnceAlways == Spec => []BroughtOnce
<1>1. OnceInv => BroughtOnce
  BY DEF OnceInv, OnceOf, BroughtOnce
<1> QED
  BY <1>1, OnceAlways, PTL

-----------------------------------------------------------------------------
(* The order of saving. *)

\* The clock is at the head of each key, so an entry tells when its message was
\* saved; what a stream has still to bring was not saved after what it brought.
OrderInv ==
  /\ \A e \in store : e.key[1] = savedAt[e.val]
  /\ \A r \in Readers : \A e \in todo[r] :
       /\ e.key[1] = savedAt[e.val]
       /\ \A m \in Range(got[r]) : savedAt[e.val] <= savedAt[m]

LEMMA OrderStep == TypeOK /\ OnceInv /\ OrderInv /\ NewestFirst /\ [Next]_vars
                     => OrderInv' /\ NewestFirst'
<1> SUFFICES ASSUME TypeOK, OnceInv, OrderInv, NewestFirst, [Next]_vars
             PROVE  OrderInv' /\ NewestFirst'
  OBVIOUS
\* Steps that save nothing and bring nothing.
<1>1. ASSUME UNCHANGED <<todo, got, savedAt>>, store' \subseteq store
      PROVE  OrderInv' /\ NewestFirst'
  BY <1>1 DEF OrderInv, NewestFirst
<1>2. ASSUME NEW m \in Messages, SaveMessage(m) PROVE OrderInv' /\ NewestFirst'
  <2>1. /\ savedAt'[m] = clock
        /\ \A n \in Messages : call[n] = "acked" => savedAt'[n] = savedAt[n]
    BY <1>2 DEF SaveMessage, TypeOK
  <2>2. \A e \in store : savedAt'[e.val] = savedAt[e.val]
    BY <2>1 DEF OnceInv, AckedVals, TypeOK, Entries
  <2>3. ASSUME NEW e \in store' PROVE e.key[1] = savedAt'[e.val]
    <3>1. e \in store \/ (e.key = Key(To[m], clock) /\ e.val = m)
      BY <1>2 DEF SaveMessage, Put
    <3> QED BY <2>1, <2>2, <3>1 DEF OrderInv, Key
  <2>4. ASSUME NEW r \in Readers
        PROVE  /\ \A e \in todo[r] : savedAt'[e.val] = savedAt[e.val]
               /\ \A n \in Range(got[r]) : savedAt'[n] = savedAt[n]
    <3>1. \A e \in todo[r] : e.val \in Messages /\ call[e.val] = "acked"
      BY DEF OnceInv, OnceOf, AckedVals, TypeOK, Entries
    <3>2. \A n \in Range(got[r]) : n \in Messages /\ call[n] = "acked"
      BY DEF OnceInv, OnceOf, TypeOK, Range
    <3> QED BY <2>1, <3>1, <3>2
  <2>5. \A r \in Readers : \A i \in DOMAIN got[r] : got[r][i] \in Range(got[r])
    BY DEF Range
  <2> QED BY <1>2, <2>3, <2>4, <2>5 DEF SaveMessage, OrderInv, NewestFirst
<1>3. ASSUME NEW q \in Readers, GetMessages(q) PROVE OrderInv' /\ NewestFirst'
  <2>1. /\ UNCHANGED <<store, got, savedAt>> /\ Range(got[q]) = {}
        /\ todo'[q] \subseteq store
        /\ \A r \in Readers : r # q => todo'[r] = todo[r]
    BY <1>3 DEF GetMessages, TypeOK, Visited, OnceInv, OnceOf, Range
  <2>2. ASSUME NEW r \in Readers, NEW e \in todo'[r]
        PROVE  /\ e.key[1] = savedAt[e.val]
               /\ \A m \in Range(got[r]) : savedAt[e.val] <= savedAt[m]
    BY <2>1, <2>2 DEF OrderInv
  <2> QED BY <2>1, <2>2 DEF OrderInv, NewestFirst
<1>4. ASSUME NEW q \in Readers, Send(q) PROVE OrderInv' /\ NewestFirst'
  <2>1. PICK d \in todo[q] : /\ NextIn(todo[q], d)
                             /\ got' = [got EXCEPT ![q] = Append(@, d.val)]
                             /\ todo' = [todo EXCEPT ![q] = @ \ {d}]
    BY <1>4 DEF Send
  <2>2. UNCHANGED <<store, savedAt>> /\ d.val \in Messages
    BY <1>4, <2>1 DEF Send, TypeOK, Entries
  <2>3. /\ got'[q] = Append(got[q], d.val) /\ todo'[q] = todo[q] \ {d}
        /\ \A r \in Readers : r # q => got'[r] = got[r] /\ todo'[r] = todo[r]
    BY <2>1 DEF TypeOK
  <2>4. Range(got'[q]) = Range(got[q]) \cup {d.val}
    BY <2>2, <2>3, AppendRange DEF TypeOK
  <2>5. ASSUME NEW e \in todo[q] PROVE savedAt[e.val] <= savedAt[d.val]
    <3>1. e.key[1] = savedAt[e.val] /\ d.key[1] = savedAt[d.val]
      BY <2>1, <2>5 DEF OrderInv
    <3>2. savedAt[e.val] \in 0..MaxClock /\ savedAt[d.val] \in 0..MaxClock
      BY <2>1, <2>5 DEF TypeOK, Entries
    <3> QED BY <2>1, <2>5, <3>1, <3>2, BoundsAssumption DEF NextIn, Before
  <2>6. ASSUME NEW r \in Readers, NEW e \in todo'[r]
        PROVE  /\ e.key[1] = savedAt[e.val]
               /\ \A m \in Range(got'[r]) : savedAt[e.val] <= savedAt[m]
    <3>1. CASE r = q
      BY <2>3, <2>4, <2>5, <2>6, <3>1 DEF OrderInv
    <3>2. CASE r # q
      BY <2>3, <2>6, <3>2 DEF OrderInv
    <3> QED BY <3>1, <3>2
  <2>7. ASSUME NEW r \in Readers, NEW i \in DOMAIN got'[r], NEW j \in DOMAIN got'[r], i < j
        PROVE  savedAt[got'[r][j]] <= savedAt[got'[r][i]]
    <3>1. CASE r # q
      BY <2>3, <2>7, <3>1 DEF NewestFirst
    <3>2. CASE r = q
      <4>1. got[q] \in Seq(Messages)
        BY DEF TypeOK
      <4>2. i \in DOMAIN got[q] /\ got'[q][i] = got[q][i]
        BY <2>3, <2>7, <3>2, <4>1
      <4>3. CASE j \in DOMAIN got[q]
        BY <2>2, <2>3, <2>7, <3>2, <4>1, <4>2, <4>3 DEF NewestFirst
      <4>4. CASE j \notin DOMAIN got[q]
        <5>1. got'[q][j] = d.val
          BY <2>2, <2>3, <2>7, <3>2, <4>1, <4>4
        <5>2. got[q][i] \in Range(got[q])
          BY <4>2 DEF Range
        <5> QED BY <2>1, <3>2, <4>2, <5>1, <5>2 DEF OrderInv
      <4> QED BY <4>3, <4>4
    <3> QED BY <3>1, <3>2
  <2> QED BY <2>2, <2>6, <2>7, <1>4 DEF OrderInv, NewestFirst
<1>5. ASSUME NEW m \in Messages, SaveErrors(m) \/ SaveMessageNil(m) \/ SaveRefused(m)
      PROVE  OrderInv' /\ NewestFirst'
  BY <1>1, <1>5 DEF SaveErrors, SaveMessageNil, SaveRefused
<1>6. ASSUME NEW r \in Readers, GetMessagesNil(r) \/ Return(r) \/ SendFails(r)
      PROVE  OrderInv' /\ NewestFirst'
  BY <1>1, <1>6 DEF GetMessagesNil, Return, SendFails
<1>7. CASE Tick \/ Crash \/ New \/ UNCHANGED vars
  BY <1>1, <1>7 DEF Tick, Crash, New, vars
<1> QED BY <1>2, <1>3, <1>4, <1>5, <1>6, <1>7 DEF Next

\* A stream brings messages in the reverse order of their saving, whoever they
\* are for and whatever is saved, lost or restarted meanwhile; those saved in one
\* microsecond in either order (createBadgerEntry, GetMessages).
THEOREM NewestFirstAlways == Spec => []NewestFirst
<1>1. Init => OrderInv /\ NewestFirst
  BY DEF Init, OrderInv, NewestFirst
<1>2. TypeOK /\ OnceInv /\ OrderInv /\ NewestFirst /\ [Next]_vars
        => OrderInv' /\ NewestFirst'
  BY OrderStep
<1> QED BY <1>1, <1>2, TypeCorrect, OnceAlways, PTL DEF Spec

-----------------------------------------------------------------------------

\* A stream is open only at a process that is up and has a store, and then its
\* iterator's entries are still in it.
LiveInv == \A r \in Readers : stream[r] = "open" =>
             up /\ served = "filled" /\ todo[r] \subseteq store

LEMMA LiveStep ==
  ASSUME ~SharedTick
  PROVE  TypeOK /\ LiveInv /\ [Next]_vars => LiveInv'
<1> SUFFICES ASSUME TypeOK, LiveInv, [Next]_vars PROVE LiveInv'
  OBVIOUS
<1>1. ASSUME NEW m \in Messages, SaveMessage(m) PROVE LiveInv'
  <2>1. store \subseteq store'
    BY <1>1 DEF SaveMessage, Key, Put
  <2> QED BY <1>1, <2>1 DEF SaveMessage, LiveInv
<1>2. ASSUME Die PROVE LiveInv'
  BY <1>2 DEF Die, LiveInv, TypeOK
<1>3. ASSUME NEW m \in Messages, SaveErrors(m) \/ SaveMessageNil(m) \/ SaveRefused(m)
      PROVE  LiveInv'
  BY <1>2, <1>3 DEF SaveErrors, SaveMessageNil, SaveRefused, LiveInv
<1>4. ASSUME NEW q \in Readers, GetMessages(q) PROVE LiveInv'
  BY <1>4 DEF GetMessages, LiveInv, TypeOK, Visited
<1>5. ASSUME NEW q \in Readers, GetMessagesNil(q) PROVE LiveInv'
  BY <1>5 DEF GetMessagesNil, LiveInv, TypeOK
<1>6. ASSUME NEW q \in Readers, Send(q) PROVE LiveInv'
  BY <1>6 DEF Send, LiveInv, TypeOK
<1>7. ASSUME NEW q \in Readers, Return(q) \/ SendFails(q) PROVE LiveInv'
  BY <1>7 DEF Return, SendFails, LiveInv, TypeOK
<1>8. CASE Tick \/ Crash \/ New \/ UNCHANGED vars
  BY <1>2, <1>8 DEF Tick, Crash, New, LiveInv, vars
<1> QED BY <1>1, <1>3, <1>4, <1>5, <1>6, <1>7, <1>8 DEF Next

\* A step of the service is a step of the queue, or none.
LEMMA QueueStep ==
  ASSUME ~SharedTick, TypeOK, OwedIsAhead, DoneIsEmpty, OnceInv, LiveInv, [Next]_vars
  PROVE  [Queue!Next]_(Queue!vars)
<1> DEFINE V == {e.val : e \in store}
           G == [r \in Readers |-> Range(got[r])]
<1>1. ASSUME NEW m \in Messages, SaveMessage(m) PROVE Queue!Save(m)
  <2>1. store' = store \cup {[key |-> Key(To[m], clock), val |-> m]}
    BY <1>1 DEF SaveMessage, Key, Put
  <2> DEFINE n == [key |-> Key(To[m], clock), val |-> m]
  <2>3. n \in store' /\ n.val = m /\ \A e \in store' : e \in store \/ e = n
    BY <2>1
  <2>4. \A e \in store : e \in store'
    BY <2>1
  <2> HIDE DEF n
  <2>2. V' = V \cup {m}
    BY <2>3, <2>4
  <2> QED BY <1>1, <2>2 DEF SaveMessage, Queue!Save
<1>2. ASSUME NEW B \in SUBSET Readers, \A r \in B : stream[r] \in {"none", "open"},
             stream' = [r \in Readers |-> IF r \in B THEN "broken" ELSE stream[r]],
             UNCHANGED <<store, asker, got, owed>>
      PROVE  Queue!Break(B)
  BY <1>2 DEF Queue!Break
<1>3. ASSUME Die, UNCHANGED <<store, asker, got, owed>>
      PROVE  \E B \in SUBSET Readers : Queue!Break(B)
  <2> DEFINE B == {r \in Readers : stream[r] = "open"}
  <2>1. stream' = [r \in Readers |-> IF r \in B THEN "broken" ELSE stream[r]]
    BY <1>3 DEF Die
  <2>2. Queue!Break(B)
    BY <1>2, <1>3, <2>1
  <2> QED BY <2>2
<1>4. ASSUME UNCHANGED <<store, stream, asker, got, owed>>
      PROVE  \E B \in SUBSET Readers : Queue!Break(B)
  <2>1. stream' = [r \in Readers |-> IF r \in {} THEN "broken" ELSE stream[r]]
    BY <1>4 DEF TypeOK
  <2>2. Queue!Break({})
    BY <1>2, <1>4, <2>1
  <2> QED BY <2>2
<1>5. ASSUME NEW m \in Messages, SaveErrors(m) \/ SaveMessageNil(m) \/ SaveRefused(m)
      PROVE  Queue!Fail(m)
  BY <1>3, <1>4, <1>5 DEF SaveErrors, SaveMessageNil, SaveRefused, Queue!Fail
<1>6. ASSUME NEW r \in Readers, GetMessages(r) PROVE Queue!Open(r)
  <2>1. {e.val : e \in Own(asker[r])} = {m \in V : To[m] = asker[r]}
    BY DEF Own
  <2> QED BY <1>6, <2>1 DEF GetMessages, Queue!Open
<1>7. ASSUME NEW r \in Readers, stream[r] \in {"none", "open"},
             stream' = [stream EXCEPT ![r] = "broken"],
             UNCHANGED <<store, asker, got, owed>>
      PROVE  \E B \in SUBSET Readers : Queue!Break(B)
  <2>1. stream' = [q \in Readers |-> IF q \in {r} THEN "broken" ELSE stream[q]]
    BY <1>7 DEF TypeOK
  <2>2. Queue!Break({r})
    BY <1>2, <1>7, <2>1
  <2> QED BY <2>2
<1>8. ASSUME NEW r \in Readers, GetMessagesNil(r) \/ SendFails(r)
      PROVE  (\E B \in SUBSET Readers : Queue!Break(B)) /\ UNCHANGED call
  BY <1>7, <1>8 DEF GetMessagesNil, SendFails
<1>9. ASSUME NEW r \in Readers, Send(r) PROVE Queue!Deliver(r)
  <2>1. PICK e \in todo[r] : got' = [got EXCEPT ![r] = Append(@, e.val)]
    BY <1>9 DEF Send
  <2>2. stream[r] = "open" /\ UNCHANGED <<store, call, stream, asker, owed>>
    BY <1>9 DEF Send
  <2>3. e \in store /\ e.val \in Messages /\ e.val \notin Range(got[r])
    BY <2>1, <2>2 DEF OnceInv, OnceOf, LiveInv, TypeOK, Entries
  <2>4. Range(got'[r]) = Range(got[r]) \cup {e.val}
    BY <2>1, <2>3, AppendRange DEF TypeOK
  <2>5. \A q \in Readers : q # r => got'[q] = got[q]
    BY <2>1 DEF TypeOK
  <2>6. G' = [G EXCEPT ![r] = @ \cup {e.val}]
    BY <2>4, <2>5
  <2>7. e.val \in V \ G[r] /\ UNCHANGED V
    BY <2>2, <2>3
  <2> QED BY <2>2, <2>6, <2>7 DEF Queue!Deliver
<1>10. ASSUME NEW r \in Readers, Return(r) PROVE Queue!Close(r)
  <2>1. owed[r] \subseteq Range(got[r])
    BY <1>10 DEF Return, OwedIsAhead
  <2> QED BY <1>10, <2>1 DEF Return, Queue!Close
<1>11. CASE Crash
  BY <1>3, <1>11 DEF Crash, Queue!Next
<1>12. CASE New
  <2>1. V' = {} /\ \A r \in Readers : stream[r] # "open"
    BY <1>12 DEF New, LiveInv
  <2> QED BY <1>12, <2>1 DEF New, Queue!Forget, Queue!Next
<1>13. CASE Tick \/ UNCHANGED vars
  BY <1>13 DEF Tick, vars, Queue!vars
<1> QED BY <1>1, <1>5, <1>6, <1>8, <1>9, <1>10, <1>11, <1>12, <1>13 DEF Next, Queue!Next

\* Given a microsecond for each save, the service is the queue MessageQueue
\* describes, for any users, messages and streams, any clock and any number of
\* crashes and restarts.
THEOREM ServesQueueAlways == ~SharedTick => (Spec => ServesQueue)
<1> SUFFICES ASSUME ~SharedTick PROVE Spec => ServesQueue
  OBVIOUS
<1>1. Init => Queue!Init /\ LiveInv
  <2> SUFFICES ASSUME Init PROVE Queue!Init /\ LiveInv
    OBVIOUS
  <2>1. \A r \in Readers : Range(got[r]) = {}
    BY DEF Init, Range
  <2> QED BY <2>1 DEF Init, Queue!Init, LiveInv
<1>2. IInv /\ OnceInv /\ LiveInv /\ [Next]_vars => [Queue!Next]_(Queue!vars)
  BY QueueStep DEF IInv
<1>3. IInv /\ LiveInv /\ [Next]_vars => LiveInv'
  BY LiveStep DEF IInv
<1> QED BY <1>1, <1>2, <1>3, QueueInvariant, OnceAlways, PTL DEF Spec, ServesQueue, Queue!Spec

=============================================================================
