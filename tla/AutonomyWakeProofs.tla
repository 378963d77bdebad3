-------------------------- MODULE AutonomyWakeProofs --------------------------
(***************************************************************************)
(* Proofs about AutonomyWake for any calls, keys, priorities and quotas,   *)
(* and any number of cancellations, stops and crashes.                     *)
(***************************************************************************)
EXTENDS AutonomyWake, TLAPS, FiniteSetTheorems, SequenceTheorems

\* The entries the coordinator has not done with.
Live == Queued \union ({hand} \ {0})

\* A pending entry is one of its key.
PendingByKey == \A k \in Keys : pending[k] # 0 => entries[pending[k]].key = k

\* An entry whose future is still to be set is the pending one of its key.
LiveIsPending == \A e \in Live : Open(e) => pending[entries[e].key] = e

\* The worker has an entry in hand where its steps need one; while stop waits for the
\* worker, it has nothing in hand and takes nothing.
StoppedWorker ==
  /\ task \in {"calling", "settling", "closing"} => hand # 0
  /\ stopping => hand = 0 /\ task \in {"none", "dead", "lastwrite"}
  /\ lock = "worker" => task \in {"journalling", "lastwrite"}

\* What the worker has in hand has left the heap.
HandTaken == hand # 0 => ~entries[hand].queued

\* The inductive invariant.
WakeInv == TypeOK /\ PendingByKey /\ LiveIsPending /\ HandTaken /\ StoppedWorker

-------------------------------------------------------------------------------
(* Setting a future, and reading the journal back.                             *)

\* A future is set once, and nothing else of its entry changes.
LEMMA ResolvedEntries ==
  ASSUME entries \in Seq(WakeEntry), NEW e \in 0..Len(entries),
         NEW answer \in {"ran", "stopped", "cancelled"}
  PROVE  /\ Resolved(e, answer) \in Seq(WakeEntry)
         /\ Len(Resolved(e, answer)) = Len(entries)
         /\ DOMAIN Resolved(e, answer) = DOMAIN entries
         /\ \A d \in DOMAIN entries :
              /\ Resolved(e, answer)[d].key = entries[d].key
              /\ Resolved(e, answer)[d].queued = entries[d].queued
              /\ Resolved(e, answer)[d].future = "open" => entries[d].future = "open" /\ d # e
<1>1. CASE Open(e)
  <2> DEFINE r == [entries[e] EXCEPT !.future = answer]
  <2>1. e \in DOMAIN entries /\ entries[e] \in WakeEntry
    BY <1>1 DEF Open
  <2>2. /\ r \in WakeEntry /\ r.key = entries[e].key /\ r.queued = entries[e].queued
        /\ r.future # "open"
    BY <2>1 DEF WakeEntry
  <2>3. Resolved(e, answer) = [entries EXCEPT ![e] = r]
    BY <1>1 DEF Resolved
  <2> HIDE DEF r
  <2>4. QED
    BY <2>1, <2>2, <2>3
<1>2. CASE ~Open(e)
  BY <1>2 DEF Resolved, Open
<1>3. QED
  BY <1>1, <1>2

\* A journal has at most one row for each of finitely many keys.
LEMMA JournalFinite ==
  ASSUME NEW rows, rows \subseteq Row, \A r, s \in rows : r.key = s.key => r = s
  PROVE  IsFiniteSet(rows) /\ Cardinality(rows) \in Nat
<1> DEFINE f == [r \in rows |-> r.key]
<1>1. f \in Injection(rows, Keys)
  BY DEF Injection, IsInjective, Row
<1>2. IsFiniteSet(rows)
  BY <1>1, WakeAssumption, FS_Injection
<1>3. QED
  BY <1>2, FS_CardinalityType

\* The rows read back are rows of the journal, each of another key.
LEMMA RestoredRows ==
  ASSUME TypeOK, NEW rows \in InOrder(IF PendingKeys = {} THEN journal ELSE {})
  PROVE  \E n \in Nat : /\ DOMAIN rows = 1..n /\ rows \in Seq(Row)
                        /\ PendingKeys # {} => n = 0
                        /\ \A i, j \in 1..n : i # j => rows[i].key # rows[j].key
<1> DEFINE S == IF PendingKeys = {} THEN journal ELSE {}
           n == Cardinality(S)
<1>1. S \subseteq Row /\ \A r, s \in S : r.key = s.key => r = s
  BY DEF TypeOK
<1>2. n \in Nat
  BY <1>1, JournalFinite
<1>3. PendingKeys # {} => n = 0
  BY FS_EmptySet
<1>4. rows \in [1..n -> S] /\ \A i, j \in 1..n : i < j => Earlier(rows[i], rows[j])
  BY DEF InOrder
<1> HIDE DEF S, n
<1>5. ASSUME NEW i \in 1..n, NEW j \in 1..n, i < j PROVE rows[i].key # rows[j].key
  <2>1. rows[i] \in S /\ rows[j] \in S /\ Earlier(rows[i], rows[j])
    BY <1>2, <1>4, <1>5
  <2>2. rows[i] \in Row /\ rows[j] \in Row
    BY <1>1, <2>1
  <2>3. rows[i] # rows[j]
    BY <2>1, <2>2 DEF Earlier, Row
  <2>4. QED
    BY <1>1, <2>1, <2>3
<1>6. rows \in Seq(Row)
  BY <1>1, <1>2, <1>4
<1>7. QED
  BY <1>2, <1>3, <1>4, <1>5, <1>6
-------------------------------------------------------------------------------
(* Every action keeps the types and, by what it does to the entries that are   *)
(* live and to the pending ones, the rest of the invariant.                    *)

\* What the journal writes is typed and has one row for each key.
LEMMA WriteTypes ==
  ASSUME TypeOK
  PROVE  /\ Rows \subseteq Row /\ \A r, s \in Rows : r.key = s.key => r = s
         /\ Write => /\ journal' \subseteq Row
                     /\ \A r, s \in journal' : r.key = s.key => r = s
<1>1. \A k \in PendingKeys : pending[k] \in DOMAIN entries /\ entries[pending[k]] \in WakeEntry
  BY DEF TypeOK, PendingKeys
<1>2. Rows \subseteq Row
  BY <1>1 DEF Rows, Row, WakeEntry, PendingKeys, TypeOK
<1>3. \A r, s \in Rows : r.key = s.key => r = s
  BY DEF Rows
<1>4. QED
  BY <1>2, <1>3 DEF Write, TypeOK

\* A step that sets futures and no more of the entries.
OnlySet ==
  /\ DOMAIN entries' = DOMAIN entries
  /\ \A d \in DOMAIN entries :
       /\ entries'[d].key = entries[d].key
       /\ entries'[d].queued = entries[d].queued
       /\ entries'[d].future = "open" => entries[d].future = "open"

\* Such a step keeps the invariants on live and pending entries if the worker's hand
\* gains nothing and pending stays what it was.
LEMMA OnlySetKeeps ==
  ASSUME WakeInv, OnlySet, pending' = pending, hand' \in {hand, 0}
  PROVE  PendingByKey' /\ LiveIsPending' /\ HandTaken'
<1>1. \A k \in Keys : pending[k] # 0 => pending[k] \in DOMAIN entries
  BY DEF WakeInv, TypeOK
<1>2. Live' \subseteq Live /\ Live \subseteq DOMAIN entries
  BY DEF WakeInv, TypeOK, OnlySet, Live, Queued
<1>3. PendingByKey'
  BY <1>1 DEF WakeInv, OnlySet, PendingByKey
<1>4. LiveIsPending'
  BY <1>2 DEF WakeInv, OnlySet, LiveIsPending, Open
<1>5. HandTaken'
  BY DEF WakeInv, TypeOK, OnlySet, HandTaken
<1>6. QED
  BY <1>3, <1>4, <1>5

\* The types after a step of the worker or of stop: no call and no journal changes.
LEMMA WorkerTypes ==
  ASSUME TypeOK, entries' \in Seq(WakeEntry), Len(entries') = Len(entries),
         pending' \in [Keys -> 0..Len(entries)], hand' \in 0..Len(entries),
         lock' \in Calls \union {"worker", "free"}, task' \in Tasks,
         running' \in BOOLEAN, stopping' \in BOOLEAN, owed' \subseteq Keys, stops' \in Nat,
         UNCHANGED <<call, awaits, journal, late, crashes>>
  PROVE  TypeOK'
BY DEF TypeOK

\* So does one that also drops the worker's entry, pending no more.
LEMMA DroppedKeeps ==
  ASSUME WakeInv, OnlySet, IsPending(hand), hand' = 0,
         pending' = [pending EXCEPT ![entries[hand].key] = 0]
  PROVE  PendingByKey' /\ LiveIsPending' /\ HandTaken' /\ pending' \in [Keys -> 0..Len(entries)]
<1> DEFINE k == entries[hand].key
<1>1. hand \in DOMAIN entries /\ k \in Keys /\ pending[k] = hand
  <2>1. hand \in DOMAIN entries
    BY DEF WakeInv, TypeOK, IsPending
  <2>2. entries[hand] \in WakeEntry
    BY <2>1 DEF WakeInv, TypeOK
  <2>3. QED
    BY <2>1, <2>2 DEF IsPending, WakeEntry
<1>2. /\ pending' \in [Keys -> 0..Len(entries)] /\ pending'[k] = 0
      /\ \A j \in Keys \ {k} : pending'[j] = pending[j]
  BY <1>1 DEF WakeInv, TypeOK
<1>3. PendingByKey'
  BY <1>1, <1>2 DEF WakeInv, TypeOK, OnlySet, PendingByKey
<1>4. LiveIsPending'
  <2>1. SUFFICES ASSUME NEW e \in Live', Open(e)' PROVE pending'[entries'[e].key] = e
    BY DEF LiveIsPending
  <2>2. e \in Queued /\ entries'[e].key = entries[e].key /\ entries[e] \in WakeEntry /\ Open(e)
    BY <2>1 DEF Live, Queued, OnlySet, WakeInv, TypeOK, Open
  <2>3. e # hand /\ pending[entries[e].key] = e /\ entries[e].key \in Keys
    <3>1. e # hand
      BY <1>1, <2>2 DEF WakeInv, HandTaken, IsPending, Queued
    <3>2. pending[entries[e].key] = e
      BY <2>2 DEF WakeInv, LiveIsPending, Live
    <3>3. QED
      BY <2>2, <3>1, <3>2 DEF WakeEntry
  <2>4. entries[e].key # k
    BY <1>1, <2>3
  <2>5. QED
    BY <1>2, <2>2, <2>3, <2>4
<1>5. QED
  BY <1>2, <1>3, <1>4 DEF HandTaken

\* The finally block keeps the invariant, after a result is set or with none to set.
LEMMA ClosedKeeps ==
  ASSUME WakeInv, OnlySet, Closed, entries' \in Seq(WakeEntry), Len(entries') = Len(entries),
         hand # 0, ~stopping, lock = "free"
  PROVE  /\ PendingByKey' /\ LiveIsPending' /\ HandTaken'
         /\ pending' \in [Keys -> 0..Len(entries)] /\ hand' = 0
         /\ \/ lock' = "free" /\ task' = "top"
            \/ lock' = "worker" /\ task' = "journalling"
<1>1. CASE IsPending(hand)
  BY <1>1, DroppedKeeps DEF Closed
<1>2. CASE ~IsPending(hand)
  BY <1>2, OnlySetKeeps DEF Closed, WakeInv, TypeOK
<1>3. QED
  BY <1>1, <1>2

\* Every step keeps the inductive invariant.
LEMMA WakeStep == ASSUME WakeInv, [Next]_vars PROVE WakeInv'
<1> USE WakeAssumption DEF WakeInv
<1>1. ASSUME NEW c \in Calls, Refuse(c) PROVE WakeInv'
  BY <1>1 DEF Refuse, Asked, TypeOK, PendingByKey, LiveIsPending, HandTaken, StoppedWorker, Live, Queued,
              Open, Answers
<1>2. ASSUME NEW c \in Calls, Coalesce(c) PROVE WakeInv'
  <2> DEFINE e == pending[KeyOf[c]]
             r == [entries[e] EXCEPT !.priority = IF Priority[c] < entries[e].priority
                                                  THEN Priority[c] ELSE @]
  <2>1. e \in DOMAIN entries /\ entries[e] \in WakeEntry
    BY <1>2 DEF Coalesce, Open, TypeOK
  <2>2. /\ r \in WakeEntry /\ r.key = entries[e].key /\ r.queued = entries[e].queued
        /\ r.future = entries[e].future
    BY <2>1 DEF WakeEntry
  <2>3. \/ entries' = [entries EXCEPT ![e] = r] /\ lock' = c
           /\ call' = [call EXCEPT ![c] = "rewriting"]
        \/ entries' = entries /\ lock' = lock /\ call' = [call EXCEPT ![c] = "waiting"]
    BY <1>2 DEF Coalesce
  <2>4. awaits' = [awaits EXCEPT ![c] = e]
    BY <1>2 DEF Coalesce
  <2> HIDE DEF r, e
  <2>5. entries' \in Seq(WakeEntry) /\ Len(entries') = Len(entries) /\ OnlySet
    <3>1. CASE entries' = [entries EXCEPT ![e] = r]
      BY <2>1, <2>2, <3>1 DEF TypeOK, OnlySet
    <3>2. CASE entries' = entries
      BY <3>2 DEF TypeOK, OnlySet
    <3>3. QED
      BY <2>3, <3>1, <3>2
  <2>6. /\ call' \in [Calls -> Answers \union {"new", "writing", "rewriting", "waiting"}]
        /\ awaits' \in [Calls -> 0..Len(entries)]
        /\ \A d \in Calls : call'[d] \in {"writing", "rewriting", "waiting"} => awaits'[d] # 0
    <3>1. call' \in [Calls -> Answers \union {"new", "writing", "rewriting", "waiting"}]
      BY <2>3 DEF TypeOK
    <3>2. e \in 0..Len(entries) /\ e # 0
      BY <2>1 DEF TypeOK
    <3>3. awaits' \in [Calls -> 0..Len(entries)] /\ awaits'[c] = e
      BY <2>4, <3>2 DEF TypeOK
    <3>4. \A d \in Calls \ {c} : call'[d] = call[d] /\ awaits'[d] = awaits[d]
      BY <2>3, <2>4 DEF TypeOK
    <3>5. QED
      BY <3>1, <3>2, <3>3, <3>4 DEF TypeOK
  <2>7. TypeOK'
    BY <1>2, <2>3, <2>5, <2>6 DEF Coalesce, TypeOK
  <2>8. QED
    BY <1>2, <2>3, <2>5, <2>7, OnlySetKeeps DEF Coalesce, Asked, StoppedWorker
<1>3. ASSUME NEW c \in Calls, Enqueue(c) PROVE WakeInv'
  <2> DEFINE n == Len(entries)
             x == Entry(KeyOf[c], Priority[c])
  <2>1. /\ x \in WakeEntry /\ x.key = KeyOf[c]
        /\ KeyOf[c] \in Keys /\ n \in Nat
    BY DEF Entry, WakeEntry, TypeOK
  <2>2. /\ entries' = Append(entries, x) /\ pending' = [pending EXCEPT ![KeyOf[c]] = n + 1]
        /\ awaits' = [awaits EXCEPT ![c] = n + 1] /\ hand' = hand
        /\ ~Open(pending[KeyOf[c]]) /\ lock' = c /\ call' = [call EXCEPT ![c] = "writing"]
    BY <1>3 DEF Enqueue
  <2> HIDE DEF x
  <2>3. /\ entries' \in Seq(WakeEntry) /\ Len(entries') = n + 1 /\ entries'[n + 1] = x
        /\ \A d \in DOMAIN entries : entries'[d] = entries[d]
        /\ DOMAIN entries = 1..n /\ DOMAIN entries' = 1..n+1
    BY <2>1, <2>2 DEF TypeOK
  <2>4. /\ call' \in [Calls -> Answers \union {"new", "writing", "rewriting", "waiting"}]
        /\ awaits' \in [Calls -> 0..n+1] /\ pending' \in [Keys -> 0..n+1]
        /\ \A d \in Calls : call'[d] \in {"writing", "rewriting", "waiting"} => awaits'[d] # 0
    <3>1. call' \in [Calls -> Answers \union {"new", "writing", "rewriting", "waiting"}]
      BY <2>2 DEF TypeOK
    <3>2. awaits' \in [Calls -> 0..n+1] /\ pending' \in [Keys -> 0..n+1]
      BY <2>1, <2>2 DEF TypeOK
    <3>3. \A d \in Calls : call'[d] \in {"writing", "rewriting", "waiting"} => awaits'[d] # 0
      BY <2>1, <2>2 DEF TypeOK
    <3>4. QED
      BY <3>1, <3>2, <3>3
  <2>5. TypeOK'
    <3>1. hand' \in 0..n+1 /\ lock' \in Calls \union {"worker", "free"}
      BY <2>1, <2>2 DEF TypeOK
    <3>2. UNCHANGED <<running, task, stopping, journal, late, owed, stops, crashes>>
      BY <1>3 DEF Enqueue
    <3>3. QED
      BY <2>3, <2>4, <3>1, <3>2 DEF TypeOK
  <2>6. PendingByKey'
    BY <2>1, <2>2, <2>3 DEF PendingByKey, TypeOK
  <2>7. LiveIsPending'
    <3>1. SUFFICES ASSUME NEW e \in Live', Open(e)' PROVE pending'[entries'[e].key] = e
      BY DEF LiveIsPending
    <3>2. CASE e = n + 1
      BY <2>1, <2>2, <2>3, <3>2 DEF TypeOK
    <3>3. CASE e # n + 1
      <4>1. e \in Live /\ entries'[e] = entries[e] /\ Open(e) /\ entries[e] \in WakeEntry
        BY <2>2, <2>3, <3>1, <3>3 DEF Live, Queued, TypeOK, Open
      <4>2. pending[entries[e].key] = e /\ entries[e].key \in Keys
        BY <4>1 DEF LiveIsPending, WakeEntry
      <4>3. entries[e].key # KeyOf[c]
        BY <2>2, <4>1, <4>2
      <4>4. QED
        BY <2>2, <4>1, <4>2, <4>3 DEF TypeOK
    <3>4. QED
      BY <3>2, <3>3
  <2>8. HandTaken'
    BY <2>2, <2>3 DEF HandTaken, TypeOK
  <2>9. QED
    BY <1>3, <2>5, <2>6, <2>7, <2>8 DEF Enqueue, Asked, StoppedWorker
<1>4. ASSUME NEW c \in Calls, Written(c) PROVE WakeInv'
  <2>1. TypeOK'
    <3>1. /\ call' \in [Calls -> Answers \union {"new", "writing", "rewriting", "waiting"}]
          /\ \A d \in Calls : call'[d] \in {"writing", "rewriting", "waiting"} => awaits'[d] # 0
      BY <1>4 DEF Written, TypeOK
    <3>2. late' = late /\ journal' \subseteq Row /\ \A r, s \in journal' : r.key = s.key => r = s
      BY <1>4, WriteTypes DEF Written
    <3>3. task' \in Tasks /\ owed' \subseteq Keys
      BY <1>4 DEF Written, TypeOK, Notified, Tasks
    <3>4. QED
      BY <1>4, <3>1, <3>2, <3>3 DEF Written, TypeOK
  <2>2. QED
    BY <1>4, <2>1 DEF Written, PendingByKey, LiveIsPending, HandTaken, StoppedWorker, Live, Queued, Open,
                      TypeOK, Notified
<1>5. ASSUME NEW c \in Calls, CancelWrite(c) PROVE WakeInv'
  <2>1. TypeOK'
    <3>1. /\ call' \in [Calls -> Answers \union {"new", "writing", "rewriting", "waiting"}]
          /\ awaits' \in [Calls -> 0..Len(entries)]
          /\ \A d \in Calls : call'[d] \in {"writing", "rewriting", "waiting"} => awaits'[d] # 0
      BY <1>5 DEF CancelWrite, TypeOK, Answers
    <3>2. \A rows \in late' \union {journal} :
            rows \subseteq Row /\ \A r, s \in rows : r.key = s.key => r = s
      <4>1. late' \subseteq late \union {Rows}
        BY <1>5 DEF CancelWrite
      <4>2. \A rows \in late \union {journal} :
              rows \subseteq Row /\ \A r, s \in rows : r.key = s.key => r = s
        BY DEF TypeOK
      <4>3. Rows \subseteq Row /\ \A r, s \in Rows : r.key = s.key => r = s
        BY WriteTypes
      <4>4. QED
        BY <4>1, <4>2, <4>3
    <3>3. QED
      BY <1>5, <3>1, <3>2 DEF CancelWrite, TypeOK
  <2>2. QED
    BY <1>5, <2>1 DEF CancelWrite, PendingByKey, LiveIsPending, HandTaken, StoppedWorker, Live, Queued, Open
<1>6. ASSUME NEW rows \in late, LateWrite(rows) PROVE WakeInv'
  BY <1>6 DEF LateWrite, TypeOK, PendingByKey, LiveIsPending, HandTaken, StoppedWorker, Live, Queued, Open
<1>7. ASSUME NEW c \in Calls, CancelWait(c) PROVE WakeInv'
  <2>1. awaits[c] \in 0..Len(entries) /\ "cancelled" \in {"ran", "stopped", "cancelled"}
    BY DEF TypeOK
  <2>2. entries' = Resolved(awaits[c], "cancelled")
    BY <1>7 DEF CancelWait
  <2>3. entries' \in Seq(WakeEntry) /\ Len(entries') = Len(entries) /\ OnlySet
    BY <2>1, <2>2, ResolvedEntries DEF TypeOK, OnlySet
  <2>4. /\ call' \in [Calls -> Answers \union {"new", "writing", "rewriting", "waiting"}]
        /\ awaits' \in [Calls -> 0..Len(entries)]
        /\ \A d \in Calls : call'[d] \in {"writing", "rewriting", "waiting"} => awaits'[d] # 0
    BY <1>7 DEF CancelWait, TypeOK, Answers
  <2>5. TypeOK'
    BY <1>7, <2>3, <2>4 DEF CancelWait, TypeOK
  <2>6. pending' = pending /\ hand' = hand
    BY <1>7 DEF CancelWait
  <2>7. QED
    BY <1>7, <2>3, <2>5, <2>6, OnlySetKeeps DEF CancelWait, StoppedWorker
<1>8. ASSUME NEW c \in Calls, Answer(c) PROVE WakeInv'
  <2>1. entries[awaits[c]] \in WakeEntry /\ entries[awaits[c]].future # "open"
    BY <1>8 DEF Answer, TypeOK, Open
  <2>2. QED
    <3>1. entries[awaits[c]].future \in Answers
      BY <2>1 DEF WakeEntry, Answers
    <3>2. /\ call' \in [Calls -> Answers \union {"new", "writing", "rewriting", "waiting"}]
          /\ awaits' \in [Calls -> 0..Len(entries)]
          /\ \A d \in Calls : call'[d] \in {"writing", "rewriting", "waiting"} => awaits'[d] # 0
      <4>1. call'[c] \in Answers /\ call'[c] \notin {"writing", "rewriting", "waiting"}
        BY <1>8, <3>1 DEF Answer, TypeOK, Answers
      <4>2. QED
        BY <1>8, <3>1, <4>1 DEF Answer, TypeOK
    <3>3. TypeOK'
      BY <1>8, <3>2 DEF Answer, TypeOK
    <3>4. QED
      BY <1>8, <3>3 DEF Answer, PendingByKey, LiveIsPending, HandTaken, StoppedWorker, Live, Queued, Open
<1>9. ASSUME Sleep PROVE WakeInv'
  BY <1>9 DEF Sleep, TypeOK, Tasks, PendingByKey, LiveIsPending, HandTaken, StoppedWorker,
              Live, Queued, Open
<1>10. ASSUME Take PROVE WakeInv'
  <2>1. PICK e \in Queued : hand' = e /\ entries' = [entries EXCEPT ![e].queued = FALSE]
    BY <1>10 DEF Take
  <2> DEFINE r == [entries[e] EXCEPT !.queued = FALSE]
  <2>2. e \in DOMAIN entries /\ entries[e] \in WakeEntry
    BY DEF Queued, TypeOK
  <2>3. /\ r \in WakeEntry /\ r.key = entries[e].key /\ ~r.queued
        /\ r.future = entries[e].future
    BY <2>2 DEF WakeEntry
  <2>4. entries' = [entries EXCEPT ![e] = r]
    BY <2>1
  <2> HIDE DEF r
  <2>5. /\ entries' \in Seq(WakeEntry) /\ Len(entries') = Len(entries)
        /\ DOMAIN entries' = DOMAIN entries
        /\ \A d \in DOMAIN entries : /\ entries'[d].key = entries[d].key
                                      /\ entries'[d].future = entries[d].future
                                      /\ entries'[d].queued => entries[d].queued
        /\ ~entries'[e].queued
    BY <2>2, <2>3, <2>4 DEF TypeOK
  <2>6. TypeOK'
    <3>1. hand' \in 0..Len(entries)
      BY <2>1, <2>2 DEF TypeOK
    <3>2. QED
      BY <1>10, <2>5, <3>1, WorkerTypes DEF Take, TypeOK, Tasks
  <2>7. Live' \subseteq Live /\ Live \subseteq DOMAIN entries
    BY <2>1, <2>5 DEF Live, Queued, TypeOK
  <2>8. PendingByKey' /\ LiveIsPending' /\ HandTaken'
    BY <1>10, <2>1, <2>5, <2>7 DEF Take, TypeOK, PendingByKey, LiveIsPending, HandTaken, Open
  <2>9. StoppedWorker'
    <3>1. hand' # 0 /\ task' = "calling" /\ lock' = "free" /\ stopping' = stopping
      BY <1>10, <2>1, <2>2 DEF Take, TypeOK
    <3>2. ~stopping
      BY <1>10 DEF Take, StoppedWorker
    <3>3. QED
      BY <3>1, <3>2 DEF StoppedWorker
  <2>10. QED
    BY <2>6, <2>8, <2>9
<1>11. ASSUME CallbackEnds PROVE WakeInv'
  <2>1. ~stopping /\ owed' \subseteq Keys /\ hand \in 0..Len(entries)
    BY <1>11 DEF CallbackEnds, StoppedWorker, TypeOK
  <2>2. CASE lock = "free" /\ hand # 0
    <3>1. entries' = Resolved(hand, "ran") /\ Closed
      BY <1>11, <2>2 DEF CallbackEnds
    <3>2. entries' \in Seq(WakeEntry) /\ Len(entries') = Len(entries) /\ OnlySet
      BY <2>1, <3>1, ResolvedEntries DEF TypeOK, OnlySet
    <3>3. /\ PendingByKey' /\ LiveIsPending' /\ HandTaken'
          /\ pending' \in [Keys -> 0..Len(entries)] /\ hand' = 0
          /\ \/ lock' = "free" /\ task' = "top"
             \/ lock' = "worker" /\ task' = "journalling"
      BY <2>1, <2>2, <3>1, <3>2, ClosedKeeps
    <3>4. TypeOK'
      <4>1. UNCHANGED <<call, awaits, running, stopping, journal, late, stops, crashes>>
        BY <1>11 DEF CallbackEnds
      <4>2. QED
        <5>1. /\ running' \in BOOLEAN /\ stopping' \in BOOLEAN /\ stops' \in Nat
              /\ hand' \in 0..Len(entries) /\ task' \in Tasks
              /\ lock' \in Calls \union {"worker", "free"}
          BY <2>1, <3>3, <4>1 DEF TypeOK, Tasks
        <5>2. QED
          BY <2>1, <3>2, <3>3, <4>1, <5>1, WorkerTypes
    <3>5. QED
      BY <1>11, <2>1, <3>3, <3>4 DEF CallbackEnds, StoppedWorker
  <2>3. CASE lock # "free"
    BY <1>11, <2>1, <2>3 DEF CallbackEnds, TypeOK, Tasks, PendingByKey, LiveIsPending, HandTaken,
                            StoppedWorker, Live, Queued, Open
  <2>4. QED
    BY <1>11, <2>2, <2>3 DEF CallbackEnds, StoppedWorker
<1>12. ASSUME Settle PROVE WakeInv'
  <2>1. hand \in 0..Len(entries) /\ entries' = Resolved(hand, "ran")
    BY <1>12 DEF Settle, TypeOK
  <2>2. entries' \in Seq(WakeEntry) /\ Len(entries') = Len(entries) /\ OnlySet
    BY <2>1, ResolvedEntries DEF TypeOK, OnlySet
  <2>3. TypeOK'
    BY <1>12, <2>2, WorkerTypes DEF Settle, TypeOK, Tasks
  <2>4. QED
    BY <1>12, <2>2, <2>3, OnlySetKeeps DEF Settle, StoppedWorker
<1>13. ASSUME Close PROVE WakeInv'
  <2>1. OnlySet /\ ~stopping
    BY <1>13 DEF Close, OnlySet, StoppedWorker
  <2>2. /\ PendingByKey' /\ LiveIsPending' /\ HandTaken'
        /\ pending' \in [Keys -> 0..Len(entries)] /\ hand' = 0
        /\ \/ lock' = "free" /\ task' = "top"
           \/ lock' = "worker" /\ task' = "journalling"
    <3>1. entries' \in Seq(WakeEntry) /\ Len(entries') = Len(entries) /\ hand # 0
      BY <1>13 DEF Close, TypeOK, StoppedWorker
    <3>2. QED
      BY <1>13, <2>1, <3>1, ClosedKeeps DEF Close
  <2>3. TypeOK'
    <3>1. UNCHANGED <<call, awaits, entries, running, stopping, journal, late, owed, stops, crashes>>
      BY <1>13 DEF Close
    <3>2. QED
      <4>1. /\ running' \in BOOLEAN /\ stopping' \in BOOLEAN /\ stops' \in Nat
            /\ hand' \in 0..Len(entries) /\ task' \in Tasks /\ owed' \subseteq Keys
            /\ lock' \in Calls \union {"worker", "free"}
            /\ entries' \in Seq(WakeEntry) /\ Len(entries') = Len(entries)
        BY <2>2, <3>1 DEF TypeOK, Tasks
      <4>2. QED
        BY <2>2, <3>1, <4>1, WorkerTypes
  <2>4. QED
    BY <1>13, <2>1, <2>2, <2>3 DEF Close, StoppedWorker
<1>14. ASSUME WorkerWritten PROVE WakeInv'
  <2>1. TypeOK'
    <3>1. journal' \subseteq Row /\ \A r, s \in journal' : r.key = s.key => r = s
      BY <1>14, WriteTypes DEF WorkerWritten
    <3>2. task' \in Tasks /\ lock' \in Calls \cup {"worker", "free"}
      BY <1>14 DEF WorkerWritten, Tasks
    <3>3. QED
      BY SMTT(30), <1>14, <3>1, <3>2 DEF WorkerWritten, TypeOK
  <2>2. QED
    BY <1>14, <2>1 DEF WorkerWritten, PendingByKey, LiveIsPending, HandTaken, StoppedWorker, Live, Queued,
                       Open, TypeOK
<1>15. ASSUME CallbackCancelled PROVE WakeInv'
  <2>1. hand \in 0..Len(entries) /\ entries' = Resolved(hand, "stopped")
    BY <1>15 DEF CallbackCancelled, TypeOK
  <2>2. entries' \in Seq(WakeEntry) /\ Len(entries') = Len(entries) /\ OnlySet
    BY <2>1, ResolvedEntries DEF TypeOK, OnlySet
  <2>3. TypeOK'
    <3>1. /\ task' = "dead" /\ hand' = 0
          /\ UNCHANGED <<call, awaits, pending, running, lock, stopping, journal, late, owed,
                         stops, crashes>>
      BY <1>15 DEF CallbackCancelled
    <3>2. QED
      <4>1. /\ running' \in BOOLEAN /\ stopping' \in BOOLEAN /\ stops' \in Nat
            /\ pending' \in [Keys -> 0..Len(entries)] /\ owed' \subseteq Keys
            /\ lock' \in Calls \union {"worker", "free"}
        BY <3>1 DEF TypeOK
      <4>2. hand' \in 0..Len(entries) /\ task' \in Tasks
        BY <2>1, <3>1 DEF Tasks
      <4>3. entries' \in Seq(WakeEntry) /\ Len(entries') = Len(entries)
        BY <2>2
      <4>4. QED
        BY <3>1, <4>1, <4>2, <4>3, WorkerTypes
  <2>4. QED
    BY <1>15, <2>2, <2>3, OnlySetKeeps DEF CallbackCancelled, StoppedWorker
<1>16. ASSUME Start PROVE WakeInv'
  <2>1. PICK rows \in InOrder(IF PendingKeys = {} THEN journal ELSE {}) :
          /\ entries' = entries \o [i \in DOMAIN rows |-> Entry(rows[i].key, rows[i].priority)]
          /\ pending' = [k \in Keys |->
                           IF \E i \in DOMAIN rows : rows[i].key = k
                           THEN Len(entries) + CHOOSE i \in DOMAIN rows : rows[i].key = k
                           ELSE pending[k]]
    BY <1>16 DEF Start
  <2>2. PICK n \in Nat : /\ DOMAIN rows = 1..n /\ rows \in Seq(Row)
                         /\ PendingKeys # {} => n = 0
                         /\ \A i, j \in 1..n : i # j => rows[i].key # rows[j].key
    BY RestoredRows
  <2> DEFINE m == Len(entries)
             x == [i \in 1..n |-> Entry(rows[i].key, rows[i].priority)]
  <2>3. m \in Nat /\ DOMAIN entries = 1..m
    BY DEF TypeOK
  <2>4. \A i \in 1..n : rows[i] \in Row
    BY <2>2
  <2>5. x \in Seq(WakeEntry) /\ Len(x) = n /\ \A i \in 1..n : x[i].key = rows[i].key
    <3>1. \A i \in 1..n : /\ Entry(rows[i].key, rows[i].priority) \in WakeEntry
                          /\ Entry(rows[i].key, rows[i].priority).key = rows[i].key
      BY <2>4 DEF Entry, WakeEntry, Row
    <3>2. QED
      BY <2>2, <3>1
  <2>6. entries' = entries \o x
    BY <2>1, <2>2
  <2> HIDE DEF x
  <2>7. /\ entries' \in Seq(WakeEntry) /\ Len(entries') = m + n
        /\ DOMAIN entries' = 1..m+n
        /\ \A e \in 1..m : entries'[e] = entries[e]
        /\ \A e \in m+1..m+n : entries'[e] = x[e - m]
    <3>1. entries \in Seq(WakeEntry)
      BY DEF TypeOK
    <3>2. /\ entries \o x \in Seq(WakeEntry) /\ Len(entries \o x) = Len(entries) + Len(x)
          /\ \A e \in 1..Len(entries) + Len(x) :
               (entries \o x)[e] = IF e <= Len(entries) THEN entries[e] ELSE x[e - Len(entries)]
      BY ZenonT(30), <2>5, <3>1, ConcatProperties
    <3>3. Len(x) = n /\ Len(entries) = m
      BY <2>5
    <3>4. QED
      BY <2>2, <2>3, <2>6, <3>2, <3>3
  <2>8. ASSUME NEW i \in 1..n PROVE pending'[rows[i].key] = m + i /\ rows[i].key \in Keys
    <3>1. rows[i].key \in Keys
      BY <2>4 DEF Row
    <3>2. (CHOOSE j \in 1..n : rows[j].key = rows[i].key) = i
      BY <2>2
    <3>3. QED
      BY <2>1, <2>2, <3>1, <3>2
  <2>9. ASSUME NEW k \in Keys
        PROVE  \/ \E i \in 1..n : rows[i].key = k /\ pending'[k] = m + i
               \/ pending'[k] = pending[k] /\ \A i \in 1..n : rows[i].key # k
    BY <2>1, <2>2, <2>8
  <2>10. pending' \in [Keys -> 0..m+n]
    <3>1. DOMAIN pending' = Keys /\ pending' = [k \in Keys |-> pending'[k]]
      BY <2>1
    <3>2. \A k \in Keys : pending'[k] \in 0..m+n
      <4>1. SUFFICES ASSUME NEW k \in Keys PROVE pending'[k] \in 0..m+n
        OBVIOUS
      <4>2. pending[k] \in 0..m
        BY DEF TypeOK
      <4>3. QED
        BY <2>2, <2>3, <2>9, <4>2
    <3>3. QED
      BY <3>1, <3>2
  <2>11. TypeOK'
    <3>1. awaits \in [Calls -> 0..m+n] /\ hand \in 0..m+n
      BY <2>2, <2>3 DEF TypeOK
    <3>2. QED
      BY <1>16, <2>7, <2>10, <3>1 DEF Start, TypeOK, Tasks
  <2>12. PendingByKey'
    <3>1. SUFFICES ASSUME NEW k \in Keys, pending'[k] # 0 PROVE entries'[pending'[k]].key = k
      BY DEF PendingByKey
    <3>2. CASE \E i \in 1..n : rows[i].key = k /\ pending'[k] = m + i
      BY <2>3, <2>5, <2>7, <3>2
    <3>3. CASE pending'[k] = pending[k]
      BY <2>3, <2>7, <3>1, <3>3 DEF PendingByKey, TypeOK
    <3>4. QED
      BY <2>9, <3>2, <3>3
  <2>13. LiveIsPending'
    <3>1. SUFFICES ASSUME NEW e \in Live', Open(e)' PROVE pending'[entries'[e].key] = e
      BY DEF LiveIsPending
    <3>2. hand' = hand /\ e \in 1..m+n
      BY <1>16, <2>3, <2>7, <3>1 DEF Start, Live, Queued, TypeOK
    <3>3. CASE e \in 1..m
      <4>1. e \in Live /\ entries'[e] = entries[e] /\ Open(e) /\ entries[e] \in WakeEntry
        BY <2>3, <2>7, <3>1, <3>2, <3>3 DEF Live, Queued, TypeOK, Open
      <4>2. pending[entries[e].key] = e /\ entries[e].key \in Keys
        BY <4>1 DEF LiveIsPending, WakeEntry
      <4>3. n = 0
        BY <2>2, <3>3, <4>2 DEF PendingKeys
      <4>4. QED
        BY <2>9, <4>1, <4>2, <4>3
    <3>4. CASE e \in m+1..m+n
      <4>1. e - m \in 1..n /\ e = m + (e - m)
        BY <2>2, <2>3, <3>4
      <4>2. entries'[e].key = rows[e - m].key
        BY <2>5, <2>7, <3>4, <4>1
      <4>3. QED
        BY <2>8, <4>1, <4>2
    <3>5. QED
      BY <2>3, <3>2, <3>3, <3>4
  <2>14. HandTaken'
    BY <1>16, <2>3, <2>7 DEF Start, HandTaken, TypeOK
  <2>15. QED
    BY <1>16, <2>11, <2>12, <2>13, <2>14 DEF Start, StoppedWorker
<1>17. ASSUME StopBegin PROVE WakeInv'
  <2>1. hand \in 0..Len(entries)
    BY DEF TypeOK
  <2>2. entries' \in Seq(WakeEntry) /\ Len(entries') = Len(entries) /\ OnlySet
    BY <1>17, <2>1, ResolvedEntries DEF StopBegin, TypeOK, OnlySet
  <2>3. hand' = 0 /\ stopping' = TRUE /\ running' = FALSE /\ stops' = stops + 1
    BY <1>17 DEF StopBegin
  <2>4. /\ PendingByKey' /\ LiveIsPending' /\ HandTaken'
        /\ pending' \in [Keys -> 0..Len(entries)]
        /\ \/ lock' = "free" /\ task' \in {"none", "dead"}
           \/ lock' = "worker" /\ task' = "lastwrite"
    <3>1. CASE task = "settling" /\ IsPending(hand)
      BY <1>17, <2>2, <2>3, <3>1, DroppedKeeps DEF StopBegin
    <3>2. CASE ~(task = "settling" /\ IsPending(hand))
      BY <1>17, <2>2, <2>3, <3>2, OnlySetKeeps DEF StopBegin, TypeOK
    <3>3. QED
      BY <3>1, <3>2
  <2>5. TypeOK'
    <3>1. UNCHANGED <<call, awaits, journal, late, owed, crashes>>
      BY <1>17 DEF StopBegin
    <3>2. QED
      <4>1. /\ running' \in BOOLEAN /\ stopping' \in BOOLEAN /\ stops' \in Nat
            /\ hand' \in 0..Len(entries) /\ task' \in Tasks /\ owed' \subseteq Keys
            /\ lock' \in Calls \union {"worker", "free"}
        <5>1. running' \in BOOLEAN /\ stopping' \in BOOLEAN
          BY <2>3
        <5>2. stops' \in Nat /\ hand' \in 0..Len(entries) /\ owed' \subseteq Keys
          BY <2>3, <3>1 DEF TypeOK
        <5>3. task' \in Tasks /\ lock' \in Calls \union {"worker", "free"}
          BY <2>4 DEF Tasks
        <5>4. QED
          BY <5>1, <5>2, <5>3
      <4>2. QED
        BY <2>2, <2>4, <3>1, <4>1, WorkerTypes
  <2>6. QED
    BY <2>3, <2>4, <2>5 DEF StoppedWorker
<1>18. ASSUME StopEnd PROVE WakeInv'
  <2> DEFINE r(e) == [entries[e] EXCEPT !.queued = FALSE,
                        !.future = IF IsPending(e) /\ Open(e) THEN "stopped" ELSE @]
  <2>1. \A e \in DOMAIN entries : r(e) \in WakeEntry /\ ~r(e).queued
    <3>1. \A e \in DOMAIN entries : entries[e] \in WakeEntry
      BY DEF TypeOK
    <3>2. QED
      BY <3>1 DEF WakeEntry
  <2>2. entries' = [e \in DOMAIN entries |-> r(e)] /\ pending' = [k \in Keys |-> 0] /\ hand = 0
    BY <1>18 DEF StopEnd, StoppedWorker
  <2> HIDE DEF r
  <2>3. /\ entries' \in Seq(WakeEntry) /\ Len(entries') = Len(entries)
        /\ DOMAIN entries' = DOMAIN entries
        /\ \A e \in DOMAIN entries : ~entries'[e].queued
    <3>1. DOMAIN entries = 1..Len(entries) /\ Len(entries) \in Nat
      BY DEF TypeOK
    <3>2. QED
      BY <2>1, <2>2, <3>1
  <2>4. TypeOK'
    <3>1. pending' \in [Keys -> 0..Len(entries)]
      BY <2>2 DEF TypeOK
    <3>2. QED
      BY <1>18, <2>3, <3>1, WorkerTypes DEF StopEnd, TypeOK, Tasks
  <2>5. PendingByKey' /\ LiveIsPending' /\ HandTaken'
    BY <1>18, <2>2, <2>3 DEF StopEnd, PendingByKey, LiveIsPending, HandTaken, Live, Queued
  <2>6. QED
    BY <1>18, <2>4, <2>5 DEF StopEnd, StoppedWorker
<1>19. ASSUME Crash PROVE WakeInv'
  <2>1. entries' = <<>> /\ pending' = [k \in Keys |-> 0] /\ hand' = 0 /\ Queued' = {}
    BY <1>19 DEF Crash, Queued
  <2>2. /\ call' \in [Calls -> Answers \union {"new", "writing", "rewriting", "waiting"}]
        /\ \A c \in Calls : call'[c] \notin {"writing", "rewriting", "waiting"}
    BY <1>19 DEF Crash, TypeOK, Answers
  <2>3. entries' \in Seq(WakeEntry) /\ Len(entries') = 0
    BY <2>1
  <2>4. TypeOK'
    <3>1. /\ awaits' \in [Calls -> 0..0] /\ pending' \in [Keys -> 0..0] /\ hand' \in 0..0
          /\ lock' \in Calls \union {"worker", "free"} /\ task' \in Tasks
          /\ running' \in BOOLEAN /\ stopping' \in BOOLEAN /\ crashes' \in Nat
      <4>1. awaits' \in [Calls -> 0..0] /\ pending' \in [Keys -> 0..0]
        BY <1>19 DEF Crash
      <4>2. QED
        <5>1. hand' \in 0..0 /\ lock' \in Calls \union {"worker", "free"} /\ task' \in Tasks
          BY <1>19 DEF Crash, Tasks
        <5>2. running' \in BOOLEAN /\ stopping' \in BOOLEAN
          BY <1>19 DEF Crash
        <5>3. crashes' \in Nat
          BY <1>19 DEF Crash, TypeOK
        <5>4. QED
          BY <4>1, <5>1, <5>2, <5>3
    <3>2. \A rows \in late' \union {journal'} :
            rows \subseteq Row /\ \A r, s \in rows : r.key = s.key => r = s
      BY <1>19 DEF Crash, TypeOK
    <3>3. owed' \subseteq Keys /\ stops' \in Nat
      BY <1>19 DEF Crash, TypeOK
    <3>4. QED
      BY <2>2, <2>3, <3>1, <3>2, <3>3 DEF TypeOK
  <2>5. QED
    BY <1>19, <2>1, <2>4 DEF Crash, PendingByKey, LiveIsPending, HandTaken, StoppedWorker, Live
<1>20. ASSUME UNCHANGED vars PROVE WakeInv'
  BY <1>20 DEF vars, TypeOK, PendingByKey, LiveIsPending, HandTaken, StoppedWorker, Live, Queued, Open
<1>21. QED
  BY <1>1, <1>2, <1>3, <1>4, <1>5, <1>6, <1>7, <1>8, <1>9, <1>10, <1>11, <1>12, <1>13, <1>14,
     <1>15, <1>16, <1>17, <1>18, <1>19, <1>20 DEF Next, Submit, Returns, Work
-------------------------------------------------------------------------------

\* The coordinator starts with the inductive invariant.
LEMMA WakeInit == Init => WakeInv
<1> SUFFICES ASSUME Init PROVE WakeInv
  OBVIOUS
<1>1. entries = <<>> /\ entries \in Seq(WakeEntry) /\ Len(entries) = 0 /\ Queued = {}
  BY DEF Init, Queued
<1>2. awaits \in [Calls -> 0..0] /\ pending \in [Keys -> 0..0]
  BY DEF Init
<1>3. call \in [Calls -> Answers \union {"new", "writing", "rewriting", "waiting"}]
  BY DEF Init
<1>4. TypeOK
  <2>1. hand \in 0..0 /\ lock \in Calls \union {"worker", "free"} /\ task \in Tasks
    BY DEF Init, Tasks
  <2>2. running \in BOOLEAN /\ stopping \in BOOLEAN
    BY DEF Init
  <2>3. owed \subseteq Keys /\ stops \in Nat /\ crashes \in Nat
    BY DEF Init
  <2>4. \A c \in Calls : call[c] \notin {"writing", "rewriting", "waiting"}
    BY DEF Init
  <2>5. late \union {journal} = {{}}
    BY DEF Init
  <2>6. QED
    BY <1>1, <1>2, <1>3, <2>1, <2>2, <2>3, <2>4, <2>5 DEF TypeOK
<1>5. QED
  BY <1>1, <1>4 DEF Init, WakeInv, PendingByKey, LiveIsPending, HandTaken, StoppedWorker, Live

\* Every variable keeps its type.
THEOREM WakeTypes == Spec => []TypeOK
<1>1. Init => WakeInv
  BY WakeInit
<1>2. WakeInv /\ [Next]_vars => WakeInv'
  BY WakeStep
<1>3. WakeInv => TypeOK
  BY DEF WakeInv
<1>4. QED
  BY <1>1, <1>2, <1>3, PTL DEF Spec

\* Of the entries of a key in the heap or in the worker's hand, one at most has a future
\* left to set: calls that wait for one key share one run of it.
THEOREM OneRun == Spec => []OneRunShared
<1>1. Init => WakeInv
  BY WakeInit
<1>2. WakeInv /\ [Next]_vars => WakeInv'
  BY WakeStep
<1>3. WakeInv => OneRunShared
  BY DEF WakeInv, LiveIsPending, OneRunShared, Live
<1>4. QED
  BY <1>1, <1>2, <1>3, PTL DEF Spec

-------------------------------------------------------------------------------
(* The room kept for the heartbeat.                                            *)

\* The wakes of the gateway are of three kinds, and max_pending has room for them.
GatewayWakes ==
  /\ \A k \in Keys : KindOf[k] \in {"heartbeat", "proactive", "cron"}
  /\ MaxPending >= 3 /\ "callback" \notin Cancels

InKind(S, kind) == {k \in S : KindOf[k] = kind}
KeysIn(rows) == {r.key : r \in rows}

InQuota(S) == \A kind \in {"heartbeat", "proactive", "cron"} :
                Cardinality(InKind(S, kind)) <= Quota(kind)

\* No quota is exceeded, by what is pending or by what a restart would make pending.
QuotaKept == InQuota(PendingKeys) /\ \A rows \in late \union {journal} : InQuota(KeysIn(rows))

\* Unless stop has it, what is pending waits in the heap or is in the worker's hand.
PendingIsLive == ~stopping => \A k \in PendingKeys : pending[k] \in Live

\* The worker has an entry in hand only where its steps need one.
HandNeeded == task \notin {"calling", "settling", "closing"} => hand = 0

RoomInv == QuotaKept /\ PendingIsLive /\ HandNeeded

\* A quota is a number.
LEMMA QuotaType == \A kind : Quota(kind) \in Nat \ {0}
<1>1. \A n \in Int : Max({1, n}) \in Nat \ {0}
  BY DEF Max
<1>2. QED
  BY <1>1, WakeAssumption DEF Quota

\* Fewer wakes stay within the quotas.
LEMMA InQuotaSubset ==
  ASSUME NEW S, NEW T, T \subseteq S, S \subseteq Keys, InQuota(S)
  PROVE  InQuota(T)
<1> SUFFICES ASSUME NEW kind \in {"heartbeat", "proactive", "cron"}
             PROVE  Cardinality(InKind(T, kind)) <= Quota(kind)
  BY DEF InQuota
<1>1. InKind(S, kind) \subseteq Keys /\ InKind(T, kind) \subseteq InKind(S, kind)
  BY DEF InKind
<1>2. IsFiniteSet(InKind(S, kind))
  BY <1>1, WakeAssumption, FS_Subset
<1>3. /\ Cardinality(InKind(T, kind)) <= Cardinality(InKind(S, kind))
      /\ Cardinality(InKind(T, kind)) \in Nat /\ Cardinality(InKind(S, kind)) \in Nat
  BY <1>1, <1>2, FS_Subset, FS_CardinalityType
<1>4. Cardinality(InKind(S, kind)) <= Quota(kind)
  BY DEF InQuota
<1>5. Quota(kind) \in Int
  BY QuotaType
<1>6. QED
  BY <1>3, <1>4, <1>5

\* What the journal writes holds the keys that are pending.
LEMMA KeysInRows == KeysIn(Rows) = PendingKeys
<1> DEFINE row(k) == [key |-> k, priority |-> entries[pending[k]].priority, sequence |-> pending[k]]
<1>1. Rows = {row(k) : k \in PendingKeys} /\ \A k \in PendingKeys : row(k).key = k
  BY DEF Rows
<1> HIDE DEF row
<1>2. QED
  BY <1>1 DEF KeysIn

\* A step that makes nothing pending and writes no journal but the rows of now.
LEMMA FewerPending ==
  ASSUME QuotaKept, PendingKeys' \subseteq PendingKeys,
         \A rows \in late' \union {journal'} : rows \in late \union {journal, Rows}
  PROVE  QuotaKept'
<1>1. InQuota(PendingKeys')
  <2>1. PendingKeys \subseteq Keys
    BY DEF PendingKeys
  <2>2. QED
    BY <2>1, InQuotaSubset DEF QuotaKept
<1>2. \A rows \in late' \union {journal'} : InQuota(KeysIn(rows))
  BY KeysInRows DEF QuotaKept
<1>3. QED
  BY <1>1, <1>2 DEF QuotaKept, InQuota, InKind, KeysIn

\* Together the quotas leave one place, and the heartbeat's is in nobody else's.
LEMMA RoomFollows == ASSUME GatewayWakes, WakeInv, RoomInv PROVE HeartbeatHasRoom
<1> SUFFICES ASSUME ~stopping, NEW k \in Keys, KindOf[k] = "heartbeat",
                    ~\E e \in Queued : KindOf[entries[e].key] = "heartbeat",
                    hand = 0 \/ KindOf[entries[hand].key] # "heartbeat"
             PROVE  Accepts(k)
  BY DEF HeartbeatHasRoom
<1> DEFINE H == OfKind("heartbeat")
           P == OfKind("proactive")
           C == OfKind("cron")
<1>1. H = {}
  BY DEF RoomInv, PendingIsLive, WakeInv, PendingByKey, OfKind, PendingKeys, Live
<1>2. PendingKeys = P \union C
  BY <1>1 DEF OfKind, GatewayWakes, PendingKeys
<1>3. IsFiniteSet(P) /\ IsFiniteSet(C)
  <2>1. P \subseteq Keys /\ C \subseteq Keys
    BY DEF OfKind, PendingKeys
  <2>2. QED
    BY <2>1, WakeAssumption, FS_Subset
<1>4. Quota("heartbeat") = 1 /\ Quota("proactive") = 1 /\ Quota("cron") = MaxPending - 2
  <2>1. MaxPending \in Nat /\ MaxPending - 2 >= 1
    BY WakeAssumption DEF GatewayWakes
  <2>2. Max({1, MaxPending - 2}) = MaxPending - 2
    BY <2>1 DEF Max
  <2>3. QED
    BY <2>1, <2>2 DEF Quota
<1>5. Cardinality(P) <= 1 /\ Cardinality(C) <= MaxPending - 2
  BY <1>4 DEF RoomInv, QuotaKept, InQuota, InKind, OfKind
<1>6. Cardinality(PendingKeys) < MaxPending
  <2>1. /\ Cardinality(PendingKeys) = Cardinality(P) + Cardinality(C) - Cardinality(P \cap C)
        /\ IsFiniteSet(P \cap C)
    BY <1>2, <1>3, FS_Union, FS_Intersection
  <2>2. /\ Cardinality(P) \in Nat /\ Cardinality(C) \in Nat /\ Cardinality(P \cap C) \in Nat
    BY <1>3, <2>1, FS_CardinalityType
  <2>3. QED
    BY <1>5, <2>1, <2>2, WakeAssumption
<1>7. Cardinality(H) = 0
  BY <1>1, FS_EmptySet
<1>8. QED
  BY <1>4, <1>6, <1>7 DEF Accepts

-------------------------------------------------------------------------------
(* Every step keeps the room.                                                  *)

\* A step that leaves what is pending pending, and what is live live.
LEMMA LiveStay ==
  ASSUME RoomInv, pending' = pending, stopping' = stopping, Live \subseteq Live', HandNeeded',
         \A rows \in late' \union {journal'} : rows \in late \union {journal, Rows}
  PROVE  RoomInv'
<1>1. PendingKeys' = PendingKeys
  BY DEF PendingKeys
<1>2. QuotaKept'
  BY <1>1, FewerPending DEF RoomInv
<1>3. PendingIsLive'
  BY <1>1 DEF RoomInv, PendingIsLive
<1>4. QED
  BY <1>2, <1>3 DEF RoomInv

\* What the thread writes is the rows of now, or nothing.
LEMMA WrittenRows == Write => journal' \in {journal, Rows}
BY DEF Write

\* The finally block: what else is pending is another entry, which is live.
LEMMA ClosedKeepsRoom ==
  ASSUME WakeInv, RoomInv, OnlySet, Closed, hand # 0, UNCHANGED <<stopping, journal, late>>
  PROVE  RoomInv'
<1>1. hand' = 0 /\ task' \in {"journalling", "top"} /\ Queued' = Queued
  BY DEF Closed, OnlySet, Queued
<1>2. PendingKeys' \subseteq PendingKeys
  BY DEF Closed, PendingKeys, WakeInv, TypeOK
<1>3. QuotaKept'
  BY <1>2, FewerPending DEF RoomInv
<1>4. ASSUME ~stopping, NEW k \in PendingKeys' PROVE pending'[k] \in Queued
  <2>1. k \in Keys /\ pending'[k] = pending[k] /\ pending[k] # 0
    BY <1>4 DEF Closed, PendingKeys, WakeInv, TypeOK
  <2>2. pending[k] # hand
    BY <1>4, <2>1 DEF Closed, PendingKeys, WakeInv, TypeOK, PendingByKey, IsPending
  <2>3. QED
    BY <1>4, <2>1, <2>2 DEF RoomInv, PendingIsLive, PendingKeys, Live
<1>5. PendingIsLive'
  BY <1>1, <1>4 DEF PendingIsLive, Live
<1>6. QED
  BY <1>1, <1>3, <1>5 DEF RoomInv, HandNeeded

\* Every step keeps the room.
LEMMA RoomStep == ASSUME GatewayWakes, WakeInv, RoomInv, [Next]_vars PROVE RoomInv'
<1> DEFINE Same == \A rows \in late' \union {journal'} : rows \in late \union {journal, Rows}
<1>1. ASSUME NEW c \in Calls, Refuse(c) \/ Answer(c) PROVE RoomInv'
  <2>1. UNCHANGED <<entries, pending, task, hand, stopping, journal, late>>
    BY <1>1 DEF Refuse, Answer
  <2>2. QED
    BY <2>1, LiveStay DEF Live, Queued, RoomInv, HandNeeded
<1>2. ASSUME NEW c \in Calls, Coalesce(c) PROVE RoomInv'
  <2>1. UNCHANGED <<pending, task, hand, stopping, journal, late>>
    BY <1>2 DEF Coalesce
  <2>2. Queued' = Queued
    <3> DEFINE e == pending[KeyOf[c]]
               x == [entries[e] EXCEPT !.priority = IF Priority[c] < entries[e].priority
                                                    THEN Priority[c] ELSE @]
    <3>1. e \in DOMAIN entries /\ entries[e] \in WakeEntry
      <4>1. entries \in Seq(WakeEntry) /\ e \in 0..Len(entries)
        BY WakeAssumption DEF WakeInv, TypeOK
      <4>2. e # 0
        BY <1>2 DEF Coalesce, Open
      <4>3. QED
        BY <4>1, <4>2
    <3>2. x.queued = entries[e].queued
      BY <3>1 DEF WakeEntry
    <3>3. entries' = [entries EXCEPT ![e] = x] \/ entries' = entries
      BY <1>2 DEF Coalesce
    <3> HIDE DEF x, e
    <3>4. QED
      BY <3>1, <3>2, <3>3 DEF Queued, WakeInv, TypeOK
  <2>3. QED
    BY <2>1, <2>2, LiveStay DEF Live, RoomInv, HandNeeded
<1>3. ASSUME NEW c \in Calls, Enqueue(c) PROVE RoomInv'
  <2> DEFINE n == Len(entries)
             k == KeyOf[c]
  <2>1. /\ k \in Keys /\ n \in Nat /\ Accepts(k)
        /\ pending' = [pending EXCEPT ![k] = n + 1]
        /\ UNCHANGED <<task, hand, stopping, journal, late>>
    <3>1. k \in Keys /\ n \in Nat
      BY WakeAssumption DEF WakeInv, TypeOK
    <3>2. QED
      BY <1>3, <3>1 DEF Enqueue
  <2>2. Queued \subseteq Queued' /\ n + 1 \in Queued'
    <3>1. entries' = Append(entries, Entry(k, Priority[c]))
      BY <1>3 DEF Enqueue
    <3>2. /\ entries \in Seq(WakeEntry) /\ Entry(k, Priority[c]) \in WakeEntry
          /\ Entry(k, Priority[c]).queued = TRUE
      BY <2>1, WakeAssumption DEF WakeInv, TypeOK, Entry, WakeEntry
    <3>3. QED
      BY <3>1, <3>2 DEF Queued
  <2>3. PendingKeys' = PendingKeys \union {k}
    BY <2>1 DEF PendingKeys, WakeInv, TypeOK
  <2>4. InQuota(PendingKeys')
    <3>1. SUFFICES ASSUME NEW kind \in {"heartbeat", "proactive", "cron"}
                   PROVE  Cardinality(InKind(PendingKeys \union {k}, kind)) <= Quota(kind)
      BY <2>3 DEF InQuota
    <3> DEFINE S == InKind(PendingKeys, kind)
    <3>2. Cardinality(S) <= Quota(kind) /\ S = OfKind(kind)
      BY DEF RoomInv, QuotaKept, InQuota, InKind, OfKind
    <3>3. CASE KindOf[k] # kind
      <4>1. InKind(PendingKeys \union {k}, kind) = S
        BY <3>3 DEF InKind
      <4>2. QED
        BY <3>2, <4>1
    <3>4. CASE KindOf[k] = kind
      <4>1. InKind(PendingKeys \union {k}, kind) = S \union {k}
        BY <3>4 DEF InKind
      <4>2. IsFiniteSet(S)
        <5>1. S \subseteq Keys
          BY DEF InKind, PendingKeys
        <5>2. QED
          BY <5>1, WakeAssumption, FS_Subset
      <4>3. Cardinality(S) \in Nat /\ Cardinality(S \union {k}) <= Cardinality(S) + 1
        <5>1. Cardinality(S) \in Nat
          BY <4>2, FS_CardinalityType
        <5>2. Cardinality(S \union {k}) = IF k \in S THEN Cardinality(S) ELSE Cardinality(S) + 1
          BY <4>2, FS_AddElement, Zenon
        <5>3. QED
          BY <5>1, <5>2
      <4>4. Cardinality(S) < Quota(kind)
        BY <2>1, <3>2, <3>4 DEF Accepts
      <4>5. Quota(kind) \in Int
        BY QuotaType
      <4>6. Cardinality(S \union {k}) \in Nat
        <5>1. S \union {k} \subseteq Keys
          BY <2>1 DEF InKind, PendingKeys
        <5>2. QED
          BY <5>1, WakeAssumption, FS_Subset, FS_CardinalityType
      <4>7. QED
        BY <4>1, <4>3, <4>4, <4>5, <4>6
    <3>5. QED
      BY <3>3, <3>4
  <2>5. QuotaKept'
    BY <2>1, <2>4 DEF RoomInv, QuotaKept, InQuota, InKind, KeysIn
  <2>6. PendingIsLive'
    BY <2>1, <2>2, <2>3 DEF RoomInv, PendingIsLive, PendingKeys, Live, WakeInv, TypeOK
  <2>7. QED
    BY <2>1, <2>5, <2>6 DEF RoomInv, HandNeeded
<1>4. ASSUME NEW c \in Calls, Written(c) \/ CancelWrite(c) PROVE RoomInv'
  <2>1. UNCHANGED <<entries, pending, hand, stopping>> /\ task' \in {task, Notified}
    BY <1>4 DEF Written, CancelWrite
  <2>2. Same
    BY <1>4, WrittenRows DEF Written, CancelWrite
  <2>3. HandNeeded'
    BY <2>1 DEF RoomInv, HandNeeded, Notified
  <2>4. QED
    BY <2>1, <2>2, <2>3, LiveStay DEF Live, Queued
<1>5. ASSUME NEW rows \in late, LateWrite(rows) PROVE RoomInv'
  <2>1. UNCHANGED <<entries, pending, task, hand, stopping>> /\ Same
    BY <1>5 DEF LateWrite
  <2>2. QED
    BY <2>1, LiveStay DEF Live, Queued, RoomInv, HandNeeded
<1>6. ASSUME NEW c \in Calls, CancelWait(c) PROVE RoomInv'
  <2>1. UNCHANGED <<pending, task, hand, stopping, journal, late>>
    BY <1>6 DEF CancelWait
  <2>2. Queued' = Queued
    <3>1. awaits[c] \in 0..Len(entries)
      BY DEF WakeInv, TypeOK
    <3>2. QED
      BY <1>6, <3>1, ResolvedEntries DEF CancelWait, Queued, WakeInv, TypeOK
  <2>3. QED
    BY <2>1, <2>2, LiveStay DEF Live, RoomInv, HandNeeded
<1>7. ASSUME Sleep \/ WorkerWritten PROVE RoomInv'
  <2>1. UNCHANGED <<entries, pending, hand, stopping>> /\ Same
    BY <1>7, WrittenRows DEF Sleep, WorkerWritten
  <2>2. HandNeeded'
    BY <1>7, <2>1 DEF Sleep, WorkerWritten, RoomInv, HandNeeded, WakeInv, StoppedWorker
  <2>3. QED
    BY <2>1, <2>2, LiveStay DEF Live, Queued
<1>8. ASSUME Take PROVE RoomInv'
  <2>1. UNCHANGED <<pending, stopping, journal, late>> /\ task' = "calling" /\ hand = 0
    BY <1>8 DEF Take, RoomInv, HandNeeded
  <2>2. Queued \subseteq Queued' \union {hand'} /\ 0 \notin Queued
    BY <1>8 DEF Take, Queued, WakeInv, TypeOK
  <2>3. QED
    BY <2>1, <2>2, LiveStay DEF Live, HandNeeded
<1>9. ASSUME CallbackEnds PROVE RoomInv'
  <2>1. hand # 0 /\ hand \in 0..Len(entries) /\ UNCHANGED <<stopping, journal, late>>
    BY <1>9 DEF CallbackEnds, WakeInv, StoppedWorker, TypeOK
  <2>2. CASE lock = "free"
    <3>1. entries' = Resolved(hand, "ran") /\ Closed
      BY <1>9, <2>2 DEF CallbackEnds
    <3>2. OnlySet
      BY <2>1, <3>1, ResolvedEntries DEF OnlySet, WakeInv, TypeOK
    <3>3. QED
      BY <2>1, <3>1, <3>2, ClosedKeepsRoom
  <2>3. CASE lock # "free"
    <3>1. UNCHANGED <<entries, pending, hand>> /\ task' = "settling"
      BY <1>9, <2>3 DEF CallbackEnds
    <3>2. QED
      BY <2>1, <3>1, LiveStay DEF Live, Queued, HandNeeded
  <2>4. QED
    BY <2>2, <2>3
<1>10. ASSUME Settle PROVE RoomInv'
  <2>1. UNCHANGED <<pending, hand, stopping, journal, late>> /\ task' = "closing"
    BY <1>10 DEF Settle
  <2>2. Queued' = Queued
    BY <1>10, ResolvedEntries DEF Settle, Queued, WakeInv, TypeOK
  <2>3. QED
    BY <2>1, <2>2, LiveStay DEF Live, HandNeeded
<1>11. ASSUME Close PROVE RoomInv'
  BY <1>11, ClosedKeepsRoom DEF Close, OnlySet, WakeInv, StoppedWorker
<1>12. ASSUME CallbackCancelled PROVE FALSE
  BY <1>12 DEF CallbackCancelled, GatewayWakes
<1>13. ASSUME Start PROVE RoomInv'
  <2> DEFINE S == IF PendingKeys = {} THEN journal ELSE {}
             m == Len(entries)
  <2>1. UNCHANGED <<hand, stopping, journal, late>> /\ hand = 0 /\ task' = "top"
    BY <1>13 DEF Start, RoomInv, HandNeeded
  <2>2. PICK rows \in InOrder(S) :
          /\ entries' = entries \o [i \in DOMAIN rows |-> Entry(rows[i].key, rows[i].priority)]
          /\ pending' = [k \in Keys |->
                           IF \E i \in DOMAIN rows : rows[i].key = k
                           THEN m + CHOOSE i \in DOMAIN rows : rows[i].key = k
                           ELSE pending[k]]
    BY <1>13 DEF Start
  <2>3. PICK n \in Nat : /\ DOMAIN rows = 1..n /\ rows \in Seq(Row)
                         /\ PendingKeys # {} => n = 0
    BY RestoredRows DEF WakeInv
  <2>4. \A i \in 1..n : rows[i] \in S
    BY <2>3 DEF InOrder
  <2> DEFINE new == [i \in 1..n |-> Entry(rows[i].key, rows[i].priority)]
  <2>5. new \in Seq(WakeEntry) /\ Len(new) = n /\ \A i \in 1..n : new[i].queued
    <3>1. \A i \in 1..n : rows[i] \in Row
      BY <2>3
    <3>2. \A i \in 1..n : /\ Entry(rows[i].key, rows[i].priority) \in WakeEntry
                          /\ Entry(rows[i].key, rows[i].priority).queued = TRUE
      BY <3>1 DEF Entry, WakeEntry, Row
    <3>3. QED
      BY <2>3, <3>2
  <2>6. /\ entries' = entries \o new /\ DOMAIN entries' = 1..(m + n) /\ m \in Nat
        /\ \A d \in 1..m : entries'[d] = entries[d]
        /\ \A i \in 1..n : m + i \in 1..(m + n) /\ entries'[m + i].queued
    <3>1. entries \in Seq(WakeEntry) /\ entries' = entries \o new
      BY <2>2, <2>3 DEF WakeInv, TypeOK
    <3> HIDE DEF new
    <3>2. QED
      BY <2>3, <2>5, <3>1
  <2> HIDE DEF new
  <2>7. ASSUME NEW k \in PendingKeys'
        PROVE  \/ \E i \in 1..n : rows[i].key = k /\ pending'[k] = m + i
               \/ k \in PendingKeys /\ pending'[k] = pending[k]
    <3>1. k \in Keys /\ pending'[k] # 0
      BY <2>7 DEF PendingKeys
    <3>2. CASE \E i \in 1..n : rows[i].key = k
      BY <2>2, <2>3, <3>1, <3>2
    <3>3. CASE ~\E i \in 1..n : rows[i].key = k
      BY <2>2, <2>3, <3>1, <3>3 DEF PendingKeys
    <3>4. QED
      BY <3>2, <3>3
  <2>8. QuotaKept'
    <3>1. CASE PendingKeys = {}
      <4>1. PendingKeys' \subseteq KeysIn(journal)
        BY <2>4, <2>7, <3>1 DEF KeysIn
      <4>2. KeysIn(journal) \subseteq Keys
        <5>1. journal \subseteq Row
          BY DEF WakeInv, TypeOK
        <5>2. QED
          BY <5>1 DEF Row, KeysIn
      <4>3. InQuota(PendingKeys')
        BY <4>1, <4>2, InQuotaSubset DEF RoomInv, QuotaKept
      <4>4. QED
        BY <2>1, <4>3 DEF RoomInv, QuotaKept, InQuota, InKind, KeysIn
    <3>2. CASE PendingKeys # {}
      <4>1. PendingKeys' \subseteq PendingKeys
        BY <2>3, <2>7, <3>2
      <4>2. QED
        BY <2>1, <4>1, FewerPending DEF RoomInv
    <3>3. QED
      BY <3>1, <3>2
  <2>9. PendingIsLive'
    <3>1. SUFFICES ASSUME NEW k \in PendingKeys' PROVE pending'[k] \in Queued'
      BY DEF PendingIsLive, Live
    <3>2. CASE \E i \in 1..n : rows[i].key = k /\ pending'[k] = m + i
      BY <2>3, <2>6, <3>2 DEF Queued
    <3>3. CASE k \in PendingKeys /\ pending'[k] = pending[k]
      <4>1. pending[k] \in Queued
        BY <1>13, <2>1, <3>3 DEF Start, RoomInv, PendingIsLive, Live
      <4>2. QED
        BY <2>3, <2>6, <3>3, <4>1 DEF Queued, WakeInv, TypeOK
    <3>4. QED
      BY <2>7, <3>2, <3>3
  <2>10. QED
    BY <2>1, <2>8, <2>9 DEF RoomInv, HandNeeded
<1>14. ASSUME StopBegin \/ StopEnd \/ Crash PROVE RoomInv'
  <2>1. PendingKeys' \subseteq PendingKeys /\ Same
    BY <1>14 DEF StopBegin, StopEnd, Crash, PendingKeys, WakeInv, TypeOK
  <2>2. HandNeeded'
    BY <1>14 DEF StopBegin, StopEnd, Crash, HandNeeded, WakeInv, StoppedWorker
  <2>3. PendingIsLive'
    BY <1>14 DEF StopBegin, StopEnd, Crash, PendingIsLive, PendingKeys
  <2>4. QED
    BY <2>1, <2>2, <2>3, FewerPending DEF RoomInv
<1>15. ASSUME UNCHANGED vars PROVE RoomInv'
  <2>1. UNCHANGED <<entries, pending, task, hand, stopping, journal, late>>
    BY <1>15 DEF vars
  <2>2. QED
    BY <2>1, LiveStay DEF Live, Queued, RoomInv, HandNeeded
<1>16. QED
  BY <1>1, <1>2, <1>3, <1>4, <1>5, <1>6, <1>7, <1>8, <1>9, <1>10, <1>11, <1>12, <1>13, <1>14, <1>15
     DEF Next, Submit, Returns, Work

\* With the gateway's three kinds of wakes a heartbeat that finds no other finds room,
\* for any keys and any max_pending of three or more, over restarts from journals that
\* were written at any time.
THEOREM HeartbeatFindsRoom == ASSUME GatewayWakes PROVE Spec => []HeartbeatHasRoom
<1>1. Init => WakeInv /\ RoomInv
  <2> SUFFICES ASSUME Init PROVE RoomInv
    BY WakeInit
  <2>1. PendingKeys = {} /\ KeysIn(journal) = {} /\ late \union {journal} = {{}}
    BY DEF Init, PendingKeys, KeysIn
  <2>2. InQuota({})
    <3>1. \A kind : InKind({}, kind) = {} /\ Quota(kind) >= 0
      BY QuotaType DEF InKind
    <3>2. QED
      BY <3>1, FS_EmptySet DEF InQuota
  <2>3. QED
    BY <2>1, <2>2 DEF Init, RoomInv, QuotaKept, PendingIsLive, HandNeeded
<1>2. (WakeInv /\ RoomInv) /\ [Next]_vars => (WakeInv /\ RoomInv)'
  BY WakeStep, RoomStep
<1>3. WakeInv /\ RoomInv => HeartbeatHasRoom
  BY RoomFollows
<1>4. QED
  BY <1>1, <1>2, <1>3, PTL DEF Spec

-------------------------------------------------------------------------------
(* What is accepted is run.                                                    *)

\* Every journal is written in its turn and whole: no submit is cancelled while a
\* thread writes, and JSON can hold every payload.
JournalWritten == "writing" \notin Cancels /\ Unwritable = {}

\* A wake that is owed has its row in the journal.
OwedInJournal == late = {} /\ owed \subseteq KeysIn(journal)

\* While there is a worker what is owed is pending too, so that every write of the
\* journal keeps its row; without one nothing is pending, and a start reads all rows.
OwedPending ==
  IF task = "none" THEN PendingKeys = {} /\ lock = "free" ELSE owed \subseteq PendingKeys

\* A call that writes holds the lock, and the new entry it writes is in the heap.
WritersLocked == \A c \in Calls :
  /\ call[c] \in {"writing", "rewriting"} => lock = c
  /\ call[c] = "writing" =>
       pending[KeyOf[c]] \in DOMAIN entries /\ entries[pending[KeyOf[c]]].queued

\* A wake whose run is over is not owed any more while its entry is still pending.
ResultPaid ==
  task \in {"settling", "closing"} /\ IsPending(hand) => entries[hand].key \notin owed

\* The pending entry of a key is its newest.
NewestPending ==
  \A e \in Queued : pending[entries[e].key] # 0 => e <= pending[entries[e].key]

OwedInv == OwedInJournal /\ OwedPending /\ WritersLocked /\ ResultPaid /\ NewestPending

LEMMA NobodyWrites ==
  ASSUME WritersLocked, lock \notin Calls, NEW c \in Calls
  PROVE  call[c] \notin {"writing", "rewriting"}
BY DEF WritersLocked

\* A pending entry is there, and its key is one of the keys.
LEMMA EntryTyped ==
  ASSUME TypeOK, NEW e \in DOMAIN entries
  PROVE  entries[e] \in WakeEntry /\ entries[e].key \in Keys /\ e \in Nat \ {0}
<1>1. entries[e] \in WakeEntry /\ DOMAIN entries = 1..Len(entries)
  BY DEF TypeOK
<1>2. QED
  BY <1>1 DEF WakeEntry

\* The rows read back are all rows of the journal, if nothing was pending.
LEMMA RestoredAll ==
  ASSUME TypeOK, PendingKeys = {}, NEW rows \in InOrder(IF PendingKeys = {} THEN journal ELSE {}),
         NEW k \in KeysIn(journal)
  PROVE  \E i \in DOMAIN rows : rows[i].key = k
<1> DEFINE n == Cardinality(journal)
<1>1. journal \subseteq Row /\ \A r, s \in journal : r.key = s.key => r = s
  BY DEF TypeOK
<1>2. IsFiniteSet(journal) /\ n \in Nat
  BY <1>1, JournalFinite
<1>3. rows \in [1..n -> journal] /\ \A i, j \in 1..n : i < j => Earlier(rows[i], rows[j])
  BY DEF InOrder
<1> HIDE DEF n
<1>4. ASSUME NEW i \in 1..n, NEW j \in 1..n, i < j PROVE rows[i] # rows[j]
  <2>1. rows[i] \in Row /\ Earlier(rows[i], rows[j])
    BY <1>1, <1>3, <1>4
  <2>2. QED
    BY <2>1 DEF Earlier, Row
<1>5. rows \in Injection(1..n, journal)
  <2>1. \A i, j \in 1..n : i # j => rows[i] # rows[j]
    BY <1>2, <1>4
  <2>2. QED
    BY <1>3, <2>1 DEF Injection, IsInjective
<1>6. IsFiniteSet(1..n) /\ Cardinality(1..n) = n
  <2>1. 0 + 1 <= n + 1 /\ n - 1 + 1 = n
    BY <1>2
  <2>2. QED
    BY <1>2, FS_Interval
<1>7. rows \in Surjection(1..n, journal)
  BY <1>2, <1>5, <1>6, FS_Injection DEF n
<1>8. PICK r \in journal : r.key = k
  BY DEF KeysIn
<1>9. PICK i \in 1..n : rows[i] = r
  BY <1>7, <1>8 DEF Surjection
<1>10. QED
  BY <1>3, <1>8, <1>9

\* A start adds entries for what it reads, each pending for its key.
LEMMA StartRestores ==
  ASSUME TypeOK, Start
  PROVE  /\ Len(entries') \in Nat /\ Len(entries) \in Nat /\ Len(entries) <= Len(entries')
         /\ \A e \in DOMAIN entries : e \in DOMAIN entries' /\ entries'[e] = entries[e]
         /\ \A e \in DOMAIN entries' \ DOMAIN entries : pending'[entries'[e].key] = e
         /\ \A k \in Keys : pending'[k] = pending[k] \/ pending'[k] > Len(entries)
         /\ PendingKeys = {} => \A k \in KeysIn(journal) \cap Keys : pending'[k] # 0
<1>1. PICK rows \in InOrder(IF PendingKeys = {} THEN journal ELSE {}) :
        /\ entries' = entries \o [i \in DOMAIN rows |-> Entry(rows[i].key, rows[i].priority)]
        /\ pending' = [k \in Keys |->
                         IF \E i \in DOMAIN rows : rows[i].key = k
                         THEN Len(entries) + CHOOSE i \in DOMAIN rows : rows[i].key = k
                         ELSE pending[k]]
  BY DEF Start
<1>2. PICK n \in Nat : /\ DOMAIN rows = 1..n /\ rows \in Seq(Row)
                       /\ PendingKeys # {} => n = 0
                       /\ \A i, j \in 1..n : i # j => rows[i].key # rows[j].key
  BY RestoredRows
<1> DEFINE m == Len(entries)
           x == [i \in 1..n |-> Entry(rows[i].key, rows[i].priority)]
<1>3. m \in Nat /\ DOMAIN entries = 1..m /\ entries \in Seq(WakeEntry)
  BY DEF TypeOK
<1>4. \A i \in 1..n : rows[i] \in Row
  BY <1>2
<1>5. x \in Seq(WakeEntry) /\ Len(x) = n /\ \A i \in 1..n : x[i].key = rows[i].key
  <2>1. \A i \in 1..n : /\ Entry(rows[i].key, rows[i].priority) \in WakeEntry
                        /\ Entry(rows[i].key, rows[i].priority).key = rows[i].key
    BY <1>4 DEF Entry, WakeEntry, Row
  <2>2. QED
    BY <1>2, <2>1
<1>6. entries' = entries \o x
  BY <1>1, <1>2
<1> HIDE DEF x
<1>7. /\ Len(entries') = m + n /\ DOMAIN entries' = 1..m+n
      /\ \A e \in 1..m : entries'[e] = entries[e]
      /\ \A e \in m+1..m+n : entries'[e] = x[e - m]
  <2>1. /\ entries \o x \in Seq(WakeEntry) /\ Len(entries \o x) = Len(entries) + Len(x)
        /\ \A e \in 1..Len(entries) + Len(x) :
             (entries \o x)[e] = IF e <= Len(entries) THEN entries[e] ELSE x[e - Len(entries)]
    BY <1>3, <1>5, ConcatProperties
  <2>2. QED
    BY <1>2, <1>3, <1>5, <1>6, <2>1
<1>8. ASSUME NEW i \in 1..n PROVE pending'[rows[i].key] = m + i /\ rows[i].key \in Keys
  <2>1. rows[i].key \in Keys
    BY <1>4 DEF Row
  <2>2. (CHOOSE j \in 1..n : rows[j].key = rows[i].key) = i
    BY <1>2
  <2>3. QED
    BY <1>1, <1>2, <2>1, <2>2
<1>9. ASSUME NEW k \in Keys
      PROVE  \/ \E i \in 1..n : rows[i].key = k /\ pending'[k] = m + i
             \/ pending'[k] = pending[k] /\ \A i \in 1..n : rows[i].key # k
  BY <1>1, <1>2, <1>8
<1>10. ASSUME NEW e \in m+1..m+n PROVE pending'[entries'[e].key] = e
  <2>1. e - m \in 1..n /\ e = m + (e - m)
    BY <1>2, <1>3, <1>10
  <2>2. entries'[e].key = rows[e - m].key
    BY <1>5, <1>7, <1>10, <2>1
  <2>3. QED
    BY <1>8, <2>1, <2>2
<1>11. \A k \in Keys : pending'[k] = pending[k] \/ pending'[k] > m
  <2> TAKE k \in Keys
  <2>1. ASSUME NEW i \in 1..n, pending'[k] = m + i PROVE pending'[k] > m
    BY <1>2, <1>3, <2>1
  <2>2. QED
    BY <1>9, <2>1
<1>12. ASSUME PendingKeys = {}, NEW k \in KeysIn(journal) \cap Keys PROVE pending'[k] # 0
  <2>1. PICK i \in 1..n : rows[i].key = k
    BY <1>2, <1>12, RestoredAll
  <2>2. pending'[k] = m + i
    BY <1>8, <2>1
  <2>3. QED
    BY <1>2, <1>3, <2>2
<1>13. \A e \in 1..m+n : e \in 1..m \/ e \in m+1..m+n
  BY <1>2, <1>3
<1>14. m + n \in Nat /\ m <= m + n /\ 1..m \subseteq 1..m+n
  BY <1>2, <1>3
<1> HIDE DEF m
<1>15. \A e \in 1..m+n : e \notin 1..m => pending'[entries'[e].key] = e
  BY <1>10, <1>13
<1>16. QED
  BY <1>3, <1>7, <1>11, <1>12, <1>14, <1>15 DEF m

\* A step that leaves the queue, the journal and the owed wakes alone.
LEMMA OwedStays ==
  ASSUME WakeInv, OwedInv, OnlySet, UNCHANGED <<pending, journal, late, owed, lock>>,
         hand' \in {hand, 0}, task' = "none" <=> task = "none",
         task' \in {"settling", "closing"} => task \in {"settling", "closing"},
         \A c \in Calls : call'[c] \in {"writing", "rewriting"} => call'[c] = call[c]
  PROVE  OwedInv'
<1>1. OwedInJournal' /\ OwedPending'
  BY DEF OwedInv, OwedInJournal, OwedPending, PendingKeys, KeysIn
<1>2. WritersLocked'
  BY DEF OwedInv, WritersLocked, OnlySet
<1>3. ResultPaid'
  <2>1. hand # 0 => hand \in DOMAIN entries
    BY DEF WakeInv, TypeOK
  <2>2. QED
    BY <2>1 DEF OwedInv, ResultPaid, OnlySet, IsPending
<1>4. NewestPending'
  BY DEF OwedInv, NewestPending, OnlySet, Queued
<1>5. QED
  BY <1>1, <1>2, <1>3, <1>4 DEF OwedInv

\* The finally block drops an entry whose wake is not owed any more, or one that is not
\* the pending one.
LEMMA ClosedOwes ==
  ASSUME WakeInv, OwedInv, OnlySet, Closed, lock = "free", task # "none",
         UNCHANGED <<call, journal, late>>, owed' \subseteq owed, hand # 0,
         IsPending(hand) => entries[hand].key \notin owed'
  PROVE  OwedInv'
<1>1. hand \in DOMAIN entries /\ entries[hand].key \in Keys
  <2>1. hand \in DOMAIN entries
    BY DEF WakeInv, TypeOK
  <2>2. QED
    BY <2>1, EntryTyped DEF WakeInv
<1>2. \/ /\ IsPending(hand) /\ pending' = [pending EXCEPT ![entries[hand].key] = 0]
         /\ task' = "journalling" /\ lock' = "worker"
      \/ ~IsPending(hand) /\ pending' = pending /\ task' = "top" /\ lock' = lock
  BY DEF Closed
<1>3. pending \in [Keys -> 0..Len(entries)]
  BY DEF WakeInv, TypeOK
<1>4. \A k \in Keys : pending'[k] = pending[k] \/ (pending'[k] = 0 /\ k = entries[hand].key /\ IsPending(hand))
  BY <1>1, <1>2, <1>3
<1>5. OwedInJournal'
  BY DEF OwedInv, OwedInJournal, KeysIn
<1>6. OwedPending'
  <2>1. owed \subseteq PendingKeys /\ PendingKeys \subseteq Keys
    BY DEF OwedInv, OwedPending, PendingKeys
  <2>2. \A k \in owed' : pending'[k] # 0
    BY <1>4, <2>1 DEF PendingKeys
  <2>3. QED
    BY <1>2, <2>1, <2>2 DEF OwedPending, PendingKeys
<1>7. WritersLocked'
  BY NobodyWrites, WakeAssumption DEF OwedInv, WritersLocked
<1>8. ResultPaid'
  BY <1>2 DEF ResultPaid
<1>9. NewestPending'
  <2>1. Queued' = Queued /\ \A e \in Queued : e \in DOMAIN entries /\ entries'[e].key = entries[e].key
    BY DEF OnlySet, Queued
  <2>2. \A e \in Queued : entries[e].key \in Keys
    BY <2>1, EntryTyped DEF WakeInv
  <2>3. QED
    BY <1>4, <2>1, <2>2 DEF OwedInv, NewestPending
<1>10. QED
  BY <1>5, <1>6, <1>7, <1>8, <1>9 DEF OwedInv

\* A new entry is the pending one of its key, and the newest.
LEMMA EnqueueOwes ==
  ASSUME WakeInv, OwedInv, NEW c \in Calls, Enqueue(c)
  PROVE  OwedInv'
<1> DEFINE n == Len(entries)
           k == KeyOf[c]
           x == Entry(k, Priority[c])
<1>1. /\ k \in Keys /\ n \in Nat /\ entries \in Seq(WakeEntry) /\ DOMAIN entries = 1..n
      /\ pending \in [Keys -> 0..n] /\ hand \in 0..n
  BY WakeAssumption DEF WakeInv, TypeOK
<1>2. x.key = k /\ x.queued
  BY DEF Entry
<1>3. /\ entries' = Append(entries, x) /\ pending' = [pending EXCEPT ![k] = n + 1]
      /\ lock = "free" /\ lock' = c /\ call' = [call EXCEPT ![c] = "writing"] /\ task # "none"
      /\ UNCHANGED <<task, hand, journal, late, owed>>
  BY DEF Enqueue, Asked, Alive
<1> HIDE DEF x
<1>4. /\ DOMAIN entries' = 1..n+1 /\ entries'[n + 1] = x
      /\ \A e \in 1..n : entries'[e] = entries[e]
  BY <1>1, <1>3
<1>5. pending'[k] = n + 1 /\ \A j \in Keys : j # k => pending'[j] = pending[j]
  BY <1>1, <1>3
<1>6. OwedInJournal'
  BY <1>3 DEF OwedInv, OwedInJournal, KeysIn
<1>7. OwedPending'
  <2>1. \A j \in PendingKeys : j \in PendingKeys'
    BY <1>1, <1>5 DEF PendingKeys
  <2>2. QED
    BY <1>3, <2>1 DEF OwedInv, OwedPending
<1>8. WritersLocked'
  <2>1. \A d \in Calls : call[d] \notin {"writing", "rewriting"}
    BY <1>3, NobodyWrites, WakeAssumption DEF OwedInv
  <2>2. \A d \in Calls : call'[d] \in {"writing", "rewriting"} => d = c
    BY <1>3, <2>1 DEF WakeInv, TypeOK
  <2>3. n + 1 \in DOMAIN entries' /\ entries'[n + 1].queued
    BY <1>1, <1>2, <1>4
  <2>4. QED
    BY <1>3, <1>5, <2>2, <2>3 DEF WritersLocked
<1>9. ResultPaid'
  <2> SUFFICES ASSUME task \in {"settling", "closing"}, IsPending(hand)' PROVE entries'[hand].key \notin owed
    BY <1>3 DEF ResultPaid
  <2>1. hand \in 1..n /\ entries'[hand] = entries[hand] /\ entries[hand].key \in Keys
    BY <1>1, <1>3, <1>4, EntryTyped DEF IsPending, WakeInv
  <2>2. pending'[entries[hand].key] = hand
    BY <1>3, <2>1 DEF IsPending
  <2>3. entries[hand].key # k
    BY <1>1, <1>5, <2>1, <2>2
  <2>4. IsPending(hand)
    BY <1>5, <2>1, <2>2, <2>3 DEF IsPending
  <2>5. QED
    BY <2>1, <2>4 DEF OwedInv, ResultPaid
<1>10. NewestPending'
  <2> SUFFICES ASSUME NEW e \in Queued', pending'[entries'[e].key] # 0 PROVE e <= pending'[entries'[e].key]
    BY DEF NewestPending
  <2>1. e \in 1..n+1
    BY <1>4 DEF Queued
  <2>2. CASE e = n + 1
    BY <1>1, <1>2, <1>4, <1>5, <2>2
  <2>3. CASE e \in 1..n
    <3>1. e \in Queued /\ entries'[e] = entries[e] /\ entries[e].key \in Keys
      BY <1>1, <1>4, <2>3, EntryTyped DEF Queued, WakeInv
    <3>2. CASE entries[e].key = k
      BY <1>1, <1>5, <2>3, <3>1, <3>2
    <3>3. CASE entries[e].key # k
      BY <1>5, <3>1, <3>3 DEF OwedInv, NewestPending
    <3>4. QED
      BY <3>2, <3>3
  <2>4. QED
    BY <1>1, <2>1, <2>2, <2>3
<1>11. QED
  BY <1>6, <1>7, <1>8, <1>9, <1>10 DEF OwedInv

\* A journal written while the lock is held has the rows of all that is pending.
LEMMA WrittenOwes ==
  ASSUME JournalWritten, WakeInv, OwedInv, NEW c \in Calls, Written(c)
  PROVE  OwedInv'
<1>1. /\ call[c] \in {"writing", "rewriting"} /\ lock' = "free" /\ Write
      /\ call' = [call EXCEPT ![c] = "waiting"]
      /\ UNCHANGED <<entries, pending, hand, late>>
      /\ \/ call[c] = "writing" /\ owed' = owed \union {KeyOf[c]} /\ task' = Notified
         \/ call[c] # "writing" /\ owed' = owed /\ task' = task
  BY DEF Written
<1>2. lock = c /\ lock # "free" /\ lock # "worker"
  BY <1>1, WakeAssumption DEF OwedInv, WritersLocked
<1>3. task # "none" /\ owed \subseteq PendingKeys
  BY <1>2 DEF OwedInv, OwedPending
<1>4. KeyOf[c] \in Keys /\ pending \in [Keys -> 0..Len(entries)] /\ DOMAIN entries = 1..Len(entries)
  BY WakeAssumption DEF WakeInv, TypeOK
<1>5. call[c] = "writing" => /\ pending[KeyOf[c]] # 0 /\ pending[KeyOf[c]] \in DOMAIN entries
                             /\ entries[pending[KeyOf[c]]].queued
  BY <1>4 DEF OwedInv, WritersLocked
<1>6. owed' \subseteq PendingKeys
  BY <1>1, <1>3, <1>4, <1>5 DEF PendingKeys
<1>7. KeysIn(journal') = PendingKeys
  BY <1>1, KeysInRows DEF Write, JournalWritten
<1>8. OwedInJournal'
  BY <1>1, <1>6, <1>7 DEF OwedInv, OwedInJournal, KeysIn
<1>9. OwedPending'
  <2>1. task' # "none"
    BY <1>1, <1>3 DEF Notified
  <2>2. QED
    BY <1>1, <1>6, <2>1 DEF OwedPending, PendingKeys
<1>10. WritersLocked'
  <2>1. \A d \in Calls : d # c => call[d] \notin {"writing", "rewriting"}
    BY <1>2 DEF OwedInv, WritersLocked
  <2>2. \A d \in Calls : call'[d] \notin {"writing", "rewriting"}
    BY <1>1, <2>1 DEF WakeInv, TypeOK
  <2>3. QED
    BY <2>2 DEF WritersLocked
<1>11. ResultPaid'
  <2> SUFFICES ASSUME task' \in {"settling", "closing"}, IsPending(hand) PROVE entries[hand].key \notin owed'
    BY <1>1 DEF ResultPaid, IsPending
  <2>1. task \in {"settling", "closing"}
    BY <1>1 DEF Notified
  <2>2. entries[hand].key \notin owed
    BY <2>1 DEF OwedInv, ResultPaid
  <2>3. call[c] = "writing" => entries[hand].key # KeyOf[c]
    BY <1>5 DEF WakeInv, HandTaken, IsPending
  <2>4. QED
    BY <1>1, <2>2, <2>3
<1>12. NewestPending'
  BY <1>1 DEF OwedInv, NewestPending, Queued
<1>13. QED
  BY <1>8, <1>9, <1>10, <1>11, <1>12 DEF OwedInv

LEMMA TakeOwes ==
  ASSUME WakeInv, OwedInv, Take
  PROVE  OwedInv'
<1>1. PICK e \in Queued : hand' = e /\ entries' = [entries EXCEPT ![e].queued = FALSE]
  BY DEF Take
<1>2. entries \in Seq(WakeEntry) /\ e \in DOMAIN entries /\ entries[e] \in WakeEntry
  BY EntryTyped DEF WakeInv, TypeOK, Queued
<1>3. /\ DOMAIN entries' = DOMAIN entries
      /\ \A d \in DOMAIN entries : /\ entries'[d].key = entries[d].key
                                   /\ entries'[d].queued => entries[d].queued
  BY <1>1, <1>2 DEF WakeEntry
<1>4. /\ task = "top" /\ task' = "calling" /\ lock = "free"
      /\ UNCHANGED <<call, pending, lock, journal, late, owed>>
  BY DEF Take
<1>5. OwedInJournal' /\ OwedPending'
  BY <1>4 DEF OwedInv, OwedInJournal, OwedPending, PendingKeys, KeysIn
<1>6. WritersLocked'
  BY <1>4, NobodyWrites, WakeAssumption DEF OwedInv, WritersLocked
<1>7. ResultPaid'
  BY <1>4 DEF ResultPaid
<1>8. NewestPending'
  BY <1>3, <1>4 DEF OwedInv, NewestPending, Queued
<1>9. QED
  BY <1>5, <1>6, <1>7, <1>8 DEF OwedInv

LEMMA StartOwes ==
  ASSUME WakeInv, OwedInv, Start
  PROVE  OwedInv'
<1> TypeOK
  BY DEF WakeInv
<1>1. DOMAIN entries = 1..Len(entries) /\ pending \in [Keys -> 0..Len(entries)] /\ owed \subseteq Keys
  BY DEF TypeOK
<1>2. /\ Len(entries') \in Nat /\ Len(entries) \in Nat /\ Len(entries) <= Len(entries')
      /\ \A e \in DOMAIN entries : e \in DOMAIN entries' /\ entries'[e] = entries[e]
      /\ \A e \in DOMAIN entries' \ DOMAIN entries : pending'[entries'[e].key] = e
      /\ \A k \in Keys : pending'[k] = pending[k] \/ pending'[k] > Len(entries)
      /\ PendingKeys = {} => \A k \in KeysIn(journal) \cap Keys : pending'[k] # 0
  BY <1>1, StartRestores
<1>3. /\ task' = "top" /\ lock = "free" /\ task \in {"none", "dead"}
      /\ UNCHANGED <<call, hand, lock, journal, late, owed>>
  BY DEF Start
<1>4. OwedInJournal'
  BY <1>3 DEF OwedInv, OwedInJournal, KeysIn
<1>5. OwedPending'
  <2> SUFFICES ASSUME NEW k \in owed PROVE pending'[k] # 0
    BY <1>1, <1>3 DEF OwedPending, PendingKeys
  <2>1. CASE task = "none"
    <3>1. PendingKeys = {} /\ k \in KeysIn(journal) \cap Keys
      BY <1>1, <2>1 DEF OwedInv, OwedPending, OwedInJournal
    <3>2. QED
      BY <1>2, <3>1
  <2>2. CASE task = "dead"
    <3>1. pending[k] # 0 /\ k \in Keys
      BY <2>2 DEF OwedInv, OwedPending, PendingKeys
    <3>2. QED
      BY <1>2, <3>1
  <2>3. QED
    BY <1>3, <2>1, <2>2
<1>6. WritersLocked'
  BY <1>3, NobodyWrites, WakeAssumption DEF OwedInv, WritersLocked
<1>7. ResultPaid'
  BY <1>3 DEF ResultPaid
<1>8. NewestPending'
  <2> SUFFICES ASSUME NEW e \in Queued', pending'[entries'[e].key] # 0 PROVE e <= pending'[entries'[e].key]
    BY DEF NewestPending
  <2>1. e \in DOMAIN entries'
    BY DEF Queued
  <2>2. CASE e \in DOMAIN entries
    <3>1. e \in Queued /\ entries'[e] = entries[e] /\ entries[e].key \in Keys /\ e \in Nat
      BY <1>1, <1>2, <2>2, EntryTyped DEF Queued
    <3>2. CASE pending'[entries[e].key] = pending[entries[e].key]
      BY <3>1, <3>2 DEF OwedInv, NewestPending
    <3>3. CASE pending'[entries[e].key] > Len(entries)
      <4>1. e <= Len(entries)
        BY <1>1, <2>2
      <4>2. pending'[entries[e].key] \in Nat
        <5>1. WakeInv'
          BY WakeStep DEF Next
        <5>2. QED
          BY <3>1, <5>1 DEF WakeInv, TypeOK
      <4>3. QED
        BY <1>2, <3>1, <3>3, <4>1, <4>2
    <3>4. QED
      BY <1>2, <3>1, <3>2, <3>3
  <2>3. CASE e \notin DOMAIN entries
    <3>1. pending'[entries'[e].key] = e
      BY <1>2, <2>1, <2>3
    <3>2. e \in Nat
      <4>1. WakeInv'
        BY WakeStep DEF Next
      <4>2. QED
        BY <2>1, <4>1 DEF WakeInv, TypeOK
    <3>3. QED
      BY <3>1, <3>2
  <2>4. QED
    BY <2>2, <2>3
<1>9. QED
  BY <1>4, <1>5, <1>6, <1>7, <1>8 DEF OwedInv

\* A callback that ends pays for its wake, unless a newer entry of the key waits; then
\* its own entry is not the pending one.
LEMMA CallbackOwes ==
  ASSUME WakeInv, OwedInv, CallbackEnds
  PROVE  OwedInv'
<1>1. /\ task = "calling" /\ hand # 0 /\ hand \in 0..Len(entries)
      /\ UNCHANGED <<call, journal, late>>
  BY DEF CallbackEnds, WakeInv, StoppedWorker, TypeOK
<1>2. owed' \subseteq owed
  BY DEF CallbackEnds
<1>3. hand \in DOMAIN entries
  BY <1>1 DEF WakeInv, TypeOK
<1>4. IsPending(hand) => entries[hand].key \notin owed'
  <2> SUFFICES ASSUME IsPending(hand), entries[hand].key \in owed' PROVE FALSE
    OBVIOUS
  <2>1. PICK e \in Queued : entries[e].key = entries[hand].key /\ e > hand
    BY DEF CallbackEnds
  <2>2. e <= hand
    BY <1>1, <2>1 DEF OwedInv, NewestPending, IsPending
  <2>3. e \in Nat /\ hand \in Nat
    BY <1>3, EntryTyped DEF Queued, WakeInv
  <2>4. QED
    BY <2>1, <2>2, <2>3
<1>5. CASE lock = "free"
  <2>1. Closed /\ entries' = Resolved(hand, "ran")
    BY <1>5 DEF CallbackEnds
  <2>2. OnlySet
    BY <1>1, <2>1, ResolvedEntries DEF WakeInv, TypeOK, OnlySet
  <2>3. QED
    BY <1>1, <1>2, <1>4, <1>5, <2>1, <2>2, ClosedOwes
<1>6. CASE lock # "free"
  <2>1. task' = "settling" /\ UNCHANGED <<entries, pending, hand, lock>>
    BY <1>6 DEF CallbackEnds
  <2>2. OwedInJournal' /\ OwedPending'
    BY <1>1, <1>2, <2>1 DEF OwedInv, OwedInJournal, OwedPending, PendingKeys, KeysIn
  <2>3. WritersLocked' /\ NewestPending'
    BY <1>1, <2>1 DEF OwedInv, WritersLocked, NewestPending, Queued
  <2>4. ResultPaid'
    BY <1>4, <2>1 DEF ResultPaid, IsPending
  <2>5. QED
    BY <2>2, <2>3, <2>4 DEF OwedInv
<1>7. QED
  BY <1>5, <1>6

LEMMA OwedStep == ASSUME JournalWritten, WakeInv, OwedInv, [Next]_vars PROVE OwedInv'
<1>1. \A e \in DOMAIN entries : e \in 0..Len(entries)
  BY DEF WakeInv, TypeOK
<1>2. ASSUME entries' = entries PROVE OnlySet
  BY <1>2 DEF OnlySet
<1>3. ASSUME NEW e \in 0..Len(entries), NEW answer \in {"ran", "stopped", "cancelled"},
             entries' = Resolved(e, answer)
      PROVE  OnlySet
  BY <1>3, ResolvedEntries DEF WakeInv, TypeOK, OnlySet
<1>4. hand \in 0..Len(entries) /\ \A c \in Calls : awaits[c] \in 0..Len(entries)
  BY DEF WakeInv, TypeOK
<1>5. call \in [Calls -> Answers \union {"new", "writing", "rewriting", "waiting"}]
  BY DEF WakeInv, TypeOK
<1>6. ASSUME NEW c \in Calls, Refuse(c) PROVE OwedInv'
  BY <1>2, <1>5, <1>6, OwedStays DEF Refuse
<1>7. ASSUME NEW c \in Calls, Coalesce(c) PROVE OwedInv'
  <2> DEFINE e == pending[KeyOf[c]]
  <2>1. e \in DOMAIN entries /\ entries[e] \in WakeEntry /\ entries \in Seq(WakeEntry)
    <3>1. entries \in Seq(WakeEntry) /\ pending \in [Keys -> 0..Len(entries)] /\ KeyOf[c] \in Keys
      BY WakeAssumption DEF WakeInv, TypeOK
    <3>2. e \in 0..Len(entries) /\ e # 0
      BY <1>7, <3>1 DEF Coalesce, Open
    <3>3. e \in DOMAIN entries
      BY <3>1, <3>2
    <3>4. QED
      BY <3>1, <3>3, EntryTyped DEF WakeInv
  <2>2. lock = "free" /\ task # "none" /\ UNCHANGED <<pending, hand, task, journal, late, owed>>
    BY <1>7 DEF Coalesce, Asked, Alive
  <2>3. \A d \in Calls : call[d] \notin {"writing", "rewriting"}
    BY <2>2, NobodyWrites, WakeAssumption DEF OwedInv
  <2>4. CASE UNCHANGED <<entries, lock>> /\ call' = [call EXCEPT ![c] = "waiting"]
    <3>1. \A d \in Calls : call'[d] \in {"writing", "rewriting"} => call'[d] = call[d]
      BY <1>5, <2>4
    <3>2. QED
      BY <1>2, <2>2, <2>4, <3>1, OwedStays
  <2>5. CASE /\ entries' = [entries EXCEPT ![e].priority = IF Priority[c] < entries[e].priority
                                                           THEN Priority[c] ELSE @]
             /\ lock' = c /\ call' = [call EXCEPT ![c] = "rewriting"]
    <3>1. /\ DOMAIN entries' = DOMAIN entries
          /\ \A d \in DOMAIN entries : /\ entries'[d].key = entries[d].key
                                       /\ entries'[d].queued = entries[d].queued
      BY <2>1, <2>5 DEF WakeEntry
    <3>2. OwedInJournal' /\ OwedPending'
      BY <2>2, <2>5 DEF OwedInv, OwedInJournal, OwedPending, PendingKeys, KeysIn
    <3>3. WritersLocked'
      <4>1. \A d \in Calls : call'[d] \in {"writing", "rewriting"} => d = c /\ call'[d] = "rewriting"
        BY <1>5, <2>3, <2>5
      <4>2. QED
        BY <2>5, <4>1 DEF WritersLocked
    <3>4. ResultPaid'
      BY <1>4, <2>2, <3>1 DEF OwedInv, ResultPaid, IsPending, WakeInv, TypeOK
    <3>5. NewestPending'
      BY <2>2, <3>1 DEF OwedInv, NewestPending, Queued
    <3>6. QED
      BY <3>2, <3>3, <3>4, <3>5 DEF OwedInv
  <2>6. QED
    BY <1>7, <2>4, <2>5 DEF Coalesce
<1>8. ASSUME NEW c \in Calls, CancelWrite(c) PROVE FALSE
  BY <1>8 DEF CancelWrite, JournalWritten
<1>9. ASSUME NEW rows \in late, LateWrite(rows) PROVE FALSE
  BY DEF OwedInv, OwedInJournal
<1>10. ASSUME NEW c \in Calls, CancelWait(c) PROVE OwedInv'
  <2>1. OnlySet
    BY <1>3, <1>4, <1>10 DEF CancelWait
  <2>2. QED
    BY <1>5, <1>10, <2>1, OwedStays DEF CancelWait
<1>11. ASSUME NEW c \in Calls, Answer(c) PROVE OwedInv'
  <2>1. entries[awaits[c]].future \in {"ran", "stopped", "cancelled"}
    <3>1. awaits[c] # 0 /\ awaits[c] \in DOMAIN entries
      BY <1>4, <1>11 DEF Answer, WakeInv, TypeOK
    <3>2. entries[awaits[c]] \in WakeEntry
      BY <3>1, EntryTyped DEF WakeInv
    <3>3. QED
      BY <1>11, <3>1, <3>2 DEF Answer, Open, WakeEntry
  <2>2. \A d \in Calls : call'[d] \in {"writing", "rewriting"} => call'[d] = call[d]
    BY <1>5, <1>11, <2>1 DEF Answer
  <2>3. QED
    BY <1>2, <1>11, <2>2, OwedStays DEF Answer
<1>12. CASE Sleep
  BY <1>2, <1>12, OwedStays DEF Sleep
<1>13. CASE CallbackCancelled
  <2>1. OnlySet
    BY <1>3, <1>4, <1>13 DEF CallbackCancelled
  <2>2. QED
    BY <1>13, <2>1, OwedStays DEF CallbackCancelled
<1>14. CASE Settle
  <2>1. OnlySet
    BY <1>3, <1>4, <1>14 DEF Settle
  <2>2. QED
    BY <1>14, <2>1, OwedStays DEF Settle
<1>15. CASE Close
  <2>1. hand # 0 /\ task = "closing" /\ OnlySet
    BY <1>2, <1>15 DEF Close, WakeInv, StoppedWorker
  <2>2. IsPending(hand) => entries[hand].key \notin owed'
    BY <1>15, <2>1 DEF Close, OwedInv, ResultPaid
  <2>3. QED
    BY <1>15, <2>1, <2>2, ClosedOwes DEF Close
<1>16. CASE WorkerWritten
  <2>1. /\ lock = "worker" /\ lock' = "free" /\ Write
        /\ task' \in {"dead", "top"} /\ UNCHANGED <<call, entries, pending, hand, late, owed>>
    BY <1>16 DEF WorkerWritten
  <2>2. KeysIn(journal') = PendingKeys /\ owed \subseteq PendingKeys
    BY <2>1, KeysInRows DEF Write, JournalWritten, OwedInv, OwedPending
  <2>3. OwedInJournal' /\ OwedPending'
    BY <2>1, <2>2 DEF OwedInv, OwedInJournal, OwedPending, PendingKeys, KeysIn
  <2>4. WritersLocked'
    BY <2>1, NobodyWrites, WakeAssumption DEF OwedInv, WritersLocked
  <2>5. ResultPaid' /\ NewestPending'
    BY <2>1 DEF OwedInv, ResultPaid, NewestPending, Queued
  <2>6. QED
    BY <2>3, <2>4, <2>5 DEF OwedInv
<1>17. CASE StopBegin
  <2>1. /\ lock = "free" /\ hand' = 0 /\ UNCHANGED <<call, journal, late, owed>>
        /\ entries' = IF task = "calling" THEN Resolved(hand, "stopped") ELSE entries
    BY <1>17 DEF StopBegin
  <2>2. OnlySet
    BY <1>2, <1>3, <1>4, <2>1
  <2>3. CASE ~(task = "settling" /\ IsPending(hand))
    BY <1>17, <2>1, <2>2, <2>3, OwedStays DEF StopBegin
  <2>4. CASE task = "settling" /\ IsPending(hand)
    <3>1. /\ pending' = [pending EXCEPT ![entries[hand].key] = 0]
          /\ task' = "lastwrite" /\ lock' = "worker" /\ entries' = entries
      BY <1>17, <2>1, <2>4 DEF StopBegin
    <3>2. entries[hand].key \notin owed
      BY <2>4 DEF OwedInv, ResultPaid
    <3>3. pending \in [Keys -> 0..Len(entries)]
      BY DEF WakeInv, TypeOK
    <3>4. \A k \in Keys : pending'[k] = pending[k] \/ (pending'[k] = 0 /\ k = entries[hand].key)
      BY <3>1, <3>3
    <3>5. OwedInJournal'
      BY <2>1 DEF OwedInv, OwedInJournal, KeysIn
    <3>6. OwedPending'
      BY <2>1, <2>4, <3>1, <3>2, <3>4 DEF OwedInv, OwedPending, PendingKeys
    <3>7. WritersLocked'
      BY <2>1, NobodyWrites, WakeAssumption DEF OwedInv, WritersLocked
    <3>8. ResultPaid'
      BY <3>1 DEF ResultPaid
    <3>9. NewestPending'
      <4>1. \A e \in Queued : entries[e].key \in Keys
        BY EntryTyped DEF Queued, WakeInv
      <4>2. QED
        BY <3>1, <3>4, <4>1 DEF OwedInv, NewestPending, Queued
    <3>10. QED
      BY <3>5, <3>6, <3>7, <3>8, <3>9 DEF OwedInv
  <2>5. QED
    BY <2>3, <2>4
<1>18. CASE StopEnd
  <2>1. /\ lock = "free" /\ task' = "none" /\ pending' = [k \in Keys |-> 0]
        /\ UNCHANGED <<call, lock, journal, late, owed>>
        /\ Queued' = {}
    <3>1. \A e \in DOMAIN entries : [entries[e] EXCEPT !.queued = FALSE,
                      !.future = IF IsPending(e) /\ Open(e) THEN "stopped" ELSE @].queued = FALSE
      <4>1. \A e \in DOMAIN entries : entries[e] \in WakeEntry
        BY EntryTyped DEF WakeInv
      <4>2. QED
        BY <4>1 DEF WakeEntry
    <3>2. QED
      BY <1>18, <3>1 DEF StopEnd, Queued
  <2>2. OwedInJournal' /\ OwedPending'
    BY <2>1 DEF OwedInv, OwedInJournal, OwedPending, PendingKeys, KeysIn
  <2>3. WritersLocked'
    BY <2>1, NobodyWrites, WakeAssumption DEF OwedInv, WritersLocked
  <2>4. QED
    BY <2>1, <2>2, <2>3 DEF OwedInv, ResultPaid, NewestPending
<1>19. CASE Crash
  <2>1. /\ lock' = "free" /\ task' = "none" /\ pending' = [k \in Keys |-> 0] /\ late' = {}
        /\ UNCHANGED <<journal, owed>> /\ Queued' = {}
    BY <1>19 DEF Crash, Queued
  <2>2. \A c \in Calls : call'[c] \notin {"writing", "rewriting"}
    BY <1>5, <1>19 DEF Crash, Answers
  <2>3. OwedInJournal' /\ OwedPending'
    BY <2>1 DEF OwedInv, OwedInJournal, OwedPending, PendingKeys, KeysIn
  <2>4. QED
    BY <2>1, <2>2, <2>3 DEF OwedInv, ResultPaid, NewestPending, WritersLocked
<1>20. CASE UNCHANGED vars
  <2>1. UNCHANGED <<entries, pending, hand, task, call, lock, journal, late, owed>>
    BY <1>20 DEF vars
  <2>2. QED
    BY <1>2, <2>1, OwedStays
<1>21. QED
  BY <1>6, <1>7, <1>8, <1>9, <1>10, <1>11, <1>12, <1>13, <1>14, <1>15, <1>16, <1>17, <1>18, <1>19, <1>20,
     EnqueueOwes, WrittenOwes, TakeOwes, CallbackOwes, StartOwes DEF Next, Submit, Returns, Work

\* A wake that was accepted is not lost: whatever is cancelled while it waits or runs,
\* stopped, crashed and started again, its row stays in the journal until it has run.
THEOREM AcceptedTheorem == ASSUME JournalWritten PROVE Spec => []NothingForgotten
<1>1. Init => WakeInv /\ OwedInv
  <2> SUFFICES ASSUME Init PROVE OwedInv
    BY WakeInit
  <2>1. Queued = {} /\ PendingKeys = {}
    BY DEF Init, Queued, PendingKeys
  <2>2. QED
    BY <2>1 DEF Init, OwedInv, OwedInJournal, OwedPending, WritersLocked, ResultPaid, NewestPending
<1>2. (WakeInv /\ OwedInv) /\ [Next]_vars => (WakeInv /\ OwedInv)'
  BY WakeStep, OwedStep
<1>3. WakeInv /\ OwedInv => NothingForgotten
  BY DEF OwedInv, OwedInJournal, NothingForgotten, KeysIn
<1>4. QED
  BY <1>1, <1>2, <1>3, PTL DEF Spec

===============================================================================
