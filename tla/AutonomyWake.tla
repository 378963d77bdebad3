------------------------------ MODULE AutonomyWake ------------------------------
(***************************************************************************)
(* The wake coordinator (runtime/autonomy.py): heartbeat, cron and         *)
(* proactive wakes are submitted by key, coalesced with a pending wake of  *)
(* the same key, refused over the quota of their kind, run one at a time   *)
(* by priority, and kept in a journal that a restart reads back.           *)
(*                                                                         *)
(* One lock guards the queue.  It is held while a worker thread writes the *)
(* journal, which is why a submit takes two steps; a submit that is        *)
(* cancelled meanwhile leaves the thread to write when it will.  Of a      *)
(* payload there is left that a merge may change it and whether JSON can   *)
(* hold it; a callback that raises sets the future like one that returns,  *)
(* with "ran".                                                             *)
(***************************************************************************)
EXTENDS Integers, FiniteSets, FiniteSetsExt, Sequences

CONSTANTS
  Calls,       \* the calls of submit
  Keys,        \* the keys they name
  KeyOf,       \* [Calls -> Keys]
  KindOf,      \* [Keys -> kinds]
  Priority,    \* [Calls -> Nat], less runs first
  MaxPending,  \* max_pending
  Unwritable,  \* the keys whose payload json.dumps refuses
  Cancels,     \* where a cancellation may land: "writing", "waiting", "callback"
  MaxStops,    \* bound: calls of stop
  MaxCrashes   \* bound: deaths of the process

ASSUME WakeAssumption ==
  /\ IsFiniteSet(Keys) /\ KeyOf \in [Calls -> Keys] /\ Priority \in [Calls -> Nat] /\ DOMAIN KindOf = Keys
  /\ MaxPending \in Nat \ {0} /\ MaxStops \in Nat /\ MaxCrashes \in Nat
  /\ Calls \cap {"worker", "free"} = {}
  /\ Unwritable \subseteq Keys /\ Cancels \subseteq {"writing", "waiting", "callback"}

VARIABLES
  call,      \* where each call stands, at the end its answer
  awaits,    \* the entry each call waits for
  entries,   \* [key, priority, queued, future] of each entry, in order of sequence number
  pending,   \* the entry pending for each key, 0 for none
  running,   \* _running
  task,      \* where the worker stands, "none" when there is none
  hand,      \* the entry the worker took, 0 for none
  lock,      \* who writes the journal under the lock: a call, "worker" or "free"
  stopping,  \* whether stop has cancelled the worker and not finished
  journal,   \* the rows of the journal file
  late,      \* the journals that threads of cancelled calls have yet to write
  owed,      \* the keys whose wake was accepted and has not run since
  stops, crashes

vars == <<call, awaits, entries, pending, running, task, hand, lock, stopping,
          journal, late, owed, stops, crashes>>

Answers == {"ran", "refused", "stopped", "cancelled", "lost"}

Init ==
  /\ call = [c \in Calls |-> "new"] /\ awaits = [c \in Calls |-> 0]
  /\ entries = <<>> /\ pending = [k \in Keys |-> 0]
  /\ running = FALSE /\ task = "none" /\ hand = 0
  /\ lock = "free" /\ stopping = FALSE
  /\ journal = {} /\ late = {} /\ owed = {} /\ stops = 0 /\ crashes = 0

\* mutant: the cron jobs may take the place kept for the proactive wakes
QuotaNoReserve(kind) ==
  CASE MaxPending = 1 -> 1
    [] kind \in {"heartbeat", "proactive"} -> 1
    [] OTHER -> Max({1, MaxPending - 1})

Quota(kind) ==
  CASE MaxPending = 1 -> 1
    [] kind \in {"heartbeat", "proactive"} -> 1
    [] kind = "cron" -> Max({1, MaxPending - 2})
    [] OTHER -> Max({1, MaxPending - 1})

PendingKeys == {k \in Keys : pending[k] # 0}
OfKind(kind) == {k \in PendingKeys : KindOf[k] = kind}
Queued == {e \in DOMAIN entries : entries[e].queued}
Open(e) == e # 0 /\ entries[e].future = "open"

Before(e, f) == \/ entries[e].priority < entries[f].priority
                \/ entries[e].priority = entries[f].priority /\ e < f

Resolved(e, answer) ==
  IF Open(e) THEN [entries EXCEPT ![e].future = answer] ELSE entries

Entry(k, p) == [key |-> k, priority |-> p, queued |-> TRUE, future |-> "open"]

(***************************************************************************)
(* The journal: all rows are written or none, and one payload JSON cannot  *)
(* hold keeps the file as it was.                                          *)
(***************************************************************************)

Rows == {[key |-> k, priority |-> entries[pending[k]].priority, sequence |-> pending[k]] :
           k \in PendingKeys}

\* mutant: nobody is notified
Unnotified == task

\* notify wakes the worker if it sleeps.
Notified == IF task = "asleep" THEN "top" ELSE task

\* mutant: the rows are of the wakes still in the heap
WriteQueued ==
  journal' = IF PendingKeys \cap Unwritable = {}
             THEN {r \in Rows : entries[r.sequence].queued} ELSE journal

Write == journal' = IF PendingKeys \cap Unwritable = {} THEN Rows ELSE journal

(***************************************************************************)
(* submit, its part under the lock and the wait for the future.            *)
(***************************************************************************)

Alive == running /\ task # "none"

Accepts(k) ==
  /\ Cardinality(OfKind(KindOf[k])) < Quota(KindOf[k])
  /\ Cardinality(PendingKeys) < MaxPending

Asked(c) == call[c] = "new" /\ lock = "free"

Refuse(c) ==
  /\ Asked(c) /\ (Alive => ~Open(pending[KeyOf[c]]) /\ ~Accepts(KeyOf[c]))
  /\ call' = [call EXCEPT ![c] = "refused"]
  /\ UNCHANGED <<awaits, entries, pending, running, task, hand, lock, stopping,
                 journal, late, owed, stops, crashes>>

\* A wake that waits in the heap takes the lower of the priorities and the merged
\* payload; if one of them changes, the journal is written before the wait.
Coalesce(c) ==
  LET e == pending[KeyOf[c]]
      upgrade == Priority[c] < entries[e].priority
  IN /\ Asked(c) /\ Alive /\ Open(e)
     /\ awaits' = [awaits EXCEPT ![c] = e]
     /\ \/ /\ entries[e].queued
           /\ entries' = [entries EXCEPT ![e].priority = IF upgrade THEN Priority[c] ELSE @]
           /\ lock' = c /\ call' = [call EXCEPT ![c] = "rewriting"]
        \/ /\ ~(entries[e].queued /\ upgrade)
           /\ call' = [call EXCEPT ![c] = "waiting"] /\ UNCHANGED <<entries, lock>>
     /\ UNCHANGED <<pending, running, task, hand, stopping, journal, late, owed,
                    stops, crashes>>

Enqueue(c) ==
  LET k == KeyOf[c] IN
  /\ Asked(c) /\ Alive /\ ~Open(pending[k]) /\ Accepts(k)
  /\ entries' = Append(entries, Entry(k, Priority[c]))
  /\ pending' = [pending EXCEPT ![k] = Len(entries) + 1]
  /\ awaits' = [awaits EXCEPT ![c] = Len(entries) + 1]
  /\ lock' = c /\ call' = [call EXCEPT ![c] = "writing"]
  /\ UNCHANGED <<running, task, hand, stopping, journal, late, owed, stops, crashes>>

\* The thread has written; only a new entry notifies the worker.
Written(c) ==
  /\ call[c] \in {"writing", "rewriting"}
  /\ Write /\ lock' = "free"
  /\ call' = [call EXCEPT ![c] = "waiting"]
  /\ IF call[c] = "writing"
     THEN owed' = owed \union {KeyOf[c]} /\ task' = Notified
     ELSE UNCHANGED <<owed, task>>
  /\ UNCHANGED <<awaits, entries, pending, running, hand, stopping, late, stops,
                 crashes>>

\* Cancelled while the thread writes: the lock is free before the thread is done.
CancelWrite(c) ==
  /\ "writing" \in Cancels /\ call[c] \in {"writing", "rewriting"}
  /\ lock' = "free" /\ call' = [call EXCEPT ![c] = "cancelled"]
  /\ awaits' = [awaits EXCEPT ![c] = 0]
  /\ late' = IF PendingKeys \cap Unwritable = {} THEN late \union {Rows} ELSE late
  /\ UNCHANGED <<entries, pending, running, task, hand, stopping, journal, owed, stops,
                 crashes>>

LateWrite(rows) ==
  /\ rows \in late
  /\ late' = late \ {rows} /\ journal' = rows
  /\ UNCHANGED <<call, awaits, entries, pending, running, task, hand, lock,
                 stopping, owed, stops, crashes>>

\* A cancelled wait cancels the future it shares with every other call.
CancelWait(c) ==
  /\ "waiting" \in Cancels /\ call[c] = "waiting"
  /\ entries' = Resolved(awaits[c], "cancelled")
  /\ call' = [call EXCEPT ![c] = "cancelled"] /\ awaits' = [awaits EXCEPT ![c] = 0]
  /\ UNCHANGED <<pending, running, task, hand, lock, stopping, journal,
                 late, owed, stops, crashes>>

Answer(c) ==
  /\ call[c] = "waiting" /\ ~Open(awaits[c])
  /\ call' = [call EXCEPT ![c] = entries[awaits[c]].future]
  /\ awaits' = [awaits EXCEPT ![c] = 0]
  /\ UNCHANGED <<entries, pending, running, task, hand, lock, stopping,
                 journal, late, owed, stops, crashes>>

(***************************************************************************)
(* The worker.                                                             *)
(***************************************************************************)

Sleep ==
  /\ task = "top" /\ lock = "free" /\ running /\ Queued = {}
  /\ task' = "asleep"
  /\ UNCHANGED <<call, awaits, entries, pending, running, hand, lock, stopping,
                 journal, late, owed, stops, crashes>>

\* The worker pops the top of the heap.
Take ==
  /\ task = "top" /\ lock = "free"
  /\ \E e \in Queued :
       /\ \A f \in Queued \ {e} : Before(e, f)
       /\ hand' = e /\ entries' = [entries EXCEPT ![e].queued = FALSE]
  /\ task' = "calling"
  /\ UNCHANGED <<call, awaits, pending, running, lock, stopping, journal, late,
                 owed, stops, crashes>>

IsPending(e) == e # 0 /\ pending[entries[e].key] = e

\* The finally block: the entry is pending no more, and the journal is written.
Closed ==
  /\ hand' = 0
  /\ IF IsPending(hand)
     THEN /\ pending' = [pending EXCEPT ![entries[hand].key] = 0]
          /\ lock' = "worker" /\ task' = "journalling"
     ELSE task' = "top" /\ UNCHANGED <<pending, lock>>

\* With the lock free the worker goes on to the finally block without a pause.
CallbackEnds ==
  LET k == entries[hand].key IN
  /\ task = "calling"
  /\ owed' = IF \E e \in Queued : entries[e].key = k /\ e > hand THEN owed ELSE owed \ {k}
  /\ IF lock = "free"
     THEN entries' = Resolved(hand, "ran") /\ Closed
     ELSE task' = "settling" /\ UNCHANGED <<entries, pending, hand, lock>>
  /\ UNCHANGED <<call, awaits, running, stopping, journal, late, stops, crashes>>

\* The callback lets a CancelledError of its own out, and the worker dies of it.
CallbackCancelled ==
  /\ "callback" \in Cancels /\ task = "calling" /\ lock = "free"
  /\ task' = "dead" /\ hand' = 0
  /\ entries' = Resolved(hand, "stopped")
  /\ UNCHANGED <<call, awaits, pending, running, lock, stopping, journal, late,
                 owed, stops, crashes>>

\* The counters are kept under the lock, here after a wait for it; then the future is set.
Settle ==
  /\ task = "settling" /\ lock = "free"
  /\ task' = "closing" /\ entries' = Resolved(hand, "ran")
  /\ UNCHANGED <<call, awaits, pending, running, hand, lock, stopping, journal,
                 late, owed, stops, crashes>>

Close ==
  /\ task = "closing" /\ lock = "free" /\ Closed
  /\ UNCHANGED <<call, awaits, entries, running, stopping, journal, late, owed, stops,
                 crashes>>

WorkerWritten ==
  /\ lock = "worker" /\ lock' = "free" /\ Write
  /\ task' = IF task = "lastwrite" THEN "dead" ELSE "top"
  /\ UNCHANGED <<call, awaits, entries, pending, running, hand, stopping, late,
                 owed, stops, crashes>>

(***************************************************************************)
(* start, also what the supervisor calls when the worker is dead; stop;    *)
(* and the death of the process.                                           *)
(***************************************************************************)

Earlier(r, s) == \/ r.priority < s.priority
                 \/ r.priority = s.priority /\ r.sequence < s.sequence

\* The rows in the order of the file, the order they were written in.
InOrder(rows) ==
  {f \in [1..Cardinality(rows) -> rows] :
     \A i, j \in 1..Cardinality(rows) : i < j => Earlier(f[i], f[j])}

\* mutant: the restored entries are in the heap and not pending
StartUnregistered ==
  /\ lock = "free" /\ ~stopping /\ task \in {"none", "dead"}
  /\ running' = TRUE /\ task' = "top"
  /\ \E rows \in InOrder(IF PendingKeys = {} THEN journal ELSE {}) :
       entries' = entries \o [i \in DOMAIN rows |-> Entry(rows[i].key, rows[i].priority)]
  /\ UNCHANGED <<call, awaits, pending, hand, lock, stopping, journal, late, owed, stops, crashes>>

\* Journal rows become entries again, if nothing is pending.
Start ==
  /\ lock = "free" /\ ~stopping /\ task \in {"none", "dead"}
  /\ running' = TRUE /\ task' = "top"
  /\ \E rows \in InOrder(IF PendingKeys = {} THEN journal ELSE {}) :
       /\ entries' = entries \o [i \in DOMAIN rows |-> Entry(rows[i].key, rows[i].priority)]
       /\ pending' = [k \in Keys |->
                        IF \E i \in DOMAIN rows : rows[i].key = k
                        THEN Len(entries) + CHOOSE i \in DOMAIN rows : rows[i].key = k
                        ELSE pending[k]]
  /\ UNCHANGED <<call, awaits, hand, lock, stopping, journal, late, owed, stops, crashes>>

\* stop cancels the worker wherever it stands.  In the callback it keeps its entry
\* pending; waiting for the lock to count a result, it drops entry and result.
StopBegin ==
  LET drops == task = "settling" /\ IsPending(hand) IN
  /\ lock = "free" /\ ~stopping /\ stops < MaxStops /\ stops' = stops + 1
  /\ running' = FALSE /\ stopping' = TRUE /\ hand' = 0
  /\ entries' = IF task = "calling" THEN Resolved(hand, "stopped") ELSE entries
  /\ task' = CASE task = "none" -> "none"
               [] drops -> "lastwrite"
               [] OTHER -> "dead"
  /\ lock' = IF drops THEN "worker" ELSE "free"
  /\ pending' = IF drops THEN [pending EXCEPT ![entries[hand].key] = 0] ELSE pending
  /\ UNCHANGED <<call, awaits, journal, late, owed, crashes>>

StopEnd ==
  /\ stopping /\ task \in {"none", "dead"} /\ lock = "free"
  /\ stopping' = FALSE /\ task' = "none"
  /\ entries' = [e \in DOMAIN entries |->
                   [entries[e] EXCEPT !.queued = FALSE,
                      !.future = IF IsPending(e) /\ Open(e) THEN "stopped" ELSE @]]
  /\ pending' = [k \in Keys |-> 0]
  /\ UNCHANGED <<call, awaits, running, hand, lock, journal, late, owed, stops,
                 crashes>>

Crash ==
  /\ crashes < MaxCrashes /\ crashes' = crashes + 1
  /\ call' = [c \in Calls |-> IF call[c] \in Answers \union {"new"} THEN call[c] ELSE "lost"]
  /\ awaits' = [c \in Calls |-> 0]
  /\ entries' = <<>> /\ pending' = [k \in Keys |-> 0]
  /\ running' = FALSE /\ task' = "none" /\ hand' = 0 
  /\ lock' = "free" /\ stopping' = FALSE /\ late' = {}
  /\ UNCHANGED <<journal, owed, stops>>

(***************************************************************************)
(* The specification.                                                      *)
(***************************************************************************)

Submit(c) == Refuse(c) \/ Coalesce(c) \/ Enqueue(c)
Returns(c) == Written(c) \/ Answer(c)
Work == Sleep \/ Take \/ CallbackEnds \/ Settle \/ Close \/ WorkerWritten

Next ==
  \/ \E c \in Calls : Submit(c) \/ Returns(c) \/ CancelWrite(c) \/ CancelWait(c)
  \/ \E rows \in late : LateWrite(rows)
  \/ Work \/ CallbackCancelled \/ Start \/ StopBegin \/ StopEnd \/ Crash

Spec == Init /\ [][Next]_vars

\* The event loop runs every task that can run, the threads end, a callback returns
\* (its kinds run under timeouts of their own), and the supervisor starts a dead worker.
Fairness ==
  /\ \A c \in Calls : WF_vars(Returns(c))
  /\ WF_vars(Work) /\ WF_vars(Start) /\ WF_vars(StopEnd)

FairSpec == Spec /\ Fairness

(***************************************************************************)
(* What must hold.                                                         *)
(***************************************************************************)

Row == [key : Keys, priority : Nat, sequence : Nat]
WakeEntry == [key : Keys, priority : Nat, queued : BOOLEAN,
              future : {"open", "ran", "stopped", "cancelled"}]

Tasks == {"none", "top", "asleep", "calling", "settling", "closing", "journalling",
          "lastwrite", "dead"}

\* Every variable keeps its type, and a journal has one row for a key.
TypeOK ==
  /\ entries \in Seq(WakeEntry)
  /\ call \in [Calls -> Answers \union {"new", "writing", "rewriting", "waiting"}]
  /\ awaits \in [Calls -> 0..Len(entries)] /\ pending \in [Keys -> 0..Len(entries)]
  /\ \A c \in Calls : call[c] \in {"writing", "rewriting", "waiting"} => awaits[c] # 0
  /\ hand \in 0..Len(entries) /\ lock \in Calls \union {"worker", "free"}
  /\ running \in BOOLEAN /\ stopping \in BOOLEAN
  /\ task \in Tasks
  /\ \A rows \in late \union {journal} :
       rows \subseteq Row /\ \A r, s \in rows : r.key = s.key => r = s
  /\ owed \subseteq Keys /\ stops \in Nat /\ crashes \in Nat

\* A wake that was accepted, its row written, is run: until then it is in the heap, in
\* the worker's hand or in the journal a restart reads (_persist_journal_locked writes
\* the entries in flight too, stop leaves the file, _restore_journal_locked reads it).
NothingForgotten ==
  \A k \in owed :
    \/ \E r \in journal : r.key = k
    \/ \E e \in Queued : entries[e].key = k
    \/ hand # 0 /\ entries[hand].key = k

\* Calls that wait for one key share one run of it, whatever was cancelled, stopped or
\* restored between them: of the entries of a key in the heap or in the worker's hand,
\* one at most has a future left to set (_pending_by_key, and the worker that removes a
\* pending entry only if it is its own).
OneRunShared ==
  \A e, f \in Queued \union ({hand} \ {0}) :
    Open(e) /\ Open(f) /\ entries[e].key = entries[f].key => e = f

\* The quotas leave a heartbeat its room: while the coordinator runs, one that finds no
\* other heartbeat queued or running is accepted, however many wakes are pending.
HeartbeatHasRoom ==
  Alive /\ ~stopping =>
    \A k \in Keys :
      /\ KindOf[k] = "heartbeat"
      /\ ~\E e \in Queued : KindOf[entries[e].key] = "heartbeat"
      /\ hand = 0 \/ KindOf[entries[hand].key] # "heartbeat"
      => Accepts(k)

\* Every submit that got past the lock is answered (submit awaits the future that the
\* worker, or stop, sets).  It does not hold of a stop that comes while the worker waits
\* for the lock with a result in hand.
EveryCallAnswered ==
  \A c \in Calls : call[c] \in {"writing", "rewriting", "waiting"} ~> call[c] \in Answers

\* A submit is answered unless the coordinator is stopped, though waits are cancelled
\* and the worker dies: the supervisor's start finds the heap as the worker left it.
AnsweredUnlessStopped ==
  \A c \in Calls : call[c] \in {"writing", "rewriting", "waiting"}
                   ~> call[c] \in Answers \/ stops > 0
===============================================================================
