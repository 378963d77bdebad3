--------------------------- MODULE ChannelDelivery ---------------------------
(***************************************************************************)
(* clawlite/channels/manager.py, the outbound half of ChannelManager: a    *)
(* reply is sent with retries, becomes a dead letter in the bus and in a   *)
(* journal when they are used up, and is replayed at startup or by an      *)
(* operator; the keys of delivered replies are remembered, in memory and   *)
(* in a file, so that a replay does not deliver them twice.                *)
(*                                                                         *)
(* A reply is its rank in the order of created_at, and stands for its      *)
(* idempotency key.  A task is the original send of a reply, which has the *)
(* reply's number, or a replay of dead letters.  An action is one slice of *)
(* a task; a slice that writes several files is cut, and until it is over  *)
(* (turn) only its task, or a crash, moves.                                *)
(***************************************************************************)
EXTENDS Naturals, Sequences, FiniteSets, SequencesExt

CONSTANTS MaxReplies,   \* bound: replies
          MaxReplays,   \* bound: replays an operator asks for
          NoTask,
          AtOnce,       \* how many of them may run at the same time
          MaxAttempts,  \* send_max_attempts
          Retryable,    \* capabilities.supports_retry
          MaxEntries,   \* delivery_idempotency_max_entries
          ReplayLimit,  \* replay_dead_letters_limit
          MaxFailures,  \* bound: writes of a file that raise OSError
          MaxCrashes    \* bound: crashes of the process

Replies   == 1..MaxReplies
Startup   == MaxReplies + 1
Operators == Startup + 1 .. Startup + MaxReplays
Replays   == Operators \cup {Startup}
Tasks     == Replies \cup Replays

ASSUME DeliveryAssumption ==
  /\ {MaxReplies, MaxReplays, MaxFailures, MaxCrashes} \subseteq Nat
  /\ {AtOnce, MaxAttempts, MaxEntries, ReplayLimit} \subseteq Nat \ {0}
  /\ Retryable \in BOOLEAN /\ NoTask \notin Tasks

VARIABLES
  phase,     \* "down", "starting" (until the startup replay is over), "serving"
  channels,  \* the replies whose channel is enabled in this process
  published, \* how many replies there are so far
  letters,   \* the bus's dead-letter queue
  journal,   \* delivery-dead-letters.json
  cache,     \* _delivery_idempotency_cache, the first to expire first
  disk,      \* delivery-idempotency.json
  task,      \* per task: the reply in hand, where it stands, attempts made
  plan,      \* per replay: the matched dead letters still to be replayed
  skipped,   \* per replay: skipped_events
  turn,      \* the task in the middle of a slice, NoTask when none
  asked,     \* the operator's replays that were asked for
  failures, crashes,
  delivered, \* history: how often the platform took each reply
  doubts,    \* history: deliveries the process had no chance to record
  lapsed,    \* history: replies whose key expired or was evicted
  cutOff,    \* history: replies whose send a /stop or a crash ended
  unsaved    \* history: replies whose row in the journal was not written

memory  == <<letters, cache, plan, skipped>>
files   == <<journal, disk>>
bounds  == <<asked, failures, crashes>>
history == <<delivered, doubts, lapsed, cutOff, unsaved>>
vars == <<phase, channels, published, memory, files, task, turn, bounds, history>>

Idle   == [at |-> "idle", reply |-> 0, tries |-> 0]
Looping == [Idle EXCEPT !.at = "loop"]
Sending(e, n) == [at |-> "sending", reply |-> e, tries |-> n]

Init ==
  /\ phase = "down" /\ channels = {} /\ published = 0
  /\ letters = <<>> /\ journal = {} /\ cache = <<>> /\ disk = <<>>
  /\ task = [t \in Tasks |-> Idle]
  /\ plan = [r \in Replays |-> <<>>] /\ skipped = [r \in Replays |-> <<>>]
  /\ turn = NoTask /\ asked = {} /\ failures = 0 /\ crashes = 0
  /\ delivered = [e \in Replies |-> 0] /\ doubts = [e \in Replies |-> 0]
  /\ lapsed = {} /\ cutOff = {} /\ unsaved = {}

-----------------------------------------------------------------------------
(* Helpers                                                                 *)

Yielded == phase # "down" /\ turn = NoTask
At(t, place) == task[t].at = place
Reply(t) == task[t].reply
Moves(t, place) == task' = [task EXCEPT ![t].at = place]

\* An original send ends; a replay goes on with its loop in the same slice.
Done(t) ==
  /\ task' = [task EXCEPT ![t] = IF t \in Replays THEN Looping ELSE Idle]
  /\ turn' = IF t \in Replays THEN t ELSE NoTask

\* An exception gets out of the send, and out of the replay around it.
Abort(t) ==
  /\ task' = [task EXCEPT ![t] = Idle]
  /\ turn' = NoTask
  /\ plan' = [r \in Replays |-> IF r = t THEN <<>> ELSE plan[r]]
  /\ skipped' = [r \in Replays |-> IF r = t THEN <<>> ELSE skipped[r]]
  /\ phase' = IF t = Startup THEN "serving" ELSE phase

\* The elements of s that are in S, in their order: the n-th is the one with n - 1 before.
Only(s, S) ==
  LET K == {i \in DOMAIN s : s[i] \in S}
      Before(i) == Cardinality({j \in K : j < i})
  IN [n \in 1..Cardinality(K) |-> s[CHOOSE i \in K : Before(i) = n - 1]]

Without(keys, e) == Only(keys, Replies \ {e})

\* _remember_delivery_idempotency: the newest key, and at most MaxEntries of them
Remembered(e) ==
  LET all == Append(Without(cache, e), e)
  IN IF Len(all) > MaxEntries THEN Tail(all) ELSE all

\* mutant: a restarted process starts with an empty cache
RecallNothing == cache
\* _restore_delivery_idempotency_persistence: the file's keys and the cache's.
Recalled ==
  LET all == Only(disk, Replies \ ToSet(cache)) \o cache
  IN IF Len(all) > MaxEntries THEN SubSeq(all, Len(all) - MaxEntries + 1, Len(all)) ELSE all

Known == 1..published
Rows == Only([e \in Known |-> e], journal)
FirstOf(s) == SubSeq(s, 1, IF Len(s) < ReplayLimit THEN Len(s) ELSE ReplayLimit)

\* mutant: the dead letter's row goes when its replay begins
BeginForgets(t, e) ==
  /\ journal' = journal \ {e}
  /\ IF e \in ToSet(cache) THEN Done(t)
     ELSE task' = [task EXCEPT ![t] = Sending(e, 1)] /\ turn' = NoTask
\* _retry_send up to the first channel.send; a key that is remembered is not
\* sent again and its row is removed.
Begin(t, e) ==
  IF e \in ToSet(cache)
  THEN /\ journal' = journal \ {e}
       /\ Done(t)
  ELSE /\ task' = [task EXCEPT ![t] = Sending(e, 1)]
       /\ turn' = NoTask
       /\ UNCHANGED journal

\* publish_dead_letter, then _persist_dead_letter
Bury(e) == letters' = Append(letters, e) /\ journal' = journal \cup {e}

-----------------------------------------------------------------------------
(* One send                                                                *)

\* _publish_and_send of a new reply; without its channel it is a dead letter.
Publish(e) ==
  /\ Yielded
  /\ e = published + 1
  /\ published' = e
  /\ IF e \in channels
     THEN Begin(e, e) /\ UNCHANGED letters
     ELSE Bury(e) /\ UNCHANGED <<task, turn>>
  /\ UNCHANGED <<phase, channels, cache, disk, plan, skipped, bounds, history>>

\* The platform takes the reply; channel.send has not returned yet.
Arrive(t) ==
  /\ Yielded /\ At(t, "sending")
  /\ Moves(t, "arrived")
  /\ delivered' = [delivered EXCEPT ![Reply(t)] = @ + 1]
  /\ UNCHANGED <<phase, channels, published, memory, files, turn, bounds,
                 doubts, lapsed, cutOff, unsaved>>

\* channel.send returned: the key is remembered and its file rewritten ...
Confirm(t) ==
  /\ Yielded /\ At(t, "arrived")
  /\ Moves(t, "confirmed")
  /\ turn' = t
  /\ cache' = Remembered(Reply(t))
  /\ disk' = cache'
  /\ lapsed' = lapsed \cup (ToSet(cache) \ ToSet(cache'))
  /\ UNCHANGED <<phase, channels, published, letters, plan, skipped, journal, bounds,
                 delivered, doubts, cutOff, unsaved>>

\* ... and the row of the reply, if it was a dead letter, is removed.
Clear(t) ==
  /\ turn = t /\ At(t, "confirmed")
  /\ journal' = journal \ {Reply(t)}
  /\ Done(t)
  /\ UNCHANGED <<phase, channels, published, memory, disk, bounds, history>>

\* mutant: the attempt is not counted
SameTry(t) == task[t].tries
NextTry(t) == task[t].tries + 1

\* One attempt failed: another one after the backoff, or the dead letter.
Failed(t) ==
  IF task[t].tries < MaxAttempts /\ Retryable
  THEN Moves(t, "backoff") /\ turn' = NoTask /\ UNCHANGED <<letters, journal>>
  ELSE Bury(Reply(t)) /\ Done(t)

\* channel.send raises: the platform refused the reply, or took it and its
\* answer came too late.
SendRaises(t) ==
  /\ Yielded /\ task[t].at \in {"sending", "arrived"}
  /\ Failed(t)
  /\ doubts' = IF At(t, "arrived") THEN [doubts EXCEPT ![Reply(t)] = @ + 1] ELSE doubts
  /\ UNCHANGED <<phase, channels, published, cache, plan, skipped, disk, bounds,
                 delivered, lapsed, cutOff, unsaved>>

TryAgain(t) ==
  /\ Yielded /\ At(t, "backoff")
  /\ task' = [task EXCEPT ![t] = Sending(Reply(t), NextTry(t))]
  /\ UNCHANGED <<phase, channels, published, memory, files, turn, bounds, history>>

\* /stop cancels the dispatch worker that sends its reply.
Cancel(e) ==
  /\ Yielded /\ task[e].at \in {"sending", "arrived", "backoff"}
  /\ task' = [task EXCEPT ![e] = Idle]
  /\ cutOff' = cutOff \cup {e}
  /\ UNCHANGED <<phase, channels, published, memory, files, turn, bounds,
                 delivered, doubts, lapsed, unsaved>>

-----------------------------------------------------------------------------
(* Writes that fail.  Those after a send are inside the try of the attempt  *)
(* and count as a failure of the send; those of a dead letter are not.     *)

WriteRaises == failures < MaxFailures /\ failures' = failures + 1

SyncFails(t) ==
  /\ Yielded /\ At(t, "arrived")
  /\ WriteRaises
  /\ cache' = Remembered(Reply(t))
  /\ lapsed' = lapsed \cup (ToSet(cache) \ ToSet(cache'))
  /\ Failed(t)
  /\ doubts' = [doubts EXCEPT ![Reply(t)] = @ + 1]
  /\ UNCHANGED <<phase, channels, published, plan, skipped, disk, asked, crashes,
                 delivered, cutOff, unsaved>>

ClearFails(t) ==
  /\ turn = t /\ At(t, "confirmed")
  /\ WriteRaises
  /\ Failed(t)
  /\ doubts' = [doubts EXCEPT ![Reply(t)] = @ + 1]
  /\ UNCHANGED <<phase, channels, published, cache, plan, skipped, disk, asked, crashes,
                 delivered, lapsed, cutOff, unsaved>>

\* The last attempt failed, and the row of the dead letter is not written.
BuryFails(t) ==
  /\ Yielded /\ At(t, "sending")
  /\ task[t].tries = MaxAttempts \/ ~Retryable
  /\ WriteRaises
  /\ letters' = Append(letters, Reply(t))
  /\ unsaved' = unsaved \cup {Reply(t)}
  /\ Abort(t)
  /\ UNCHANGED <<channels, published, cache, files, asked, crashes,
                 delivered, doubts, lapsed, cutOff>>

-----------------------------------------------------------------------------
(* Replays                                                                 *)

\* The cache and, into an empty queue, the journal's rows are restored; the
\* matching letters, at most ReplayLimit, are replayed one after the other.
BeginReplay(r, wanted) ==
  /\ cache' = Recalled
  /\ disk' = cache'
  /\ letters' = IF letters = <<>> THEN Rows ELSE letters
  /\ plan' = [plan EXCEPT ![r] = FirstOf(Only(letters', wanted))]
  /\ task' = [task EXCEPT ![r] = Looping]
  /\ turn' = r
  /\ UNCHANGED <<published, journal, skipped, failures, crashes, history>>

OperatorReplay(r, wanted) ==
  /\ Yielded /\ phase = "serving"
  /\ r \notin asked
  /\ Cardinality({o \in Operators : ~At(o, "idle")}) < AtOnce
  /\ asked' = asked \cup {r}
  /\ BeginReplay(r, wanted)
  /\ UNCHANGED <<phase, channels>>

\* drain_dead_letters of the next one, which may be gone by now.
ReplayNext(r) ==
  /\ turn = r /\ At(r, "loop")
  /\ plan[r] # <<>>
  /\ plan' = [plan EXCEPT ![r] = Tail(@)]
  /\ LET e == Head(plan[r])
     IN \/ /\ e \notin ToSet(letters)
           /\ UNCHANGED <<letters, skipped, journal, task, turn>>
        \/ /\ e \in ToSet(letters) \ channels
           /\ letters' = RemoveFirst(letters, e)
           /\ skipped' = [skipped EXCEPT ![r] = Append(@, e)]
           /\ UNCHANGED <<journal, task, turn>>
        \/ /\ e \in ToSet(letters) \cap channels
           /\ letters' = RemoveFirst(letters, e)
           /\ Begin(r, e)
           /\ UNCHANGED skipped
  /\ UNCHANGED <<phase, channels, published, cache, disk, bounds, history>>

\* restore_dead_letters of the skipped letters
PutBack(r) == letters \o skipped[r]

EndReplay(r) ==
  /\ turn = r /\ At(r, "loop")
  /\ plan[r] = <<>>
  /\ letters' = PutBack(r)
  /\ skipped' = [skipped EXCEPT ![r] = <<>>]
  /\ task' = [task EXCEPT ![r] = Idle]
  /\ turn' = NoTask
  /\ phase' = IF r = Startup THEN "serving" ELSE phase
  /\ UNCHANGED <<channels, published, cache, plan, files, bounds, history>>

-----------------------------------------------------------------------------
(* Time and the process                                                    *)

\* The oldest key reaches the end of delivery_idempotency_ttl_s.
Expire ==
  /\ turn = NoTask
  /\ Recalled # <<>>
  /\ LET e == Head(Recalled)
     IN /\ cache' = Without(cache, e)
        /\ disk' = Without(disk, e)
        /\ lapsed' = lapsed \cup {e}
  /\ UNCHANGED <<phase, channels, published, letters, plan, skipped, journal, task, turn,
                 bounds, delivered, doubts, cutOff, unsaved>>

Crash ==
  /\ phase # "down"
  /\ crashes < MaxCrashes
  /\ crashes' = crashes + 1
  /\ phase' = "down"
  /\ letters' = <<>> /\ cache' = <<>> /\ turn' = NoTask
  /\ task' = [t \in Tasks |-> Idle]
  /\ plan' = [r \in Replays |-> <<>>] /\ skipped' = [r \in Replays |-> <<>>]
  /\ doubts' = [e \in Replies |->
                  doubts[e] + Cardinality({t \in Tasks : At(t, "arrived") /\ Reply(t) = e})]
  /\ cutOff' = cutOff \cup {e \in Replies : ~At(e, "idle")}
  /\ UNCHANGED <<channels, published, files, asked, failures, delivered, lapsed, unsaved>>

\* start() of a process with the channels its configuration enables.  The
\* dispatcher's task is created but does not run before the first send of the
\* startup replay.
Boot ==
  /\ phase = "down"
  /\ phase' = "starting"
  /\ channels' \in SUBSET Replies
  /\ BeginReplay(Startup, Replies)
  /\ UNCHANGED asked

-----------------------------------------------------------------------------
Send(t) == Arrive(t) \/ Confirm(t) \/ Clear(t) \/ SendRaises(t) \/ TryAgain(t)
Replay(r) == ReplayNext(r) \/ EndReplay(r)

Next ==
  \/ \E e \in Replies : Publish(e) \/ Cancel(e)
  \/ \E t \in Tasks : Send(t) \/ SyncFails(t) \/ ClearFails(t) \/ BuryFails(t)
  \/ \E r \in Operators, wanted \in {Replies} \cup {{e} : e \in Replies} :
       OperatorReplay(r, wanted)
  \/ \E r \in Replays : Replay(r)
  \/ Expire \/ Crash \/ Boot

Spec == Init /\ [][Next]_vars

\* A send ends by its client's timeout; the event loop resumes what can go on.
Fairness ==
  /\ \A t \in Tasks : WF_vars(Send(t))
  /\ \A r \in Replays : WF_vars(Replay(r))

FairSpec == Spec /\ Fairness
-----------------------------------------------------------------------------
(* Properties                                                              *)

\* Every variable stays in its range; an attempt never exceeds MaxAttempts and
\* the cache never its maximum.
TypeOK ==
  /\ phase \in {"down", "starting", "serving"} /\ channels \subseteq Replies
  /\ published \in Replies \cup {0}
  /\ letters \in Seq(Known) /\ journal \subseteq Known
  /\ cache \in Seq(Known) /\ disk \in Seq(Known)
  /\ Len(cache) <= MaxEntries /\ Len(disk) <= MaxEntries
  /\ \A t \in Tasks :
       /\ task[t].at \in {"idle", "loop", "sending", "arrived", "confirmed", "backoff"}
       /\ task[t].reply \in Known \cup {0} /\ task[t].tries \in 0..MaxAttempts
  /\ plan \in [Replays -> Seq(Known)] /\ skipped \in [Replays -> Seq(Known)]
  /\ turn \in Tasks \cup {NoTask} /\ asked \subseteq Operators
  /\ failures \in 0..MaxFailures /\ crashes \in 0..MaxCrashes
  /\ delivered \in [Replies -> Nat] /\ doubts \in [Replies -> Nat]
  /\ lapsed \cup cutOff \cup unsaved \subseteq Known

\* A reply that was not delivered is still being sent for the first time, or
\* has a row in the journal: through retries, replays, suppression and crashes
\* it is never dropped, unless a /stop or a crash cut its first send off.
NothingDropped ==
  \A e \in Known :
    \/ delivered[e] > 0 \/ e \in cutOff \/ e \in unsaved
    \/ e \in journal \/ ~At(e, "idle")

\* The idempotency keys do their work, across restarts: a reply is delivered
\* again only if the process could not record a delivery, or forgot its key.
DeliveredOnce ==
  \A e \in Replies : e \notin lapsed => delivered[e] <= 1 + doubts[e]

\* Every send comes to an end, and with it every replay and the startup: the
\* attempts are bounded.
EverySendEnds ==
  \A t \in Tasks : (~At(t, "idle")) ~> At(t, "idle")

\* What was confirmed by channel.send is not sent again.
ConfirmedNotResent ==
  \A t \in Tasks : At(t, "sending") /\ task[t].tries > 1 => Reply(t) \notin ToSet(cache)

\* While files can be written, a row of the journal is also in the queue or in
\* the hands of a replay: it is not forgotten until the next restart.
EveryRowQueued ==
  phase # "down" /\ failures = 0 =>
    \A e \in journal :
      e \in ToSet(letters) \/ \E r \in Replays : Reply(r) = e \/ e \in ToSet(skipped[r])
=============================================================================
