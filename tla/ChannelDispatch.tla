--------------------------- MODULE ChannelDispatch ---------------------------
(***************************************************************************)
(* clawlite/channels/manager.py, the inbound half of ChannelManager: the   *)
(* journal of inbound messages, the dispatcher loop, one worker task per   *)
(* message behind a global and a per-session semaphore, the /stop command, *)
(* and the replay of the journal at startup and by an operator.            *)
(*                                                                         *)
(* A message is its rank in inbox, the order of created_at.  An action is  *)
(* what one task of the event loop does between two awaits that really     *)
(* suspend; persisting and clearing the journal never suspend, and neither *)
(* does acquiring a free semaphore.                                        *)
(***************************************************************************)
EXTENDS Naturals, Sequences, FiniteSets, SequencesExt

CONSTANTS Sessions,
          MaxConcurrency, \* dispatcher_max_concurrency
          PerSession,     \* dispatcher_max_per_session
          MaxEntries,     \* dispatcher_session_slots_max_entries
          ReplayLimit,    \* inbound_replay_limit
          MaxMessages,    \* bound: messages the channels receive
          MaxStops,       \* bound: how many of them are /stop
          MaxReplays,     \* bound: replays asked for by an operator
          MaxCrashes      \* bound: crashes of the process

ASSUME DispatchAssumption ==
  /\ MaxConcurrency \in Nat \ {0} /\ PerSession \in Nat \ {0}
  /\ MaxEntries \in Nat \ {0} /\ ReplayLimit \in Nat \ {0}
  /\ {MaxMessages, MaxStops, MaxReplays, MaxCrashes} \subseteq Nat

VARIABLES
  phase,     \* "down", "starting" (startup replay still to come), "serving"
  inbox,     \* the messages received so far: [session, stop]
  journal,   \* inbound-pending.json: the messages persisted and not cleared
  queue,     \* the bus's inbound queue
  tasks,     \* the worker tasks that are not done, oldest first
  stopping,  \* the /stop whose tasks the dispatcher awaits, 0 when none
  stopFlag,  \* the sessions whose stop event is set
  slots,     \* permits left in _dispatch_slots
  entries,   \* the keys of _session_slots
  permits,   \* permits left in the semaphore of each session
  leases,    \* active_leases of each session
  crashes, replays,
  started,   \* history: messages whose engine run began
  answers,   \* history: how often each message was processed to the end
  cutShort,  \* history: messages whose run found the stop event set
  stopped,   \* history: messages a handled /stop was meant for
  replayed   \* history: messages a replay published again

slotVars == <<slots, entries, permits, leases>>
history  == <<started, answers, cutShort, stopped, replayed>>
vars == <<phase, inbox, journal, queue, tasks, stopping, stopFlag, slotVars,
          crashes, replays, history>>

Messages == 1..MaxMessages
Places   == {"new", "queued", "running", "replying"}
Session(m) == inbox[m].session
IsStop(m)  == inbox[m].stop
Known == 1..Len(inbox)

Init ==
  /\ phase = "starting" /\ inbox = <<>> /\ journal = {} /\ queue = <<>>
  /\ tasks = <<>> /\ stopping = 0 /\ stopFlag = {}
  /\ slots = MaxConcurrency /\ entries = {}
  /\ permits = [s \in Sessions |-> PerSession]
  /\ leases = [s \in Sessions |-> 0]
  /\ crashes = 0 /\ replays = 0
  /\ started = {} /\ answers = [m \in Messages |-> 0]
  /\ cutShort = {} /\ stopped = {} /\ replayed = {}

-----------------------------------------------------------------------------
(* Messages in                                                             *)

\* _on_channel_message: persist, then publish.
Receive(s, stop) ==
  LET m == Len(inbox) + 1
  IN /\ phase # "down"
     /\ m <= MaxMessages
     /\ stop => Cardinality({k \in Known : IsStop(k)}) < MaxStops
     /\ inbox' = Append(inbox, [session |-> s, stop |-> stop])
     /\ journal' = journal \cup {m}
     /\ queue' = Append(queue, m)
     /\ UNCHANGED <<phase, tasks, stopping, stopFlag, slotVars, crashes, replays, history>>

\* How many of the chosen rows a replay takes, and which: the oldest, in the
\* order of created_at (there is one such sequence).
Budget(chosen) == IF Cardinality(chosen) < ReplayLimit THEN Cardinality(chosen) ELSE ReplayLimit
Oldest(chosen) ==
  {rows \in [1..Budget(chosen) -> chosen] :
     /\ \A i, j \in DOMAIN rows : i < j => rows[i] < rows[j]
     /\ \A i \in DOMAIN rows, m \in chosen \ ToSet(rows) : rows[i] < m}

Republish(chosen) ==
  \E rows \in Oldest(chosen) :
    /\ queue' = queue \o rows
    /\ replayed' = replayed \cup ToSet(rows)

\* _run_startup_inbound_replay: nothing is restored while the queue holds
\* something; what workers hold already is restored a second time.
StartupReplay ==
  /\ phase = "starting"
  /\ phase' = "serving"
  /\ IF queue = <<>> THEN Republish(journal) ELSE UNCHANGED <<queue, replayed>>
  /\ UNCHANGED <<inbox, journal, tasks, stopping, stopFlag, slotVars, crashes, replays,
                 started, answers, cutShort, stopped>>

\* operator_replay_inbound, for all sessions or one, forced or not
OperatorReplay(wanted, force) ==
  /\ phase = "serving"
  /\ replays < MaxReplays
  /\ force \/ queue = <<>>
  /\ replays' = replays + 1
  /\ Republish({m \in journal : Session(m) \in wanted})
  /\ UNCHANGED <<phase, inbox, journal, tasks, stopping, stopFlag, slotVars, crashes,
                 started, answers, cutShort, stopped>>

-----------------------------------------------------------------------------
(* The dispatcher loop                                                     *)

Takes(m) == /\ phase # "down"
            /\ stopping = 0
            /\ queue # <<>>
            /\ m = Head(queue)
            /\ queue' = Tail(queue)

Dispatch(m) ==
  /\ Takes(m)
  /\ ~IsStop(m)
  /\ tasks' = Append(tasks, [msg |-> m, at |-> "new", cancelled |-> FALSE])
  /\ UNCHANGED <<phase, inbox, journal, stopping, stopFlag, slotVars, crashes, replays, history>>

\* _active_tasks of the session
Active(s) == {i \in DOMAIN tasks : Session(tasks[i].msg) = s}

\* mutant: only the task that runs is cancelled
RunningOnly(s) == {i \in Active(s) : tasks[i].at = "running"}
\* every one of them that is not done
Targets(s) == Active(s)

\* _handle_stop sets the stop event and cancels the tasks of the session ...
BeginStop(m) ==
  LET s == Session(m)
  IN /\ Takes(m)
     /\ IsStop(m)
     /\ stopping' = m
     /\ stopFlag' = stopFlag \cup {s}
     /\ tasks' = [i \in DOMAIN tasks |->
                    IF i \in Targets(s) THEN [tasks[i] EXCEPT !.cancelled = TRUE] ELSE tasks[i]]
     /\ stopped' = stopped \cup {k \in 1..m : Session(k) = s}
     /\ UNCHANGED <<phase, inbox, journal, slotVars, crashes, replays, started, answers,
                    cutShort, replayed>>

\* ... awaits them, sends the reply, and clears the command from the journal
\* unless sending raised.
EndStop ==
  /\ stopping # 0
  /\ \A i \in DOMAIN tasks : ~tasks[i].cancelled
  /\ stopping' = 0
  /\ \E sent \in BOOLEAN : journal' = IF sent THEN journal \ {stopping} ELSE journal
  /\ UNCHANGED <<phase, inbox, queue, tasks, stopFlag, slotVars, crashes, replays, history>>

-----------------------------------------------------------------------------
(* The worker tasks                                                        *)

Ended(i) == tasks' = RemoveAt(tasks, i)
MovesTo(i, place) == tasks' = [tasks EXCEPT ![i].at = place]
\* the engine looks at the stop event before its first call of the provider
Runs(i, s) ==
  /\ MovesTo(i, "running")
  /\ permits' = [permits EXCEPT ![s] = @ - 1]
  /\ started' = started \cup {tasks[i].msg}
  /\ cutShort' = IF s \in stopFlag THEN cutShort \cup {tasks[i].msg} ELSE cutShort

\* mutant: a semaphore that is polled serves whoever looks first
AnyInLine(i) == TRUE
\* _dispatch_slots serves its waiters in the order of arrival
FirstInLine(i) == \A k \in 1..i-1 : tasks[k].at # "new" \/ tasks[k].cancelled

\* _acquire_dispatch_slot: the global semaphore first, in the order of arrival;
\* then a lease of the session's slot, and its semaphore when a permit is left
\* and nobody waits for it.
AcquireGlobal(i) ==
  LET s == Session(tasks[i].msg)
  IN /\ tasks[i].at = "new" /\ ~tasks[i].cancelled
     /\ FirstInLine(i)
     /\ slots > 0
     /\ slots' = slots - 1
     /\ entries' = entries \cup {s}
     /\ leases' = [leases EXCEPT ![s] = @ + 1]
     /\ IF permits[s] > 0 /\ \A k \in Active(s) : tasks[k].at # "queued" \/ tasks[k].cancelled
        THEN Runs(i, s)
        ELSE MovesTo(i, "queued") /\ UNCHANGED <<permits, started, cutShort>>
     /\ UNCHANGED <<phase, inbox, journal, queue, stopping, stopFlag, crashes, replays,
                    answers, stopped, replayed>>

AcquireSession(i) ==
  LET s == Session(tasks[i].msg)
  IN /\ tasks[i].at = "queued" /\ ~tasks[i].cancelled
     /\ \A k \in Active(s) : k < i => tasks[k].at # "queued" \/ tasks[k].cancelled
     /\ permits[s] > 0
     /\ Runs(i, s)
     /\ UNCHANGED <<phase, inbox, journal, queue, stopping, stopFlag, slots, entries, leases,
                    crashes, replays, answers, stopped, replayed>>

\* the entries _prune_session_slots may remove
Prunable(left, keys) == {s \in keys : left[s] = 0}

\* mutant: the session's slot is not given back
ReleaseSlotOnly(s) ==
  /\ slots' = slots + 1
  /\ leases' = [leases EXCEPT ![s] = @ - 1]
  /\ UNCHANGED <<permits, entries>>
\* _release_dispatch_slot; beyond the limit idle entries are pruned (which of
\* them, the least recently used, is abstracted).
Release(s) ==
  /\ slots' = slots + 1
  /\ LET left     == [leases EXCEPT ![s] = IF @ = 0 THEN 0 ELSE @ - 1]
         overflow == IF Cardinality(entries) > MaxEntries
                     THEN Cardinality(entries) - MaxEntries ELSE 0
         idle     == Prunable(left, entries)
     IN \E gone \in SUBSET idle :
          /\ Cardinality(gone) = IF overflow < Cardinality(idle) THEN overflow
                                 ELSE Cardinality(idle)
          /\ entries' = entries \ gone
          /\ leases' = [t \in Sessions |-> IF t \in gone THEN 0 ELSE left[t]]
          /\ permits' = [t \in Sessions |->
                           IF t \in gone THEN PerSession
                           ELSE IF t = s THEN permits[t] + 1 ELSE permits[t]]

\* mutant: every ended run clears its message
ClearAlways(m, completed) == journal' = journal \ {m}
\* only a run that completed clears its message
Clear(m, completed) == journal' = IF completed THEN journal \ {m} ELSE journal

\* The engine's run ends, whatever its outcome: the stop event is cleared, and
\* the reply (or the fallback text for an error) is still to be sent.
EndEngine(i) ==
  /\ tasks[i].at = "running"
  /\ MovesTo(i, "replying")
  /\ stopFlag' = stopFlag \ {Session(tasks[i].msg)}
  /\ UNCHANGED <<phase, inbox, journal, queue, stopping, slotVars, crashes, replays, history>>

\* _dispatch_event returns, or raises: the task was cancelled, or an error of
\* the delivery's own bookkeeping got out.
EndRun(i, completed) ==
  LET m == tasks[i].msg
      s == Session(m)
  IN /\ \/ tasks[i].at = "replying"
        \/ tasks[i].at = "running" /\ ~completed
     /\ stopFlag' = IF tasks[i].at = "running" THEN stopFlag \ {s} ELSE stopFlag
     /\ Ended(i)
     /\ Clear(m, completed)
     /\ answers' = IF completed THEN [answers EXCEPT ![m] = @ + 1] ELSE answers
     /\ Release(s)
     /\ UNCHANGED <<phase, inbox, queue, stopping, crashes, replays, started, cutShort, stopped,
                    replayed>>

\* A task cancelled before it holds the session's permit.  Its handler of
\* `except Exception` does not see CancelledError: what it holds is kept.
Abandon(i) ==
  /\ tasks[i].cancelled
  /\ tasks[i].at \in {"new", "queued"}
  /\ Ended(i)
  /\ UNCHANGED <<phase, inbox, journal, queue, stopping, stopFlag, slotVars, crashes, replays,
                 history>>

-----------------------------------------------------------------------------
(* The process: stop() at shutdown and a kill leave the same state behind  *)

Crash ==
  /\ phase # "down"
  /\ crashes < MaxCrashes
  /\ crashes' = crashes + 1
  /\ phase' = "down"
  /\ queue' = <<>> /\ tasks' = <<>> /\ stopping' = 0 /\ stopFlag' = {}
  /\ slots' = MaxConcurrency /\ entries' = {}
  /\ permits' = [s \in Sessions |-> PerSession]
  /\ leases' = [s \in Sessions |-> 0]
  /\ UNCHANGED <<inbox, journal, replays, history>>

\* start(): the channels and the dispatcher run before the journal is replayed.
Boot ==
  /\ phase = "down"
  /\ phase' = "starting"
  /\ UNCHANGED <<inbox, journal, queue, tasks, stopping, stopFlag, slotVars, crashes, replays,
                 history>>

-----------------------------------------------------------------------------
Dispatcher == EndStop \/ \E m \in Known : Dispatch(m) \/ BeginStop(m)
Worker(i) == AcquireGlobal(i) \/ AcquireSession(i) \/ EndEngine(i) \/ Abandon(i)

\* What goes on besides the messages that come in.
Work ==
  \/ StartupReplay
  \/ \E wanted \in {Sessions} \cup {{s} : s \in Sessions}, force \in BOOLEAN :
       OperatorReplay(wanted, force)
  \/ Dispatcher
  \/ \E i \in DOMAIN tasks : Worker(i) \/ \E completed \in BOOLEAN : EndRun(i, completed)
  \/ Crash \/ Boot

Next == Work \/ \E s \in Sessions, stop \in BOOLEAN : Receive(s, stop)

Spec == Init /\ [][Next]_vars

\* The event loop resumes each task that can go on, and the engine bounds a
\* run by its timeouts.
Fairness ==
  /\ WF_vars(Dispatcher)
  /\ WF_vars(\E i \in DOMAIN tasks : Worker(i))
  /\ WF_vars(\E i \in DOMAIN tasks, completed \in BOOLEAN : EndRun(i, completed))
  /\ WF_vars(StartupReplay)

FairSpec == Spec /\ Fairness
-----------------------------------------------------------------------------
(* Properties                                                              *)

Task == [msg : Messages, at : Places, cancelled : BOOLEAN]

\* Every variable stays in its range; no count of permits or leases goes below
\* zero or above what its semaphore started with.
TypeOK ==
  /\ phase \in {"down", "starting", "serving"}
  /\ inbox \in Seq([session : Sessions, stop : BOOLEAN]) /\ Len(inbox) <= MaxMessages
  /\ journal \subseteq Known /\ queue \in Seq(Known)
  /\ tasks \in Seq(Task) /\ \A i \in DOMAIN tasks : tasks[i].msg \in Known
  /\ stopping \in Known \cup {0} /\ stopFlag \subseteq Sessions
  /\ slots \in 0..MaxConcurrency /\ entries \subseteq Sessions
  /\ permits \in [Sessions -> 0..PerSession] /\ leases \in [Sessions -> Nat]
  /\ crashes \in 0..MaxCrashes /\ replays \in 0..MaxReplays
  /\ started \subseteq Known /\ answers \in [Messages -> Nat]
  /\ cutShort \subseteq started /\ stopped \subseteq Known /\ replayed \subseteq Known

Working(i) == tasks[i].at \in {"running", "replying"}

\* A message that was received and not processed to the end is in the journal,
\* whatever was cancelled, failed or crashed; one in memory is never forgotten
\* by the journal before its run is over.
NothingLost ==
  \A m \in Known : ~IsStop(m) /\ answers[m] = 0 => m \in journal

\* The semaphores do what they are for, also while entries of _session_slots
\* are pruned and tasks cancelled: at most PerSession runs of one session and
\* MaxConcurrency runs in all at a time.
RunsBounded ==
  /\ Cardinality({i \in DOMAIN tasks : Working(i)}) <= MaxConcurrency
  /\ \A s \in Sessions :
       Cardinality({i \in DOMAIN tasks : Working(i) /\ Session(tasks[i].msg) = s}) <= PerSession

\* A session's messages are begun in the order they came in: a run that begins
\* for the first time leaves no earlier message behind in the queue or in a
\* task, unless a replay published that one again.
EarlierWaiting(m) ==
  {k \in 1..m-1 :
     /\ Session(k) = Session(m) /\ ~IsStop(k) /\ k \notin started \cup replayed
     /\ \/ k \in ToSet(queue)
        \/ \E i \in DOMAIN tasks : tasks[i].msg = k /\ ~tasks[i].cancelled}
InOrder == [][\A m \in started' \ started : EarlierWaiting(m) = {}]_vars

\* What /stop was meant for does not begin to run any more, unless a replay
\* published it again.
StopHolds ==
  [][\A m \in started' \ started : m \notin stopped \/ m \in replayed]_vars

\* Nothing in memory stands for the message any more: the queue, the dispatcher and
\* the tasks are through with it.
Over(m) ==
  /\ m \in Known \ ToSet(queue) /\ stopping # m
  /\ \A i \in DOMAIN tasks : tasks[i].msg # m

\* How a message may end: answered, or kept in the journal after its run began and
\* failed, or after a /stop of its own session that came later or was replayed.
Explained(m) ==
  \/ IsStop(m) \/ answers[m] > 0
  \/ /\ m \in journal
     /\ m \in started \cup stopped \/ \E k \in replayed : IsStop(k) /\ Session(k) = Session(m)

\* How many slots are taken by leases that no task holds: a task cancelled in the line
\* of its session leaves both behind (SlotsReturned).
Deserted == MapThenSumSet(
  LAMBDA s : leases[s] - Cardinality({i \in Active(s) : tasks[i].at # "new"}), Sessions)

\* While the process lives every message in the queue gets through, each copy of it:
\* it is answered, or its run failed or was stopped by its own session with the message
\* kept in the journal.  Neither the other session's messages nor those of its own that
\* wait for the session's slot starve it, as long as one slot is not deserted.
EveryMessageRuns ==
  \A m \in Messages :
    (m \in ToSet(queue)) ~>
      (phase = "down" \/ (Over(m) /\ Explained(m)) \/ Deserted = MaxConcurrency)

\* The tests expect idle entries of _session_slots to be cleaned up, and /stop
\* to work while the slots are saturated: without tasks, nothing is held.
SlotsReturned ==
  tasks = <<>> => slots = MaxConcurrency /\ \A s \in Sessions : leases[s] = 0

\* A message is processed at most once after success.
AnsweredOnce == \A m \in Messages : answers[m] <= 1
=============================================================================
