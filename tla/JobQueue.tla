------------------------------ MODULE JobQueue ------------------------------
(***************************************************************************)
(* clawlite/jobs: the asyncio worker pool of JobQueue, its priority heap,  *)
(* retry and cancellation, and the SQLite JobJournal a restarted process   *)
(* reloads.                                                                *)
(*                                                                         *)
(* The event loop runs one callback at a time, so an action is one slice   *)
(* of a task: what runs between two awaits.  A slice of _worker_loop that  *)
(* writes the journal more than once is cut into several actions (at[w]    *)
(* "head" or "picked"); while a worker is inside such a slice nothing but  *)
(* that worker, or a crash of the process, can move (Yielded).             *)
(***************************************************************************)
EXTENDS Naturals, FiniteSets

CONSTANTS Jobs,        \* the ids submit() hands out (uuid4: never reused)
          Workers,     \* concurrency worker coroutines
          NoJob,
          Prio,        \* priority of each job
          Budget,      \* max_retries of each job
          JournalOn,   \* config.jobs.persist_enabled
          SaveMayFail, \* JobJournal.save may raise; every caller swallows it
          MaxCrashes   \* bound: crashes of the process in one behaviour

ASSUME JobQueueAssumption ==
  /\ NoJob \notin Jobs
  /\ Prio \in [Jobs -> Nat]
  /\ Budget \in [Jobs -> Nat]
  /\ JournalOn \in BOOLEAN
  /\ SaveMayFail \in BOOLEAN
  /\ MaxCrashes \in Nat

VARIABLES
  up,          \* the process is alive, its queue built and restored
  crashes,
  accepting,   \* _running
  status,      \* Job.status, "none" when the id is not in _jobs
  retries,     \* Job.retry_count
  cancelReq,   \* Job.cancellation_requested
  pending,     \* the jobs with an entry in the heap _pending
  signal,      \* the event _new_job: "none" before start(), else "clear" / "set"
  at,          \* where each worker coroutine stands
  holds,       \* the job its _run_job works on
  inner,       \* the task running fn(job) that it awaits
  mustCancel,  \* the workers that get CancelledError when they resume
  jStatus, jRetries,  \* the journal: columns status and retry_count
  submitted,   \* history: the ids handed out
  starts,      \* history: how often fn(job) was started
  promised     \* history: jobs cancel() returned True for, in this process

jobVars     == <<status, retries, cancelReq, pending>>
workerVars  == <<at, holds, inner, mustCancel>>
journalVars == <<jStatus, jRetries>>
history     == <<submitted, starts, promised>>
vars == <<up, crashes, accepting, signal, jobVars, workerVars, journalVars, history>>

Finished == {"done", "failed", "cancelled"}
Statuses == {"none", "queued", "running"} \cup Finished
Outcomes == {"ok", "error", "cancelled"}
Places   == {"off", "new", "waiting", "woken", "head", "picked", "busy"}

\* No worker is in the middle of a slice: another callback may run.
Yielded == up /\ \A w \in Workers : at[w] \notin {"head", "picked"}

Queued == {j \in pending : status[j] = "queued"}

Init ==
  /\ up = TRUE /\ crashes = 0 /\ accepting = FALSE /\ signal = "none"
  /\ status = [j \in Jobs |-> "none"]
  /\ retries = [j \in Jobs |-> 0]
  /\ cancelReq = [j \in Jobs |-> FALSE]
  /\ pending = {}
  /\ at = [w \in Workers |-> "off"]
  /\ holds = [w \in Workers |-> NoJob]
  /\ inner = [w \in Workers |-> "none"]
  /\ mustCancel = {}
  /\ jStatus = [j \in Jobs |-> "none"]
  /\ jRetries = [j \in Jobs |-> 0]
  /\ submitted = {}
  /\ starts = [j \in Jobs |-> 0]
  /\ promised = {}

-----------------------------------------------------------------------------
(* Helpers                                                                 *)

\* journal.save(job): an upsert of the row, whose failure nobody sees.
Save(j, st, n) ==
  \/ /\ JournalOn
     /\ jStatus' = [jStatus EXCEPT ![j] = st]
     /\ jRetries' = [jRetries EXCEPT ![j] = n]
  \/ /\ ~JournalOn \/ SaveMayFail
     /\ UNCHANGED journalVars

SetStatus(j, st) == status' = [status EXCEPT ![j] = st]

\* _new_job.set() resolves the future of every worker blocked in wait().
Woken(places) ==
  [w \in Workers |-> IF places[w] = "waiting" THEN "woken" ELSE places[w]]

\* mutant: the event is not set
PushSilently(j, places) ==
  pending' = pending \cup {j} /\ at' = places /\ UNCHANGED signal
\* push on the heap, then set the event if start() created it
Push(j, places) ==
  /\ pending' = pending \cup {j}
  /\ IF signal = "none" THEN signal' = signal /\ at' = places
                        ELSE signal' = "set"  /\ at' = Woken(places)

\* mutant: the entry is looked at and not popped
PeekOnly(j) == pending
\* _pop_pending: the job's entry is gone, and so are the stale ones above it.
Popped(j) == {k \in pending \ {j} : status[k] = "queued" \/ Prio[k] <= Prio[j]}

\* mutant: one attempt too many
RetriesAtLimit(j) == retries[j] <= Budget[j]
MayRetry(j) == retries[j] < Budget[j]
Counted(j) == retries[j] + 1

\* mutant: only the task is cancelled
KeepNoFlag(j) == UNCHANGED cancelReq
\* the flag cancellation_requested, which no journal column holds
RequestCancel(j) == cancelReq' = [cancelReq EXCEPT ![j] = TRUE]

\* mutant: load_all() instead of load_queued()
RestoreAll == IF JournalOn THEN {j \in Jobs : jStatus[j] # "none"} ELSE {}
\* the rows load_queued() selects
Restored == IF JournalOn THEN {j \in Jobs : jStatus[j] = "queued"} ELSE {}

-----------------------------------------------------------------------------
(* The API, called from other tasks of the loop                            *)

Submit(j) ==
  /\ Yielded
  /\ j \notin submitted
  /\ submitted' = submitted \cup {j}
  /\ SetStatus(j, "queued")
  /\ Push(j, at)
  /\ Save(j, "queued", retries[j])
  /\ UNCHANGED <<up, crashes, accepting, retries, cancelReq, holds, inner,
                 mustCancel, starts, promised>>

\* cancel() of a queued job: its heap entry stays, _pop_pending skips it.
CancelQueued(j) ==
  /\ Yielded
  /\ status[j] = "queued"
  /\ SetStatus(j, "cancelled")
  /\ Save(j, "cancelled", retries[j])
  /\ promised' = promised \cup {j}
  /\ UNCHANGED <<up, crashes, accepting, signal, retries, cancelReq, pending,
                 workerVars, submitted, starts>>

\* cancel() of a running job: the flag, and a cancellation of the handler's
\* task unless that task is already done.
CancelRunning(j) ==
  /\ Yielded
  /\ status[j] = "running"
  /\ RequestCancel(j)
  /\ inner' = [w \in Workers |->
                 IF holds[w] = j /\ inner[w] = "live" THEN "cancelling" ELSE inner[w]]
  /\ promised' = promised \cup {j}
  /\ UNCHANGED <<up, crashes, accepting, signal, status, retries, pending,
                 at, holds, mustCancel, journalVars, submitted, starts>>

Start ==
  /\ Yielded
  /\ ~accepting /\ \A w \in Workers : at[w] = "off"
  /\ accepting' = TRUE
  /\ signal' = IF pending # {} THEN "set" ELSE "clear"
  /\ at' = [w \in Workers |-> "new"]
  /\ UNCHANGED <<up, crashes, jobVars, holds, inner, mustCancel, journalVars, history>>

\* stop() cancels every worker task.  A worker that awaits its event or has
\* not begun just ends.  A worker that awaits a handler passes the
\* cancellation on to the handler's task; one whose handler is already done
\* gets the CancelledError itself.  stop() returns when all are "off".
Stop ==
  /\ Yielded
  /\ accepting
  /\ accepting' = FALSE
  /\ signal' = "set"
  /\ at' = [w \in Workers |-> IF at[w] = "busy" THEN "busy" ELSE "off"]
  /\ inner' = [w \in Workers |-> IF inner[w] = "live" THEN "cancelling" ELSE inner[w]]
  /\ mustCancel' = {w \in Workers : inner[w] \in Outcomes}
  /\ UNCHANGED <<up, crashes, jobVars, holds, journalVars, history>>

-----------------------------------------------------------------------------
(* The worker coroutine                                                    *)

AtHead(w) == at[w] = "head" \/ (at[w] = "new" /\ Yielded)

\* while self._running: the loop ends after stop().
Leave(w) ==
  /\ AtHead(w)
  /\ ~accepting
  /\ at' = [at EXCEPT ![w] = "off"]
  /\ UNCHANGED <<up, crashes, accepting, signal, jobVars, holds, inner, mustCancel,
                 journalVars, history>>

\* _pop_pending takes a job of the highest priority among the queued ones, and
\* _run_job marks it running and saves it.  Jobs of equal priority are taken in
\* any order (created_at is abstracted).
Pick(w, j) ==
  /\ AtHead(w)
  /\ accepting
  /\ j \in Queued
  /\ \A k \in Queued : Prio[k] <= Prio[j]
  /\ pending' = Popped(j)
  /\ SetStatus(j, "running")
  /\ Save(j, "running", retries[j])
  /\ at' = [at EXCEPT ![w] = "picked"]
  /\ holds' = [holds EXCEPT ![w] = j]
  /\ UNCHANGED <<up, crashes, accepting, signal, retries, cancelReq, inner, mustCancel,
                 history>>

\* Nothing queued: wait() returns at once when the event is set, else blocks.
FindNothing(w) ==
  /\ AtHead(w)
  /\ accepting
  /\ Queued = {}
  /\ pending' = {}
  /\ signal' = "clear"
  /\ at' = [at EXCEPT ![w] = IF signal = "set" THEN "head" ELSE "waiting"]
  /\ UNCHANGED <<up, crashes, accepting, status, retries, cancelReq, holds, inner,
                 mustCancel, journalVars, history>>

WakeUp(w) ==
  /\ Yielded
  /\ at[w] = "woken"
  /\ signal' = "clear"
  /\ at' = [at EXCEPT ![w] = "head"]
  /\ UNCHANGED <<up, crashes, accepting, jobVars, holds, inner, mustCancel,
                 journalVars, history>>

FinalStatus == [ok |-> "done", error |-> "failed", cancelled |-> "cancelled"]

\* The end of _run_job for one outcome: done, cancelled, another attempt, or
\* failed; saved, and the worker is back at the head of its loop.
Settle(w, outcome) ==
  LET j     == holds[w]
      freed == [at EXCEPT ![w] = "head"]
  IN /\ IF outcome = "error" /\ MayRetry(j)
        THEN /\ SetStatus(j, "queued")
             /\ retries' = [retries EXCEPT ![j] = Counted(j)]
             /\ Push(j, freed)
             /\ Save(j, "queued", Counted(j))
        ELSE /\ SetStatus(j, FinalStatus[outcome])
             /\ at' = freed
             /\ Save(j, FinalStatus[outcome], retries[j])
             /\ UNCHANGED <<signal, pending, retries>>
     /\ holds' = [holds EXCEPT ![w] = NoJob]
     /\ inner' = [inner EXCEPT ![w] = "none"]
     /\ mustCancel' = mustCancel \ {w}

\* A cancellation asked for before the retry came round ends the job here.
Drop(w) ==
  /\ at[w] = "picked"
  /\ cancelReq[holds[w]]
  /\ Settle(w, "cancelled")
  /\ UNCHANGED <<up, crashes, accepting, cancelReq, history>>

\* create_task(fn(job)), then the worker awaits it.
Launch(w) ==
  /\ at[w] = "picked"
  /\ ~cancelReq[holds[w]]
  /\ at' = [at EXCEPT ![w] = "busy"]
  /\ inner' = [inner EXCEPT ![w] = "live"]
  /\ starts' = [starts EXCEPT ![holds[w]] = @ + 1]
  /\ UNCHANGED <<up, crashes, accepting, signal, jobVars, holds, mustCancel,
                 journalVars, submitted, promised>>

\* _resolve_worker raises: no handler is registered for a custom job.
NoHandler(w) ==
  /\ at[w] = "picked"
  /\ ~cancelReq[holds[w]]
  /\ Settle(w, "error")
  /\ UNCHANGED <<up, crashes, accepting, cancelReq, history>>

\* The handler's task ends.  A cancelled handler may still return or raise:
\* the engine's wait_for absorbs a cancellation that races its own result.
HandlerEnds(w, outcome) ==
  /\ Yielded
  /\ \/ inner[w] = "live" /\ outcome # "cancelled"
     \/ inner[w] = "cancelling"
  /\ inner' = [inner EXCEPT ![w] = outcome]
  /\ UNCHANGED <<up, crashes, accepting, signal, jobVars, at, holds, mustCancel,
                 journalVars, history>>

\* The worker resumes after its handler.
Resume(w) ==
  /\ Yielded
  /\ inner[w] \in Outcomes
  /\ Settle(w, IF w \in mustCancel THEN "cancelled" ELSE inner[w])
  /\ UNCHANGED <<up, crashes, accepting, cancelReq, history>>

-----------------------------------------------------------------------------
(* The process                                                             *)

Crash ==
  /\ up
  /\ crashes < MaxCrashes
  /\ crashes' = crashes + 1
  /\ up' = FALSE /\ accepting' = FALSE /\ signal' = "none"
  /\ status' = [j \in Jobs |-> "none"]
  /\ retries' = [j \in Jobs |-> 0]
  /\ cancelReq' = [j \in Jobs |-> FALSE]
  /\ pending' = {}
  /\ at' = [w \in Workers |-> "off"]
  /\ holds' = [w \in Workers |-> NoJob]
  /\ inner' = [w \in Workers |-> "none"]
  /\ mustCancel' = {}
  /\ promised' = {}
  /\ UNCHANGED <<journalVars, submitted, starts>>

\* A new process opens the journal and restore_from_journal() reloads its
\* queued rows; the caller starts the workers later.
Boot ==
  /\ ~up
  /\ up' = TRUE
  /\ status' = [j \in Jobs |-> IF j \in Restored THEN "queued" ELSE "none"]
  /\ retries' = [j \in Jobs |-> IF j \in Restored THEN jRetries[j] ELSE 0]
  /\ pending' = Restored
  /\ UNCHANGED <<crashes, accepting, signal, cancelReq, workerVars, journalVars, history>>

-----------------------------------------------------------------------------
Worker(w) ==
  \/ Leave(w) \/ (\E j \in Jobs : Pick(w, j)) \/ FindNothing(w) \/ WakeUp(w)
  \/ Drop(w) \/ Launch(w) \/ NoHandler(w) \/ Resume(w)

Next ==
  \/ \E j \in Jobs : Submit(j) \/ CancelQueued(j) \/ CancelRunning(j)
  \/ Start \/ Stop
  \/ \E w \in Workers : Worker(w)
  \/ \E w \in Workers, outcome \in Outcomes : HandlerEnds(w, outcome)
  \/ Crash \/ Boot

Spec == Init /\ [][Next]_vars

\* asyncio resumes every task it has scheduled, and the engine bounds every
\* handler by a timeout.
Fairness ==
  /\ \A w \in Workers : WF_vars(Worker(w))
  /\ \A w \in Workers : WF_vars(\E outcome \in Outcomes : HandlerEnds(w, outcome))

FairSpec == Spec /\ Fairness
-----------------------------------------------------------------------------
(* Properties                                                              *)

\* Every variable stays in its range.
TypeOK ==
  /\ up \in BOOLEAN /\ accepting \in BOOLEAN /\ crashes \in 0..MaxCrashes
  /\ signal \in {"none", "clear", "set"}
  /\ status \in [Jobs -> Statuses] /\ retries \in [Jobs -> Nat]
  /\ cancelReq \in [Jobs -> BOOLEAN] /\ pending \subseteq Jobs
  /\ at \in [Workers -> Places] /\ holds \in [Workers -> Jobs \cup {NoJob}]
  /\ inner \in [Workers -> Outcomes \cup {"none", "live", "cancelling"}]
  /\ mustCancel \subseteq Workers
  /\ jStatus \in [Jobs -> Statuses] /\ jRetries \in [Jobs -> Nat]
  /\ submitted \subseteq Jobs /\ starts \in [Jobs -> Nat] /\ promised \subseteq Jobs

\* A job is "running" exactly when one worker works on it, and then it has no
\* entry in the heap: neither a second worker nor a second run of it can
\* begin, and no job is left "running" with nobody to settle it.
OneRunner ==
  /\ \A w \in Workers : holds[w] # NoJob <=> at[w] \in {"picked", "busy"}
  /\ \A w \in Workers : holds[w] # NoJob =>
       status[holds[w]] = "running" /\ holds[w] \notin pending
  /\ \A v, w \in Workers : holds[v] # NoJob /\ holds[v] = holds[w] => v = w
  /\ \A j \in Jobs : status[j] = "running" => \E w \in Workers : holds[w] = j

\* A queued job has its heap entry, and no worker sleeps on _new_job while one
\* is there: wait() followed by clear() in several workers loses no wake-up.
NothingStranded ==
  \A j \in Jobs : status[j] = "queued" =>
    j \in pending /\ \A w \in Workers : at[w] # "waiting"

\* fn(job) starts at most max_retries + 1 times, over all the processes that
\* load the job from the journal, as long as saving works.
AttemptsBounded ==
  ~SaveMayFail => \A j \in Jobs : starts[j] <= Budget[j] + 1

\* The journal tells what the queue knows, so that a crash loses nothing but
\* cancellation_requested, as long as saving works.
JournalAgrees ==
  JournalOn /\ ~SaveMayFail =>
    \A j \in Jobs : status[j] # "none" =>
      jStatus[j] = status[j] /\ jRetries[j] = retries[j]

\* After cancel() returned True the job's handler is not started again by this
\* process, also when the attempt it hit fails and is retried.
NotStartedAgain == \A j \in promised : starts'[j] = starts[j]
CancelIsFinal == [][NotStartedAgain]_vars

\* The rows of the journal move as JobLifecycle says, whatever crashes.
Durable == INSTANCE JobLifecycle WITH st <- jStatus, tries <- jRetries
LifecycleHolds == Durable!LifecycleSpec

\* Unless the workers are stopped for good, a queued job is settled by the
\* process that has it: no wake-up is lost and no failed attempt strands it.
EveryJobSettles ==
  <>[](up /\ accepting) =>
    \A j \in Jobs : (status[j] = "queued") ~> (status[j] \in Finished \/ ~up)

\* What the design of the job queue says ("Jobs persist across restart"): a
\* restarted queue knows each job whose row is not finished.
UnfinishedJobsRestored ==
  up /\ JournalOn =>
    \A j \in Jobs : jStatus[j] \in {"queued", "running"} => status[j] # "none"
=============================================================================
