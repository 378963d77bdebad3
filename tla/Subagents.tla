------------------------------ MODULE Subagents ------------------------------
(***************************************************************************)
(* The subagent manager (core/subagent.py) with the parts of the gateway   *)
(* that drive it: the maintenance loop that sweeps, the replay after a     *)
(* restart (gateway/subagents_runtime.py) and the digest by which a turn   *)
(* reports finished runs (core/engine.py).                                 *)
(*                                                                         *)
(* Every operation holds the manager's lock over a body that never awaits, *)
(* so an operation is one step, and the manager's attributes are one       *)
(* record mgr that a step maps to the next.  What really interleaves are   *)
(* the operations with the steps of the worker tasks: a task starts after  *)
(* the operation that created it, unwinds for a while after it was         *)
(* cancelled, and never runs its finally block when it is cancelled before *)
(* its first step.                                                         *)
(*                                                                         *)
(* A deadline (expires_at, the grace of a stale run, twice the TTL of a    *)
(* finished one) is a choice of the step that looks at it.  Every save     *)
(* succeeds; restarts are bounded by MaxCrashes.                           *)
(***************************************************************************)
EXTENDS Integers, FiniteSets, SequencesExt

CONSTANTS
  Runs,        \* run ids; each is spawned at most once
  Sessions,    \* sessions whose turns spawn runs
  SpawnTool,   \* the runs that come from the spawn tool, the others from sessions_spawn
  MaxRunning,  \* max_concurrent_runs
  MaxQueued,   \* max_queued_runs
  Quota,       \* per_session_quota
  MaxResume,   \* max_resume_attempts
  Expires,     \* whether run_ttl_seconds is set
  MaxCrashes   \* bound on the restarts of the process

ASSUME LimitsAssumption ==
  /\ IsFiniteSet(Runs) /\ MaxRunning \in Nat \ {0} /\ MaxQueued \in Nat /\ Quota \in Nat \ {0}
  /\ SpawnTool \subseteq Runs /\ MaxResume \in Nat /\ Expires \in BOOLEAN /\ MaxCrashes \in Nat

VARIABLES
  mgr,       \* the manager's attributes, and the worker tasks on the loop
  disk,      \* runs.json
  digest,    \* per session, the runs a turn has summarised and not yet marked
  reported,  \* history: how often a run's result went into a reply
  replayed,  \* whether this process has begun its startup replay
  resuming,  \* the runs that replay has still to resume
  crashes

subagentVars == <<mgr, disk, digest, reported, replayed, resuming, crashes>>

Active   == {"queued", "running"}
\* "failed" stands for error and cancelled, which every operation treats alike;
\* interrupted is the status that comes with the reasons manager_restart,
\* orphaned_task and orphaned_queue_entry, and with no other.
Terminal == {"done", "failed", "interrupted", "expired"}

\* A worker task: the n-th start of its run, created, running, or told to stop
\* before ("doomed") or after ("unwinding") its first step.
Task == [run : Runs, n : 1..(MaxResume + 2), at : {"created", "running", "doomed", "unwinding"}]

NewManager ==
  [st        |-> [r \in Runs |-> "none"],
   sess      |-> [r \in Runs |-> "none"],
   resumable |-> {},
   attempts  |-> [r \in Runs |-> 0],
   synth     |-> {},
   queue     |-> <<>>,
   pending   |-> {},
   task      |-> [r \in Runs |-> 0],
   live      |-> {},
   starts    |-> [r \in Runs |-> 0]]

\* mutants: the attempts, the synthesis marks are not saved
SavedNoAttempts(m) == [st |-> m.st, sess |-> m.sess, resumable |-> m.resumable,
                       attempts |-> [r \in Runs |-> 0], synth |-> m.synth]
SavedNoSynth(m) == [st |-> m.st, sess |-> m.sess, resumable |-> m.resumable,
                    attempts |-> m.attempts, synth |-> {}]

\* What runs.json holds of the record; its queue lists runs that load as interrupted.
Saved(m) == [st |-> m.st, sess |-> m.sess, resumable |-> m.resumable,
             attempts |-> m.attempts, synth |-> m.synth]

SubagentInit ==
  /\ mgr = NewManager
  /\ disk = Saved(NewManager)
  /\ digest = [s \in Sessions |-> {}]
  /\ reported = [r \in Runs |-> 0]
  /\ replayed = TRUE
  /\ resuming = {}
  /\ crashes = 0

\* The replay awaits only locks that are free: nothing else runs until it is through.
Yielded == resuming = {} /\ UNCHANGED resuming

-----------------------------------------------------------------------------
(* Helpers on the manager's record *)

ActiveRuns(m)  == {r \in Runs : m.st[r] \in Active}
Running(m)     == {r \in Runs : m.st[r] = "running"}
RunningCount(m) == Cardinality(Running(m))
Outstanding(m, s) == Cardinality({r \in ActiveRuns(m) : m.sess[r] = s})
HasBudget(m, r) == m.attempts[r] < MaxResume

\* The task that _tasks holds for r, if it is not done.
LiveTasks(m, r) == {t \in m.live : t.run = r /\ t.n = m.task[r]}

CancelTask(t) == [t EXCEPT !.at = IF @ \in {"created", "doomed"} THEN "doomed" ELSE "unwinding"]

CancelTasks(m, S) ==
  LET hit == UNION {LiveTasks(m, r) : r \in S}
  IN  [m EXCEPT !.live = (@ \ hit) \cup {CancelTask(t) : t \in hit}]

\* The elements of s that are not in S, in their order: the n-th is the one with n - 1 before.
Without(s, S) ==
  LET K == {i \in DOMAIN s : s[i] \notin S}
      Before(i) == Cardinality({j \in K : j < i})
  IN  [n \in 1..Cardinality(K) |-> s[CHOOSE i \in K : Before(i) = n - 1]]

\* _mark_terminal of each run in S, with its status in end: those in again may be
\* resumed.  They also leave the queue and the tables.
Terminate(m, S, end, again) ==
  [m EXCEPT !.st        = [r \in Runs |-> IF r \in S THEN end[r] ELSE @[r]],
            !.resumable = (@ \ S) \cup {r \in again : HasBudget(m, r)},
            !.queue     = Without(@, S),
            !.pending   = @ \ S,
            !.task      = [r \in Runs |-> IF r \in S THEN 0 ELSE @[r]]]

\* mutant: a run stays resumable while it runs
StartWorkersResumable(m, S) ==
  [m EXCEPT !.st     = [r \in Runs |-> IF r \in S THEN "running" ELSE @[r]],
            !.synth  = @ \ S,
            !.starts = [r \in Runs |-> IF r \in S THEN m.starts[r] + 1 ELSE @[r]],
            !.task   = [r \in Runs |-> IF r \in S THEN m.starts[r] + 1 ELSE @[r]],
            !.live   = @ \cup {[run |-> r, n |-> m.starts[r] + 1, at |-> "created"] : r \in S}]

\* _start_worker_locked of each run in S
StartWorkers(m, S) ==
  [m EXCEPT !.st        = [r \in Runs |-> IF r \in S THEN "running" ELSE @[r]],
            !.resumable = @ \ S,
            !.synth     = @ \ S,
            !.starts    = [r \in Runs |-> IF r \in S THEN m.starts[r] + 1 ELSE @[r]],
            !.task      = [r \in Runs |-> IF r \in S THEN m.starts[r] + 1 ELSE @[r]],
            !.live      = @ \cup {[run |-> r, n |-> m.starts[r] + 1, at |-> "created"] : r \in S}]

Enqueue(m, r) ==
  [m EXCEPT !.st[r]     = "queued",
            !.resumable = @ \ {r},
            !.synth     = @ \ {r},
            !.queue     = Append(@, r)]

\* What the first k entries of the queue start: one without a run or a runner is dropped.
Startable(m, k) ==
  {r \in ToSet(SubSeq(m.queue, 1, k)) : r \in m.pending /\ m.st[r] \notin {"none", "pruned"}}

\* The entries taken from the queue, until every slot is taken or none is left.
Dequeued(m) ==
  LET Full(k) == Cardinality(Running(m) \cup Startable(m, k)) >= MaxRunning
  IN  CHOOSE k \in 0..Len(m.queue) :
        /\ Full(k) \/ k = Len(m.queue)
        /\ \A j \in 0..(k - 1) : ~Full(j)

\* mutant: off by one, the last slot stays free
DrainLeavesOne(m) ==
  IF m.queue = <<>> \/ RunningCount(m) + 1 >= MaxRunning THEN m
  ELSE StartWorkers([m EXCEPT !.queue = Tail(@)], {Head(m.queue)})

\* Free slots go to the head of the queue.
Drain(m) ==
  LET k == Dequeued(m)
  IN  StartWorkers([m EXCEPT !.queue = SubSeq(@, k + 1, Len(@))], Startable(m, k))

Prunable(m) == {r \in Runs : m.st[r] \in Terminal /\ r \notin m.resumable}

\* _runs.pop of finished runs
Forget(m, S) == [m EXCEPT !.st = [r \in Runs |-> IF r \in S THEN "pruned" ELSE @[r]]]

\* mutant: a task that is done counts as a worker
SweepTrustsTask(m, late, stale, old) ==
  LET expired == late \cap ActiveRuns(m)
      pruned  == old \cap Prunable(m)
      m1 == Terminate(CancelTasks(m, expired), expired, [r \in expired |-> "expired"], {})
  IN  IF ActiveRuns(m) \cup pruned # {} THEN Drain(Forget(m1, pruned)) ELSE m

\* The runs a sweep finds in the queue, or with a task that is not done.
Touched(m) ==
  {r \in ActiveRuns(m) : IF m.st[r] = "queued" THEN r \in m.pending /\ Contains(m.queue, r)
                         ELSE LiveTasks(m, r) # {}}

\* The sweep: late are the runs past expires_at, stale those not touched for
\* the grace period, old those finished for twice the TTL.
Sweep(m, late, stale, old) ==
  LET expired == late \cap ActiveRuns(m)
      lost    == (stale \cap ActiveRuns(m)) \ (expired \cup Touched(m))
      end     == [r \in expired \cup lost |-> IF r \in expired THEN "expired" ELSE "interrupted"]
      pruned  == old \cap Prunable(m)
      ended   == Terminate(CancelTasks(m, expired), expired \cup lost, end, lost)
  IN  IF expired \cup lost \cup Touched(m) \cup pruned # {} THEN Drain(Forget(ended, pruned)) ELSE m

\* What the clock lets one sweep find.
SweepResults(m) ==
  {Sweep(m, late, stale, old) :
     late  \in IF Expires THEN SUBSET ActiveRuns(m) ELSE {{}},
     stale \in SUBSET (ActiveRuns(m) \ Touched(m)),
     old   \in IF Expires THEN SUBSET Prunable(m) ELSE {{}}}

Save(m) == disk' = Saved(m)
-----------------------------------------------------------------------------
(* Operations *)

\* A run starts, or waits in the queue; one that neither has room for is refused.
HasRoom(m) == RunningCount(m) < MaxRunning \/ Len(m.queue) < MaxQueued
Launch(m, r) == IF RunningCount(m) < MaxRunning THEN StartWorkers(m, {r}) ELSE Enqueue(m, r)

\* sessions_spawn spawns for the session itself, the spawn tool for a session
\* "<parent>:sub:<id>" of the run's own, here the run itself.  A refused spawn
\* leaves what its sweep did, as MaintenanceSweep does.
Spawn(r, s) ==
  /\ mgr.st[r] = "none"
  /\ \E swept \in SweepResults(mgr) :
       LET own == IF r \in SpawnTool THEN r ELSE s
           m   == [swept EXCEPT !.sess[r] = own, !.pending = @ \cup {r}]
       IN  /\ Outstanding(swept, own) < Quota
           /\ HasRoom(swept)
           /\ mgr' = Launch(m, r)
  /\ Save(mgr')
  /\ UNCHANGED <<digest, reported, replayed, crashes>> /\ Yielded

CanResume(m, r) ==
  /\ r \in m.resumable
  /\ Outstanding(m, m.sess[r]) < Quota
  /\ HasRoom(m)

\* resume() after its sweep, for a run that is not refused.
ResumeRun(m, r, late) ==
  LET again == [m EXCEPT !.attempts[r] = @ + 1, !.pending = @ \cup {r}]
  IN  IF late THEN Terminate(m, {r}, [q \in {r} |-> "expired"], {})
      ELSE Launch(again, r)

\* The subagents tool resumes a run.
Resume(r) ==
  /\ \E swept \in SweepResults(mgr), late \in (IF Expires THEN BOOLEAN ELSE {FALSE}) :
       /\ r \in swept.resumable
       /\ late \/ CanResume(swept, r)
       /\ mgr' = ResumeRun(swept, r, late)
  /\ Save(mgr')
  /\ UNCHANGED <<digest, reported, replayed, crashes>> /\ Yielded

\* The replay at startup lists the runs that the last process or a sweep found
\* without a worker.
StartupReplay ==
  /\ ~replayed
  /\ replayed' = TRUE
  /\ resuming' = {r \in mgr.resumable : mgr.st[r] = "interrupted"}
  /\ UNCHANGED <<mgr, disk, digest, reported, crashes>>

\* It resumes them one after the other, and passes over one that is refused.
ReplayRow(r) ==
  /\ \E swept \in SweepResults(mgr), late \in (IF Expires THEN BOOLEAN ELSE {FALSE}) :
       mgr' = IF r \in swept.resumable /\ (late \/ CanResume(swept, r))
              THEN ResumeRun(swept, r, late) ELSE swept
  /\ IF mgr' = mgr THEN UNCHANGED disk ELSE Save(mgr')
  /\ resuming' = resuming \ {r}
  /\ UNCHANGED <<digest, reported, replayed, crashes>>

\* A sweep saves only when it changed something.
SweepTo(m) ==
  /\ mgr' = m
  /\ IF m = mgr THEN UNCHANGED disk ELSE Save(m)
  /\ UNCHANGED <<digest, reported, replayed, crashes>> /\ Yielded

\* The maintenance loop, the tool's sweep, or a refused spawn or resume.
MaintenanceSweep == \E m \in SweepResults(mgr) : SweepTo(m)

\* A sweep that comes after the grace of every run without a worker.
LateSweep ==
  /\ ActiveRuns(mgr) # Touched(mgr)
  /\ \E m \in {Sweep(mgr, {}, ActiveRuns(mgr), {})} : SweepTo(m)

\* cancel_async of one run, cancel_session_async of a session's active ones.
CancelRuns(S) ==
  LET told   == {r \in S : LiveTasks(mgr, r) # {}}
      queued == {r \in S \ told : Contains(mgr.queue, r)}
  IN  /\ mgr' = Terminate(CancelTasks(mgr, told), queued, [r \in queued |-> "failed"], queued)
      /\ IF queued = {} THEN UNCHANGED disk ELSE Save(mgr')
      /\ UNCHANGED <<digest, reported, replayed, crashes>> /\ Yielded

CancelRun(r) == mgr.st[r] \in Active /\ CancelRuns({r})

CancelSession(s) ==
  LET S == {r \in ActiveRuns(mgr) : mgr.sess[r] = s}
  IN  S # {} /\ CancelRuns(S)
-----------------------------------------------------------------------------
(* The worker tasks *)

BeginTask(t) ==
  /\ t \in mgr.live /\ t.at = "created"
  /\ mgr' = [mgr EXCEPT !.live = (@ \ {t}) \cup {[t EXCEPT !.at = "running"]}]
  /\ UNCHANGED <<disk, digest, reported, replayed, crashes>> /\ Yielded

\* A task cancelled before its first step ends there, without its finally block.
VanishTask(t) ==
  /\ t \in mgr.live /\ t.at = "doomed"
  /\ mgr' = [mgr EXCEPT !.live = @ \ {t}]
  /\ UNCHANGED <<disk, digest, reported, replayed, crashes>> /\ Yielded

\* The finally block of _worker: it acts on the run, whatever task the run has now.
FinishTask(t, outcome) ==
  /\ t \in mgr.live /\ t.at \in {"running", "unwinding"}
  /\ LET r == t.run
         m == [mgr EXCEPT !.live = @ \ {t}]
     IN  \/ /\ m.st[r] = "pruned"
            /\ mgr' = m
            /\ UNCHANGED disk
         \/ /\ m.st[r] = "expired"
            /\ mgr' = Drain([m EXCEPT !.task[r] = 0, !.pending = @ \ {r}])
            /\ Save(mgr')
         \/ /\ m.st[r] \notin {"pruned", "expired"}
            /\ mgr' = Drain(Terminate(m, {r}, [q \in {r} |-> outcome], IF outcome = "failed" THEN {r} ELSE {}))
            /\ Save(mgr')
  /\ UNCHANGED <<digest, reported, replayed, crashes>> /\ Yielded
-----------------------------------------------------------------------------
(* The digest of a turn, one turn at a time per session *)

Unsynthesized(s) ==
  {r \in Runs : mgr.sess[r] = s /\ mgr.st[r] \in Terminal /\ r \notin mgr.synth \cup mgr.resumable}

ListDigest(s) ==
  /\ digest[s] = {} /\ Unsynthesized(s) # {}
  /\ digest' = [digest EXCEPT ![s] = Unsynthesized(s)]
  /\ UNCHANGED <<mgr, disk, reported, replayed, crashes>> /\ Yielded

\* The summary is in the reply and its runs are marked; a run pruned since is not found.
MarkDigest(s) ==
  /\ digest[s] # {}
  /\ reported' = [r \in Runs |-> IF r \in digest[s] THEN reported[r] + 1 ELSE reported[r]]
  /\ LET found == {r \in digest[s] : mgr.st[r] # "pruned"}
     IN  /\ mgr' = [mgr EXCEPT !.synth = @ \cup found]
         /\ IF found = {} THEN UNCHANGED disk ELSE Save(mgr')
  /\ digest' = [digest EXCEPT ![s] = {}]
  /\ UNCHANGED <<replayed, crashes>> /\ Yielded

\* The turn fails or is cancelled while it awaits the summary.
LoseDigest(s) ==
  /\ digest[s] # {}
  /\ digest' = [digest EXCEPT ![s] = {}]
  /\ UNCHANGED <<mgr, disk, reported, replayed, crashes>> /\ Yielded
-----------------------------------------------------------------------------
(* A restart: the tasks die, _load_state reads the file and ends what was active. *)

Restart ==
  /\ crashes < MaxCrashes
  /\ \E late \in (IF Expires THEN SUBSET ActiveRuns(disk) ELSE {{}}) :
       LET m   == [NewManager EXCEPT !.st = disk.st, !.sess = disk.sess, !.resumable = disk.resumable,
                              !.attempts = disk.attempts, !.synth = disk.synth,
                              !.starts = mgr.starts]
           end == [r \in ActiveRuns(disk) |-> IF r \in late THEN "expired" ELSE "interrupted"]
       IN  mgr' = Terminate(m, ActiveRuns(disk), end, ActiveRuns(disk) \ late)
  /\ digest' = [s \in Sessions |-> {}]
  /\ replayed' = FALSE /\ resuming' = {}
  /\ crashes' = crashes + 1
  /\ UNCHANGED <<disk, reported>>

SubagentNext ==
  \/ \E r \in Runs, s \in Sessions : Spawn(r, s)
  \/ \E r \in Runs : Resume(r) \/ CancelRun(r)
  \/ \E s \in Sessions : CancelSession(s) \/ ListDigest(s) \/ MarkDigest(s) \/ LoseDigest(s)
  \/ StartupReplay \/ MaintenanceSweep \/ LateSweep
  \/ \E r \in resuming : ReplayRow(r)
  \/ \E t \in mgr.live : BeginTask(t) \/ VanishTask(t)
                         \/ \E outcome \in {"done", "failed"} : FinishTask(t, outcome)
  \/ Restart

SubagentSpec == SubagentInit /\ [][SubagentNext]_subagentVars

\* The event loop runs every task that is ready; a runner is a turn of the
\* engine, which ends; the maintenance loop sweeps again and again.
Fairness ==
  /\ WF_subagentVars(LateSweep)
  /\ WF_subagentVars(\E r \in resuming : ReplayRow(r))
  /\ \A r \in Runs, n \in 1..(MaxResume + 1) :
       LET Mine == {t \in mgr.live : t.run = r /\ t.n = n}
       IN  /\ WF_subagentVars(\E t \in Mine : BeginTask(t) \/ VanishTask(t))
           /\ WF_subagentVars(\E t \in Mine, o \in {"done", "failed"} : FinishTask(t, o))

SubagentFairSpec == SubagentSpec /\ Fairness
-----------------------------------------------------------------------------
(* Properties *)

\* The manager's tables agree: a run says queued exactly while it is once in
\* the queue, says running exactly while _tasks holds its last start, only these
\* keep a runner, the limits hold, and a resumable run has budget left.  A task
\* outside _tasks belongs to a run that expired, and no run has two tasks.
Consistent ==
  /\ \A r \in Runs :
       /\ mgr.st[r] \in Active \cup Terminal \cup {"none", "pruned"}
       /\ mgr.st[r] = "queued" <=> Contains(mgr.queue, r)
       /\ mgr.st[r] \in Active <=> r \in mgr.pending
       /\ mgr.task[r] = IF mgr.st[r] = "running" THEN mgr.starts[r] ELSE 0
       /\ r \in mgr.resumable => mgr.st[r] \in Terminal /\ HasBudget(mgr, r)
       /\ r \in mgr.synth => mgr.st[r] \in Terminal \cup {"pruned"}
       /\ Cardinality({t \in mgr.live : t.run = r}) <= 1
  /\ mgr.live \subseteq Task
  /\ \A t \in mgr.live : mgr.st[t.run] \in {"running", "expired", "pruned"}
  /\ IsInjective(mgr.queue) /\ Len(mgr.queue) <= MaxQueued
  /\ RunningCount(mgr) <= MaxRunning
  /\ \A s \in Sessions : Outstanding(mgr, s) <= Quota

\* A run waits in the queue only while every slot is taken: whatever frees a
\* slot (a worker's end, a sweep) must hand it on.
NoIdleSlot == mgr.queue # <<>> => RunningCount(mgr) = MaxRunning

\* Restarts, replays, resumes and sweeps together never start a run more often
\* than its retry budget allows.
BudgetHolds == \A r \in Runs : mgr.starts[r] <= MaxResume + 1

\* The result of a run goes into at most one reply, over restarts and lost turns.
ReportedOnce == \A r \in Runs : reported[r] <= 1

\* A run that is queued or running does not stay so: its worker ends it, or a
\* sweep finds that it has none.
EveryRunEnds == \A r \in Runs : (mgr.st[r] \in Active) ~> (mgr.st[r] \notin Active)

\* Not so: a run that expired leaves its slot before its runner has unwound.
SlotsReal == Cardinality({t \in mgr.live : t.at \in {"running", "unwinding"}}) <= MaxRunning

\* Not so: every result that no turn has reported is one that a turn of some
\* session finds.  The spawn tool puts each run into a session of its own.
ResultsReachable ==
  \A r \in Prunable(mgr) \ mgr.synth : mgr.st[r] = "pruned" \/ \E s \in Sessions : r \in Unsynthesized(s)
=============================================================================
