------------------------------ MODULE CronLease ------------------------------
(***************************************************************************)
(* clawlite/scheduler/cron.py: CronService instances (the gateway, CLI     *)
(* commands) that share the job file.  The file is rewritten as a whole    *)
(* under a lock; a job is claimed by writing a lease into its row; each    *)
(* instance keeps its own copy of the rows, _jobs, from its last access.   *)
(*                                                                         *)
(* Claims, commits and most saves run in threads: each is an action, and   *)
(* so is each slice of the loop between two awaits.  Time is abstracted:   *)
(* next_run_iso is "later", "due" or "none", and a lease is live until its *)
(* token leaves the set live.                                              *)
(***************************************************************************)
EXTENDS Naturals, Sequences, FiniteSets
LOCAL INSTANCE SequencesExt
LOCAL INSTANCE FiniteSetsExt

CONSTANTS Jobs,          \* numbers: the order of their rows in the file
          Recurring,     \* the jobs of an `every` or cron schedule; else `at`
          RunOnce,       \* the jobs with metadata run_once
          Initial,       \* the jobs that are in the file from the start
          Instances,
          Tokens, NoToken,
          MaxConcurrent, \* max_concurrent_jobs
          SlowCallbacks, \* callbacks may outlive lease_seconds
          MaxManual,     \* bound: calls of run_job
          MaxEdits,      \* bound: calls of add_job, remove_job, enable_job
          MaxStops,      \* bound: calls of stop
          MaxCrashes     \* bound: crashes of an instance

ASSUME CronAssumption ==
  /\ Jobs \subseteq Nat /\ {Recurring, RunOnce, Initial} \subseteq SUBSET Jobs
  /\ NoToken \notin Tokens /\ MaxConcurrent \in Nat \ {0} /\ SlowCallbacks \in BOOLEAN
  /\ {MaxManual, MaxEdits, MaxStops, MaxCrashes} \subseteq Nat

VARIABLES
  store,    \* the file: the rows of the jobs it has
  live,     \* the tokens whose lease_expires_iso is in the future
  owner,    \* lease_owner of each token, NoOwner before and after a restart
  up,       \* the instances whose process is alive
  looping,  \* those that run _loop
  mem,      \* _jobs of each instance
  plan,     \* the ids the loop is still to claim in this round
  claim,    \* the claim of the first of them: "idle", "asked", "got", "orphan"
  lease,    \* the token a claim got
  saver,    \* _save: "idle", "asked", "thread", "sync"
  snap,     \* the rows it is about to write
  runs,     \* the callbacks that run, or ended and are not committed
  manuals, edits, stops, crashes,
  adding,   \* history: what the add_job in progress adds
  added,    \* history: jobs add_job returned for, not removed and not completed
  successes \* history: how often each run_once job's callback succeeded

files  == <<store, live, owner>>
loops  == <<plan, claim, lease>>
saves  == <<saver, snap, adding>>
bounds == <<manuals, edits, stops, crashes>>
vars == <<files, up, looping, mem, loops, saves, runs, bounds, added, successes>>

NoOwner == "none"
Row == [enabled : BOOLEAN, next : {"none", "later", "due"}, token : Tokens \cup {NoToken}]
NewRow(next) == [enabled |-> TRUE, next |-> next, token |-> NoToken]
Without(rows, gone) == [j \in DOMAIN rows \ gone |-> rows[j]]

Init ==
  /\ store = [j \in Initial |-> NewRow("due")]
  /\ live = {} /\ owner = [t \in Tokens |-> NoOwner]
  /\ up = Instances /\ looping = {}
  /\ mem = [i \in Instances |-> store]
  /\ plan = [i \in Instances |-> <<>>] /\ claim = [i \in Instances |-> "idle"]
  /\ lease = [i \in Instances |-> NoToken]
  /\ saver = [i \in Instances |-> "idle"] /\ snap = [i \in Instances |-> Without(store, Initial)]
  /\ runs = {} /\ manuals = 0 /\ edits = 0 /\ stops = 0 /\ crashes = 0
  /\ adding = [i \in Instances |-> {}] /\ added = Initial
  /\ successes = [j \in RunOnce |-> 0]

-----------------------------------------------------------------------------
(* Time                                                                    *)

DueNow(rows, j) ==
  IF j \in DOMAIN rows /\ rows[j].next = "later" THEN [rows EXCEPT ![j].next = "due"] ELSE rows

\* next_run_iso of a job is reached, in every copy of its row.
TimePasses(j) ==
  /\ store' = DueNow(store, j)
  /\ mem' = [i \in Instances |-> DueNow(mem[i], j)]
  /\ snap' = [i \in Instances |-> DueNow(snap[i], j)]
  /\ store' # store \/ mem' # mem \/ snap' # snap
  /\ UNCHANGED <<live, owner, up, looping, loops, saver, adding, runs, bounds, added, successes>>

\* mutant: the lease of a process that is gone counts as held
HeldByDead(t) ==
  (\E r \in runs : r.token = t) \/ (\E i \in Instances : lease[i] = t) \/ owner[t] = NoOwner
Held(t) == (\E r \in runs : r.token = t) \/ \E i \in Instances : lease[i] = t

Cleared(rows, t) ==
  [j \in DOMAIN rows |-> [rows[j] EXCEPT !.token = IF @ = t THEN NoToken ELSE @]]

\* lease_seconds have passed; nothing renews the lease of a running callback.
\* An expired lease that nobody can commit with any more is the same as none.
Expire(t) ==
  /\ t \in live /\ (SlowCallbacks \/ ~Held(t))
  /\ live' = live \ {t}
  /\ IF Held(t) THEN UNCHANGED <<store, owner, mem, snap>>
     ELSE /\ store' = Cleared(store, t) /\ owner' = [owner EXCEPT ![t] = NoOwner]
          /\ mem' = [i \in Instances |-> Cleared(mem[i], t)]
          /\ snap' = [i \in Instances |-> Cleared(snap[i], t)]
  /\ UNCHANGED <<up, looping, loops, saver, adding, runs, bounds, added, successes>>

-----------------------------------------------------------------------------
(* _try_claim_job                                                          *)

\* mutant: the lease of another claim is not looked at
ClaimableAnyway(j, requireDue, force) ==
  /\ j \in DOMAIN store
  /\ store[j].enabled \/ force
  /\ requireDue => store[j].next = "due"
Claimable(j, requireDue, force) ==
  /\ j \in DOMAIN store
  /\ store[j].enabled \/ force
  /\ requireDue => store[j].next = "due"
  /\ store[j].token \notin live

TokensIn(rows) == {rows[j].token : j \in DOMAIN rows}
InUse == live \cup TokensIn(store) \cup {lease[i] : i \in Instances} \cup {r.token : r \in runs}
           \cup UNION {TokensIn(mem[i]) \cup TokensIn(snap[i]) : i \in Instances}
\* uuid4: a token nobody has, whichever
Fresh == {t \in Tokens : t \notin InUse}
NewToken == CHOOSE t \in Fresh : TRUE

WriteLease(i, j, t) ==
  /\ store' = [store EXCEPT ![j].token = t]
  /\ live' = live \cup {t} /\ owner' = [owner EXCEPT ![t] = i]
  /\ mem' = [mem EXCEPT ![i] = store']

Run(i, j, t, by) == [inst |-> i, job |-> j, token |-> t, at |-> "running", by |-> by]

-----------------------------------------------------------------------------
(* _loop                                                                   *)

Serving(i) == i \in up /\ saver[i] # "sync"

\* _running_tasks: one task per job, the last one started ("loop", else "lost")
Tracked(i) == {r \in runs : r.inst = i /\ r.by = "loop"}
FreeSlots(i) == IF Cardinality(Tracked(i)) > MaxConcurrent THEN 0
                ELSE MaxConcurrent - Cardinality(Tracked(i))

DueJobs(i) == {j \in DOMAIN mem[i] : mem[i][j].enabled /\ mem[i][j].next = "due"}
FirstOf(S, n) == LET rows == SetToSortSeq(S, <)
                 IN SubSeq(rows, 1, Min({n, Len(rows)}))

\* A round of the loop: the first due jobs, as many as there are free slots.
Tick(i) ==
  /\ Serving(i) /\ i \in looping /\ claim[i] = "idle" /\ plan[i] = <<>>
  /\ plan' = [plan EXCEPT ![i] = FirstOf(DueJobs(i), FreeSlots(i))]
  /\ plan'[i] # <<>>
  /\ claim' = [claim EXCEPT ![i] = "asked"]
  /\ UNCHANGED <<files, up, looping, mem, lease, saves, runs, bounds, added, successes>>

NextClaim(i, rest) ==
  /\ plan' = [plan EXCEPT ![i] = rest]
  /\ claim' = [claim EXCEPT ![i] = IF rest = <<>> THEN "idle" ELSE "asked"]

\* The claim's thread.  That of a cancelled loop claims all the same, and
\* nobody takes its result.
ClaimThread(i) ==
  /\ i \in up /\ claim[i] \in {"asked", "orphan"}
  /\ \/ /\ Claimable(Head(plan[i]), TRUE, FALSE) /\ Fresh # {}
        /\ WriteLease(i, Head(plan[i]), NewToken)
        /\ IF claim[i] = "asked"
           THEN /\ claim' = [claim EXCEPT ![i] = "got"] /\ UNCHANGED plan
                /\ lease' = [lease EXCEPT ![i] = NewToken]
           ELSE NextClaim(i, <<>>) /\ UNCHANGED lease
     \/ /\ ~Claimable(Head(plan[i]), TRUE, FALSE)
        /\ mem' = [mem EXCEPT ![i] = store]
        /\ NextClaim(i, IF claim[i] = "asked" THEN Tail(plan[i]) ELSE <<>>)
        /\ UNCHANGED <<files, lease>>
  /\ UNCHANGED <<up, looping, saves, runs, bounds, added, successes>>

\* The loop gets the claimed job and creates its task; an older task of the
\* same job loses its place in _running_tasks.
StartRun(i) ==
  LET j == Head(plan[i])
  IN /\ Serving(i) /\ claim[i] = "got"
     /\ runs' = {IF r \in Tracked(i) /\ r.job = j THEN [r EXCEPT !.by = "lost"] ELSE r : r \in runs}
                  \cup {Run(i, j, lease[i], "loop")}
     /\ lease' = [lease EXCEPT ![i] = NoToken]
     /\ NextClaim(i, Tail(plan[i]))
     /\ UNCHANGED <<files, up, looping, mem, saves, bounds, added, successes>>

\* run_job claims and runs a job that need not be due.
RunManually(i, j, force) ==
  /\ Serving(i) /\ manuals < MaxManual
  /\ manuals' = manuals + 1
  /\ Claimable(j, FALSE, force) /\ Fresh # {}
  /\ WriteLease(i, j, NewToken)
  /\ runs' = runs \cup {Run(i, j, NewToken, "manual")}
  /\ UNCHANGED <<up, looping, loops, saves, edits, stops, crashes, added, successes>>

-----------------------------------------------------------------------------
(* The end of a run                                                        *)

\* The callback returns; or raises, or times out.
CallbackEnds(r, ok) ==
  /\ r.at = "running"
  /\ runs' = (runs \ {r}) \cup {[r EXCEPT !.at = IF ok THEN "ok" ELSE "failed"]}
  /\ successes' = IF ok /\ r.job \in RunOnce THEN [successes EXCEPT ![r.job] = @ + 1] ELSE successes
  /\ UNCHANGED <<files, up, looping, mem, loops, saves, bounds, added>>

\* _compute_next: an `at` job that failed keeps its run_at_iso.
NextRun(j, ok, next) ==
  IF j \in Recurring THEN "later"
  ELSE IF ok THEN "none"
  ELSE IF next = "later" THEN "later" ELSE "due"

\* mutant: the job is kept
KeepRow(j, ok) == {}
\* a run_once job that succeeded is removed
Finished(j, ok) == IF ok /\ j \in RunOnce THEN {j} ELSE {}

Settled(j, ok) ==
  [store EXCEPT ![j] = [enabled |-> @.enabled /\ (ok => j \in Recurring),
                        next    |-> NextRun(j, ok, @.next),
                        token   |-> NoToken]]

\* mutant: the token is not compared
AnyRun(r) == r.job \in DOMAIN store
Mine(r) == r.job \in DOMAIN store /\ store[r.job].token = r.token

\* _commit_job_result: only the holder of the lease changes the row.
Commit(r) ==
  /\ r.at \in {"ok", "failed"} /\ r.inst \in up
  /\ runs' = runs \ {r}
  /\ LET ok   == r.at = "ok"
         gone == IF Mine(r) THEN Finished(r.job, ok) ELSE {}
     IN /\ store' = IF Mine(r) THEN Without(Settled(r.job, ok), gone) ELSE store
        /\ added' = added \ gone
  /\ mem' = [mem EXCEPT ![r.inst] = store']
  /\ UNCHANGED <<live, owner, up, looping, loops, saves, bounds, successes>>

-----------------------------------------------------------------------------
(* _run_cleanup_pass                                                       *)

\* Expired leases are cleared; completed jobs go after their retention.
Sweep(i) ==
  /\ Serving(i) /\ i \in looping /\ claim[i] = "idle"
  /\ \E gone \in SUBSET {j \in DOMAIN store : ~store[j].enabled /\ store[j].next = "none"} :
       /\ store' = Without([j \in DOMAIN store |->
                              [store[j] EXCEPT !.token = IF @ \in live THEN @ ELSE NoToken]], gone)
       /\ added' = added \ gone
  /\ mem' = [mem EXCEPT ![i] = store']
  /\ store' # store \/ mem' # mem
  /\ UNCHANGED <<live, owner, up, looping, loops, saves, runs, bounds, successes>>

-----------------------------------------------------------------------------
(* The edits.  An instance saves one at a time here.                       *)

Edits(i) ==
  /\ Serving(i) /\ saver[i] = "idle"
  /\ edits < MaxEdits /\ edits' = edits + 1

AddJob(i, j) ==
  /\ Edits(i)
  /\ j \notin added \cup Initial /\ \A k \in Instances : j \notin DOMAIN mem[k] \cup DOMAIN snap[k]
  /\ mem' = [mem EXCEPT ![i] = [k \in DOMAIN @ \cup {j} |-> IF k = j THEN NewRow("later") ELSE @[k]]]
  /\ saver' = [saver EXCEPT ![i] = "asked"] /\ adding' = [adding EXCEPT ![i] = {j}]
  /\ UNCHANGED <<files, up, looping, loops, snap, runs, manuals, stops, crashes, added, successes>>

\* The thread of _save_async copies the rows the instance has by then ...
SaveThread(i) ==
  /\ saver[i] = "asked"
  /\ snap' = [snap EXCEPT ![i] = mem[i]] /\ saver' = [saver EXCEPT ![i] = "thread"]
  /\ UNCHANGED <<files, up, looping, mem, loops, adding, runs, bounds, added, successes>>

SaveNow(i, rows) ==
  /\ mem' = [mem EXCEPT ![i] = rows]
  /\ snap' = [snap EXCEPT ![i] = rows] /\ saver' = [saver EXCEPT ![i] = "sync"]

RemoveJob(i, j) ==
  /\ Edits(i) /\ j \in DOMAIN mem[i]
  /\ SaveNow(i, Without(mem[i], {j}))
  /\ added' = added \ {j}
  /\ UNCHANGED <<files, up, looping, loops, adding, runs, manuals, stops, crashes, successes>>

EnableJob(i, j, on) ==
  /\ Edits(i) /\ j \in DOMAIN mem[i]
  /\ SaveNow(i, [mem[i] EXCEPT ![j].enabled = on,
                               ![j].next = IF on /\ @ = "none" THEN NextRun(j, FALSE, @) ELSE @])
  /\ UNCHANGED <<files, up, looping, loops, adding, runs, manuals, stops, crashes, added, successes>>

\* ... and rewrites the file with them.
Write(i) ==
  /\ saver[i] \in {"thread", "sync"}
  /\ store' = snap[i]
  /\ snap' = [snap EXCEPT ![i] = Without(@, DOMAIN @)]
  /\ saver' = [saver EXCEPT ![i] = "idle"]
  /\ added' = added \cup adding[i] /\ adding' = [adding EXCEPT ![i] = {}]
  /\ UNCHANGED <<live, owner, up, looping, mem, loops, runs, bounds, successes>>

-----------------------------------------------------------------------------
(* Processes                                                               *)

Start(i) ==
  /\ Serving(i) /\ i \notin looping /\ claim[i] = "idle"
  /\ looping' = looping \cup {i}
  /\ UNCHANGED <<files, up, mem, loops, saves, runs, bounds, added, successes>>

\* _release_owned_leases
Released(i) ==
  [j \in DOMAIN store |->
     [store[j] EXCEPT !.token = IF @ # NoToken /\ owner[@] = i THEN NoToken ELSE @]]

\* stop: the loop and its tasks are cancelled, then all leases this instance
\* owns are released, those of run_job included.  The thread of a claim or a
\* commit is cancelled only while it waits for the executor.
Stop(i) ==
  /\ Serving(i) /\ i \in looping /\ stops < MaxStops
  /\ stops' = stops + 1
  /\ looping' = looping \ {i}
  /\ \/ claim[i] = "asked" /\ claim' = [claim EXCEPT ![i] = "orphan"] /\ UNCHANGED plan
     \/ claim' = [claim EXCEPT ![i] = "idle"] /\ plan' = [plan EXCEPT ![i] = <<>>]
  /\ lease' = [lease EXCEPT ![i] = NoToken]
  /\ \E on \in SUBSET {r \in Tracked(i) : r.at # "running"} :
       runs' = (runs \ Tracked(i)) \cup {[r EXCEPT !.by = "lost"] : r \in on}
  /\ store' = Released(i)
  /\ mem' = [mem EXCEPT ![i] = store']
  /\ UNCHANGED <<live, owner, up, saves, manuals, edits, crashes, added, successes>>

Crash(i) ==
  /\ i \in up /\ crashes < MaxCrashes
  /\ crashes' = crashes + 1
  /\ up' = up \ {i} /\ looping' = looping \ {i}
  /\ mem' = [mem EXCEPT ![i] = Without(@, DOMAIN @)]
  /\ plan' = [plan EXCEPT ![i] = <<>>] /\ claim' = [claim EXCEPT ![i] = "idle"]
  /\ lease' = [lease EXCEPT ![i] = NoToken]
  /\ saver' = [saver EXCEPT ![i] = "idle"] /\ snap' = [snap EXCEPT ![i] = Without(@, DOMAIN @)]
  /\ adding' = [adding EXCEPT ![i] = {}]
  /\ runs' = {r \in runs : r.inst # i}
  /\ owner' = [t \in Tokens |-> IF owner[t] = i THEN NoOwner ELSE owner[t]]
  /\ UNCHANGED <<store, live, manuals, edits, stops, added, successes>>

\* A new process, a new _instance_id: it reads the file.
Boot(i) ==
  /\ i \notin up /\ up' = up \cup {i}
  /\ mem' = [mem EXCEPT ![i] = store]
  /\ UNCHANGED <<files, looping, loops, saves, runs, bounds, added, successes>>

-----------------------------------------------------------------------------
Loop(i) == Tick(i) \/ StartRun(i) \/ Sweep(i)
Ends(r) == \E ok \in BOOLEAN : CallbackEnds(r, ok)

Next ==
  \/ \E j \in Jobs : TimePasses(j)
  \/ \E t \in Tokens : Expire(t)
  \/ \E i \in Instances :
       \/ Loop(i)
       \/ ClaimThread(i)
       \/ \E j \in Jobs, force \in BOOLEAN : RunManually(i, j, force)
       \/ \E j \in Jobs : AddJob(i, j) \/ RemoveJob(i, j) \/ \E on \in BOOLEAN : EnableJob(i, j, on)
       \/ SaveThread(i) \/ Write(i)
       \/ Start(i) \/ Stop(i) \/ Crash(i) \/ Boot(i)
  \/ \E r \in runs : Ends(r) \/ Commit(r)

Spec == Init /\ [][Next]_vars

\* A job is in a round of an instance's loop.
Takes(i, j) == Tick(i) /\ j \in ToSet(plan'[i])

\* Time passes, processes are restarted, threads and tasks go on, and callbacks
\* end by their timeout.  A round starts every 0.05 s while a job is due, and
\* next_run_iso is at least 1 s after a commit: a job that waits is reached by
\* some round if rounds that reach it keep being possible (SF).
Fairness ==
  /\ \A j \in Jobs : WF_vars(TimePasses(j))
  /\ \A t \in Tokens : WF_vars(Expire(t))
  /\ \A i \in Instances :
       /\ \A j \in Jobs : SF_vars(Takes(i, j))
       /\ WF_vars(StartRun(i)) /\ WF_vars(ClaimThread(i))
       /\ WF_vars(Sweep(i)) /\ WF_vars(SaveThread(i)) /\ WF_vars(Write(i))
       /\ WF_vars(Start(i)) /\ WF_vars(Boot(i))
  /\ \A i \in Instances, j \in Jobs :
       WF_vars(\E r \in runs : r.inst = i /\ r.job = j /\ (Ends(r) \/ Commit(r)))

FairSpec == Spec /\ Fairness
-----------------------------------------------------------------------------
(* Properties                                                              *)

Rows == UNION {[S -> Row] : S \in SUBSET Jobs}
Runs == [inst : Instances, job : Jobs, token : Tokens, at : {"running", "ok", "failed"},
         by : {"loop", "lost", "manual"}]

\* Every variable stays in its range; a claim under way has its job in the
\* plan, and at most one task per job is tracked.
TypeOK ==
  /\ store \in Rows /\ live \subseteq Tokens /\ owner \in [Tokens -> Instances \cup {NoOwner}]
  /\ looping \subseteq up /\ up \subseteq Instances
  /\ mem \in [Instances -> Rows] /\ snap \in [Instances -> Rows]
  /\ \A i \in Instances : plan[i] \in Seq(Jobs) /\ (claim[i] # "idle" <=> plan[i] # <<>>)
  /\ claim \in [Instances -> {"idle", "asked", "got", "orphan"}]
  /\ \A i \in Instances : claim[i] = "got" <=> lease[i] \in Tokens
  /\ saver \in [Instances -> {"idle", "asked", "thread", "sync"}]
  /\ runs \subseteq Runs /\ successes \in [RunOnce -> Nat]
  /\ \A i \in Instances : \A r, s \in Tracked(i) : r.job = s.job => r = s

Running == {r \in runs : r.at = "running"}

\* The lease fences a job: no two callbacks of it run at the same time,
\* whatever instances claim, stop, crash and restart.
OneRunPerJob == \A r, s \in Running : r.job = s.job => r = s

\* While a lease is live its row is the holder's: no claim, sweep or late commit
\* of a run that lost its lease changes the token, only the holder's commit and
\* the stop of its instance do.
LeaseFences ==
  [][\A j \in DOMAIN store :
       store[j].token \in live \cap live' =>
         \/ j \in DOMAIN store' /\ store'[j].token = store[j].token
         \/ \E r \in runs \ runs' : r.token = store[j].token /\ r.at # "running"
         \/ stops' > stops]_vars

\* A run_once job succeeds once, or once more for each stop or crash that came
\* between its callback and the commit.
OnceIsOnce == \A j \in RunOnce : successes[j] <= 1 + stops + crashes

\* A recurring job that stays in the file and enabled keeps running: the lease of
\* a process that died in a claim or a callback, or of a claim that a stop left
\* to its thread, is recovered; failures are retried, the job before it in the
\* table does not starve it, and an edit that races with the loop leaves it
\* scheduled.
RecurringRuns ==
  \A j \in Recurring :
    []<>((\E r \in Running : r.job = j) \/ j \notin DOMAIN store \/ ~store[j].enabled)

\* A job add_job returned for is in the file until it is removed or completed.
AddedJobsKept == \A j \in added : j \in DOMAIN store

\* A stopped instance leaves no lease behind: a restart can run its jobs at once.
StopReleases ==
  \A i \in up \ looping : claim[i] = "idle" /\ manuals = 0 =>
    \A j \in DOMAIN store : store[j].token \in live => owner[store[j].token] # i

=============================================================================
