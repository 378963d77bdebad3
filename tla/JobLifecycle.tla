---------------------------- MODULE JobLifecycle ----------------------------
(***************************************************************************)
(* What the job queue promises about the durable record of a job, whatever *)
(* the number of workers, cancellations and process crashes: a job is      *)
(* accepted once, only an accepted job runs, a failed attempt is retried   *)
(* at most Budget[j] times, and a finished job never changes again.        *)
(***************************************************************************)
EXTENDS Naturals

CONSTANTS Jobs,     \* the ids submit() hands out
          Budget    \* max_retries of each job

VARIABLES st,       \* the status a reader of the record finds
          tries     \* the retries it records

lifecycleVars == <<st, tries>>

Finished == {"done", "failed", "cancelled"}

LifecycleInit == /\ st = [j \in Jobs |-> "none"]
                 /\ tries = [j \in Jobs |-> 0]

Become(j, from, to) == /\ st[j] = from
                       /\ st' = [st EXCEPT ![j] = to]

Accept(j)   == Become(j, "none", "queued") /\ UNCHANGED tries
Withdraw(j) == Become(j, "queued", "cancelled") /\ UNCHANGED tries
Begin(j)    == Become(j, "queued", "running") /\ UNCHANGED tries
Retry(j)    == /\ Become(j, "running", "queued")
               /\ tries[j] < Budget[j]
               /\ tries' = [tries EXCEPT ![j] = @ + 1]
Finish(j)   == /\ \E to \in Finished : Become(j, "running", to)
               /\ UNCHANGED tries

LifecycleNext == \E j \in Jobs : \/ Accept(j) \/ Withdraw(j) \/ Begin(j)
                                 \/ Retry(j) \/ Finish(j)

LifecycleSpec == LifecycleInit /\ [][LifecycleNext]_lifecycleVars
=============================================================================
