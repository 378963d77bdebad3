----------------------------- MODULE MCJobQueue -----------------------------
(* An instance of JobQueue: two jobs of two priorities, one of them with a *)
(* retry, two workers.                                                     *)
EXTENDS JobQueue, TLC

CONSTANTS j1, j2, w1, w2

MCJobs    == {j1, j2}
MCWorkers == {w1, w2}
MCPrio    == (j1 :> 1) @@ (j2 :> 0)
MCBudget  == (j1 :> 1) @@ (j2 :> 0)
=============================================================================
