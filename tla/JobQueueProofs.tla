--------------------------- MODULE JobQueueProofs ---------------------------
(***************************************************************************)
(* Proofs about JobQueue for any number of jobs and workers, any           *)
(* priorities and retry budgets and any number of crashes.                 *)
(***************************************************************************)
EXTENDS JobQueue, TLAPS

\* A dead process has no memory; a worker stands in one place, and only a
\* started queue has workers.
Shape ==
  /\ ~up => /\ status = [j \in Jobs |-> "none"]
            /\ promised = {}
            /\ at = [w \in Workers |-> "off"]
  /\ signal = "none" => \A w \in Workers : at[w] = "off"
  /\ \A w \in Workers : at[w] = "busy" <=> inner[w] # "none"

\* An id that was not submitted is known nowhere, nor has it a retry.
KnownSubmitted ==
  \A j \in Jobs \ submitted : /\ status[j] = "none" /\ jStatus[j] = "none"
                              /\ retries[j] = 0 /\ jRetries[j] = 0

\* What cancel() promised is kept by the flag or by the final status.
PromiseKept ==
  \A j \in promised : cancelReq[j] \/ status[j] = "cancelled"

\* Where a job stands bounds the starts of its handler by its retries.
StartsCounted ==
  ~SaveMayFail => \A j \in Jobs :
    /\ starts[j] <= Budget[j] + 1
    /\ retries[j] <= Budget[j] /\ jRetries[j] <= Budget[j]
    /\ status[j] = "none" => retries[j] = 0
    /\ status[j] = "queued" => starts[j] <= retries[j]
    /\ status[j] = "running" => starts[j] <= retries[j] + 1
    /\ (\E w \in Workers : at[w] = "picked" /\ holds[w] = j) => starts[j] <= retries[j]
    /\ j \notin submitted => starts[j] = 0
    /\ JournalOn /\ jStatus[j] = "queued" => starts[j] <= jRetries[j]

\* The inductive invariant.
IInv ==
  /\ TypeOK /\ Shape /\ OneRunner /\ NothingStranded /\ KnownSubmitted
  /\ PromiseKept /\ JournalAgrees /\ StartsCounted

-----------------------------------------------------------------------------
(* Types.  A worker that works holds a job only because of Shape and       *)
(* OneRunner, so TypeOK is not inductive alone.                            *)

\* Whatever ends an attempt that is not retried, the job is finished.
LEMMA FinalStatusIsFinished == \A outcome \in Outcomes : FinalStatus[outcome] \in Finished
BY DEF Outcomes, FinalStatus, Finished

\* The end of _run_job keeps every variable it writes in its range.
LEMMA SettleTypes ==
  ASSUME TypeOK, NEW w \in Workers, NEW outcome \in Outcomes, holds[w] \in Jobs,
         Settle(w, outcome)
  PROVE  /\ signal' \in {"none", "clear", "set"}
         /\ status' \in [Jobs -> Statuses] /\ retries' \in [Jobs -> Nat]
         /\ pending' \subseteq Jobs
         /\ at' \in [Workers -> Places] /\ holds' \in [Workers -> Jobs \cup {NoJob}]
         /\ inner' \in [Workers -> Outcomes \cup {"none", "live", "cancelling"}]
         /\ mustCancel' \subseteq Workers
         /\ jStatus' \in [Jobs -> Statuses] /\ jRetries' \in [Jobs -> Nat]
<1> USE DEF TypeOK, Statuses, Finished, Places, Settle, SetStatus, Save, journalVars
<1>1. FinalStatus[outcome] \in Finished
  BY FinalStatusIsFinished
<1>2. CASE outcome = "error" /\ MayRetry(holds[w])
  BY <1>2 DEF Counted, Push, Woken
<1>3. CASE ~(outcome = "error" /\ MayRetry(holds[w]))
  BY <1>1, <1>3
<1>4. QED
  BY <1>2, <1>3

\* Every action keeps the types.
LEMMA TypeStep == ASSUME TypeOK, Shape, OneRunner, [Next]_vars PROVE TypeOK'
<1> USE JobQueueAssumption
    DEF TypeOK, Shape, OneRunner, jobVars, workerVars, journalVars, history,
           Finished, Statuses, Outcomes, Places, Yielded, AtHead, SetStatus, Push, Woken, Save
<1>1. ASSUME NEW j \in Jobs, Submit(j) PROVE TypeOK'
  BY <1>1 DEF Submit
<1>2. ASSUME NEW j \in Jobs, CancelQueued(j) PROVE TypeOK'
  BY <1>2 DEF CancelQueued
<1>3. ASSUME NEW j \in Jobs, CancelRunning(j) PROVE TypeOK'
  BY <1>3 DEF CancelRunning, RequestCancel
<1>4. ASSUME Start PROVE TypeOK'
  BY <1>4 DEF Start
<1>5. ASSUME Stop PROVE TypeOK'
  BY <1>5 DEF Stop
<1>6. ASSUME NEW w \in Workers, Leave(w) PROVE TypeOK'
  BY <1>6 DEF Leave
<1>7. ASSUME NEW w \in Workers, NEW j \in Jobs, Pick(w, j) PROVE TypeOK'
  BY <1>7 DEF Pick, Queued, Popped
<1>8. ASSUME NEW w \in Workers, FindNothing(w) PROVE TypeOK'
  BY <1>8 DEF FindNothing, Queued
<1>9. ASSUME NEW w \in Workers, WakeUp(w) PROVE TypeOK'
  BY <1>9 DEF WakeUp
<1>10. ASSUME NEW w \in Workers, Drop(w) PROVE TypeOK'
  <2>1. holds[w] \in Jobs
    BY <1>10 DEF Drop
  <2>2. Settle(w, "cancelled")
    BY <1>10 DEF Drop
  <2>. QED
    BY <1>10, <2>1, <2>2, SettleTypes DEF Drop
<1>11. ASSUME NEW w \in Workers, Launch(w) PROVE TypeOK'
  BY <1>11 DEF Launch
<1>12. ASSUME NEW w \in Workers, NoHandler(w) PROVE TypeOK'
  <2>1. holds[w] \in Jobs
    BY <1>12 DEF NoHandler
  <2>2. Settle(w, "error")
    BY <1>12 DEF NoHandler
  <2>. QED
    BY <1>12, <2>1, <2>2, SettleTypes DEF NoHandler
<1>13. ASSUME NEW w \in Workers, Resume(w) PROVE TypeOK'
  <2>1. holds[w] \in Jobs
    BY <1>13 DEF Resume
  <2>2. PICK outcome \in Outcomes : Settle(w, outcome)
    BY <1>13 DEF Resume
  <2>. QED
    BY <1>13, <2>1, <2>2, SettleTypes DEF Resume
<1>14. ASSUME NEW w \in Workers, NEW outcome \in Outcomes, HandlerEnds(w, outcome) PROVE TypeOK'
  BY <1>14 DEF HandlerEnds
<1>15. ASSUME Crash PROVE TypeOK'
  <2>1. crashes' \in 0..MaxCrashes
    BY <1>15 DEF Crash
  <2>2. QED
    BY <1>15, <2>1 DEF Crash
<1>16. ASSUME Boot PROVE TypeOK'
  BY <1>16 DEF Boot, Restored
<1>17. CASE UNCHANGED vars
  BY <1>17 DEF vars
<1>18. QED
  BY <1>1, <1>2, <1>3, <1>4, <1>5, <1>6, <1>7, <1>8, <1>9, <1>10, <1>11, <1>12, <1>13, <1>14, <1>15, <1>16, <1>17 DEF Next, Worker

\* A job has one runner.  A queued job has none, so a worker may take it.
LEMMA OneRunnerStep == ASSUME IInv, [Next]_vars PROVE OneRunner'
<1> USE JobQueueAssumption, TypeStep
    DEF IInv, TypeOK, Shape, KnownSubmitted, OneRunner,
           jobVars, workerVars, journalVars, history,
           Finished, Statuses, Outcomes, Places, Yielded, AtHead, SetStatus, Push, Woken, Save
<1>1. ASSUME NEW j \in Jobs, Submit(j) PROVE OneRunner'
  BY <1>1 DEF Submit
<1>2. ASSUME NEW j \in Jobs, CancelQueued(j) PROVE OneRunner'
  BY <1>2 DEF CancelQueued
<1>3. ASSUME NEW j \in Jobs, CancelRunning(j) PROVE OneRunner'
  BY <1>3 DEF CancelRunning, RequestCancel
<1>4. ASSUME Start PROVE OneRunner'
  BY <1>4 DEF Start
<1>5. ASSUME Stop PROVE OneRunner'
  BY <1>5 DEF Stop
<1>6. ASSUME NEW w \in Workers, Leave(w) PROVE OneRunner'
  BY <1>6 DEF Leave
<1>7. ASSUME NEW w \in Workers, NEW j \in Jobs, Pick(w, j) PROVE OneRunner'
  BY <1>7 DEF Pick, Queued, Popped
<1>8. ASSUME NEW w \in Workers, FindNothing(w) PROVE OneRunner'
  BY <1>8 DEF FindNothing, Queued
<1>9. ASSUME NEW w \in Workers, WakeUp(w) PROVE OneRunner'
  BY <1>9 DEF WakeUp
<1>10. ASSUME NEW w \in Workers, Drop(w) PROVE OneRunner'
  BY SMTT(30), <1>10 DEF Drop, Settle, MayRetry, Counted, FinalStatus
<1>11. ASSUME NEW w \in Workers, Launch(w) PROVE OneRunner'
  BY <1>11 DEF Launch
<1>12. ASSUME NEW w \in Workers, NoHandler(w) PROVE OneRunner'
  BY SMTT(30), <1>12 DEF NoHandler, Settle, MayRetry, Counted, FinalStatus
<1>13. ASSUME NEW w \in Workers, Resume(w) PROVE OneRunner'
  BY SMTT(30), <1>13 DEF Resume, Settle, MayRetry, Counted, FinalStatus
<1>14. ASSUME NEW w \in Workers, NEW outcome \in Outcomes, HandlerEnds(w, outcome) PROVE OneRunner'
  BY <1>14 DEF HandlerEnds
<1>15. ASSUME Crash PROVE OneRunner'
  BY <1>15 DEF Crash
<1>16. ASSUME Boot PROVE OneRunner'
  BY <1>16 DEF Boot, Restored
<1>17. CASE UNCHANGED vars
  BY <1>17 DEF vars
<1>18. QED
  BY <1>1, <1>2, <1>3, <1>4, <1>5, <1>6, <1>7, <1>8, <1>9, <1>10, <1>11, <1>12, <1>13, <1>14, <1>15, <1>16, <1>17 DEF Next, Worker

\* The shape of the workers.
LEMMA ShapeStep == ASSUME IInv, [Next]_vars PROVE Shape'
<1> USE JobQueueAssumption, TypeStep
    DEF IInv, TypeOK, OneRunner, Shape,
           jobVars, workerVars, journalVars, history,
           Finished, Statuses, Outcomes, Places, Yielded, AtHead, SetStatus, Push, Woken, Save
<1>1. ASSUME NEW j \in Jobs, Submit(j) PROVE Shape'
  BY <1>1 DEF Submit
<1>2. ASSUME NEW j \in Jobs, CancelQueued(j) PROVE Shape'
  BY <1>2 DEF CancelQueued
<1>3. ASSUME NEW j \in Jobs, CancelRunning(j) PROVE Shape'
  BY <1>3 DEF CancelRunning, RequestCancel
<1>4. ASSUME Start PROVE Shape'
  BY <1>4 DEF Start
<1>5. ASSUME Stop PROVE Shape'
  BY <1>5 DEF Stop
<1>6. ASSUME NEW w \in Workers, Leave(w) PROVE Shape'
  BY <1>6 DEF Leave
<1>7. ASSUME NEW w \in Workers, NEW j \in Jobs, Pick(w, j) PROVE Shape'
  BY <1>7 DEF Pick, Queued, Popped
<1>8. ASSUME NEW w \in Workers, FindNothing(w) PROVE Shape'
  BY <1>8 DEF FindNothing, Queued
<1>9. ASSUME NEW w \in Workers, WakeUp(w) PROVE Shape'
  BY <1>9 DEF WakeUp
<1>10. ASSUME NEW w \in Workers, Drop(w) PROVE Shape'
  BY <1>10 DEF Drop, Settle, MayRetry, Counted, FinalStatus
<1>11. ASSUME NEW w \in Workers, Launch(w) PROVE Shape'
  BY <1>11 DEF Launch
<1>12. ASSUME NEW w \in Workers, NoHandler(w) PROVE Shape'
  BY <1>12 DEF NoHandler, Settle, MayRetry, Counted, FinalStatus
<1>13. ASSUME NEW w \in Workers, Resume(w) PROVE Shape'
  BY <1>13 DEF Resume, Settle, MayRetry, Counted, FinalStatus
<1>14. ASSUME NEW w \in Workers, NEW outcome \in Outcomes, HandlerEnds(w, outcome) PROVE Shape'
  BY <1>14 DEF HandlerEnds
<1>15. ASSUME Crash PROVE Shape'
  BY <1>15 DEF Crash
<1>16. ASSUME Boot PROVE Shape'
  BY <1>16 DEF Boot, Restored
<1>17. CASE UNCHANGED vars
  BY <1>17 DEF vars
<1>18. QED
  BY <1>1, <1>2, <1>3, <1>4, <1>5, <1>6, <1>7, <1>8, <1>9, <1>10, <1>11, <1>12, <1>13, <1>14, <1>15, <1>16, <1>17 DEF Next, Worker

\* No queued job without its heap entry, and none that a worker sleeps on.
LEMMA NothingStrandedStep == ASSUME IInv, [Next]_vars PROVE NothingStranded'
<1> USE JobQueueAssumption, TypeStep
    DEF IInv, TypeOK, Shape, OneRunner, NothingStranded,
           jobVars, workerVars, journalVars, history,
           Finished, Statuses, Outcomes, Places, Yielded, AtHead, SetStatus, Push, Woken, Save
<1>1. ASSUME NEW j \in Jobs, Submit(j) PROVE NothingStranded'
  BY <1>1 DEF Submit
<1>2. ASSUME NEW j \in Jobs, CancelQueued(j) PROVE NothingStranded'
  BY <1>2 DEF CancelQueued
<1>3. ASSUME NEW j \in Jobs, CancelRunning(j) PROVE NothingStranded'
  BY <1>3 DEF CancelRunning, RequestCancel
<1>4. ASSUME Start PROVE NothingStranded'
  BY <1>4 DEF Start
<1>5. ASSUME Stop PROVE NothingStranded'
  BY <1>5 DEF Stop
<1>6. ASSUME NEW w \in Workers, Leave(w) PROVE NothingStranded'
  BY <1>6 DEF Leave
<1>7. ASSUME NEW w \in Workers, NEW j \in Jobs, Pick(w, j) PROVE NothingStranded'
  BY <1>7 DEF Pick, Queued, Popped
<1>8. ASSUME NEW w \in Workers, FindNothing(w) PROVE NothingStranded'
  BY <1>8 DEF FindNothing, Queued
<1>9. ASSUME NEW w \in Workers, WakeUp(w) PROVE NothingStranded'
  BY <1>9 DEF WakeUp
<1>10. ASSUME NEW w \in Workers, Drop(w) PROVE NothingStranded'
  BY <1>10 DEF Drop, Settle, MayRetry, Counted, FinalStatus
<1>11. ASSUME NEW w \in Workers, Launch(w) PROVE NothingStranded'
  BY <1>11 DEF Launch
<1>12. ASSUME NEW w \in Workers, NoHandler(w) PROVE NothingStranded'
  BY <1>12 DEF NoHandler, Settle, MayRetry, Counted, FinalStatus
<1>13. ASSUME NEW w \in Workers, Resume(w) PROVE NothingStranded'
  BY <1>13 DEF Resume, Settle, MayRetry, Counted, FinalStatus
<1>14. ASSUME NEW w \in Workers, NEW outcome \in Outcomes, HandlerEnds(w, outcome) PROVE NothingStranded'
  BY <1>14 DEF HandlerEnds
<1>15. ASSUME Crash PROVE NothingStranded'
  BY <1>15 DEF Crash
<1>16. ASSUME Boot PROVE NothingStranded'
  BY <1>16 DEF Boot, Restored
<1>17. CASE UNCHANGED vars
  BY <1>17 DEF vars
<1>18. QED
  BY <1>1, <1>2, <1>3, <1>4, <1>5, <1>6, <1>7, <1>8, <1>9, <1>10, <1>11, <1>12, <1>13, <1>14, <1>15, <1>16, <1>17 DEF Next, Worker

\* Known ids were submitted.
LEMMA KnownSubmittedStep == ASSUME IInv, [Next]_vars PROVE KnownSubmitted'
<1> USE JobQueueAssumption, TypeStep
    DEF IInv, TypeOK, Shape, OneRunner, KnownSubmitted,
           jobVars, workerVars, journalVars, history,
           Finished, Statuses, Outcomes, Places, Yielded, AtHead, SetStatus, Push, Woken, Save
<1>1. ASSUME NEW j \in Jobs, Submit(j) PROVE KnownSubmitted'
  BY <1>1 DEF Submit
<1>2. ASSUME NEW j \in Jobs, CancelQueued(j) PROVE KnownSubmitted'
  BY <1>2 DEF CancelQueued
<1>3. ASSUME NEW j \in Jobs, CancelRunning(j) PROVE KnownSubmitted'
  BY <1>3 DEF CancelRunning, RequestCancel
<1>4. ASSUME Start PROVE KnownSubmitted'
  BY <1>4 DEF Start
<1>5. ASSUME Stop PROVE KnownSubmitted'
  BY <1>5 DEF Stop
<1>6. ASSUME NEW w \in Workers, Leave(w) PROVE KnownSubmitted'
  BY <1>6 DEF Leave
<1>7. ASSUME NEW w \in Workers, NEW j \in Jobs, Pick(w, j) PROVE KnownSubmitted'
  BY <1>7 DEF Pick, Queued, Popped
<1>8. ASSUME NEW w \in Workers, FindNothing(w) PROVE KnownSubmitted'
  BY <1>8 DEF FindNothing, Queued
<1>9. ASSUME NEW w \in Workers, WakeUp(w) PROVE KnownSubmitted'
  BY <1>9 DEF WakeUp
<1>10. ASSUME NEW w \in Workers, Drop(w) PROVE KnownSubmitted'
  BY <1>10 DEF Drop, Settle, MayRetry, Counted, FinalStatus
<1>11. ASSUME NEW w \in Workers, Launch(w) PROVE KnownSubmitted'
  BY <1>11 DEF Launch
<1>12. ASSUME NEW w \in Workers, NoHandler(w) PROVE KnownSubmitted'
  BY <1>12 DEF NoHandler, Settle, MayRetry, Counted, FinalStatus
<1>13. ASSUME NEW w \in Workers, Resume(w) PROVE KnownSubmitted'
  BY <1>13 DEF Resume, Settle, MayRetry, Counted, FinalStatus
<1>14. ASSUME NEW w \in Workers, NEW outcome \in Outcomes, HandlerEnds(w, outcome) PROVE KnownSubmitted'
  BY <1>14 DEF HandlerEnds
<1>15. ASSUME Crash PROVE KnownSubmitted'
  BY <1>15 DEF Crash
<1>16. ASSUME Boot PROVE KnownSubmitted'
  BY <1>16 DEF Boot, Restored
<1>17. CASE UNCHANGED vars
  BY <1>17 DEF vars
<1>18. QED
  BY <1>1, <1>2, <1>3, <1>4, <1>5, <1>6, <1>7, <1>8, <1>9, <1>10, <1>11, <1>12, <1>13, <1>14, <1>15, <1>16, <1>17 DEF Next, Worker

\* A cancellation that was promised stays in force.
LEMMA PromiseKeptStep == ASSUME IInv, [Next]_vars PROVE PromiseKept'
<1> USE JobQueueAssumption, TypeStep
    DEF IInv, TypeOK, Shape, OneRunner, KnownSubmitted, PromiseKept,
           jobVars, workerVars, journalVars, history,
           Finished, Statuses, Outcomes, Places, Yielded, AtHead, SetStatus, Push, Woken, Save
<1>1. ASSUME NEW j \in Jobs, Submit(j) PROVE PromiseKept'
  BY <1>1 DEF Submit
<1>2. ASSUME NEW j \in Jobs, CancelQueued(j) PROVE PromiseKept'
  BY <1>2 DEF CancelQueued
<1>3. ASSUME NEW j \in Jobs, CancelRunning(j) PROVE PromiseKept'
  BY <1>3 DEF CancelRunning, RequestCancel
<1>4. ASSUME Start PROVE PromiseKept'
  BY <1>4 DEF Start
<1>5. ASSUME Stop PROVE PromiseKept'
  BY <1>5 DEF Stop
<1>6. ASSUME NEW w \in Workers, Leave(w) PROVE PromiseKept'
  BY <1>6 DEF Leave
<1>7. ASSUME NEW w \in Workers, NEW j \in Jobs, Pick(w, j) PROVE PromiseKept'
  BY <1>7 DEF Pick, Queued, Popped
<1>8. ASSUME NEW w \in Workers, FindNothing(w) PROVE PromiseKept'
  BY <1>8 DEF FindNothing, Queued
<1>9. ASSUME NEW w \in Workers, WakeUp(w) PROVE PromiseKept'
  BY <1>9 DEF WakeUp
<1>10. ASSUME NEW w \in Workers, Drop(w) PROVE PromiseKept'
  BY <1>10 DEF Drop, Settle, MayRetry, Counted, FinalStatus
<1>11. ASSUME NEW w \in Workers, Launch(w) PROVE PromiseKept'
  BY <1>11 DEF Launch
<1>12. ASSUME NEW w \in Workers, NoHandler(w) PROVE PromiseKept'
  BY <1>12 DEF NoHandler, Settle, MayRetry, Counted, FinalStatus
<1>13. ASSUME NEW w \in Workers, Resume(w) PROVE PromiseKept'
  BY <1>13 DEF Resume, Settle, MayRetry, Counted, FinalStatus
<1>14. ASSUME NEW w \in Workers, NEW outcome \in Outcomes, HandlerEnds(w, outcome) PROVE PromiseKept'
  BY <1>14 DEF HandlerEnds
<1>15. ASSUME Crash PROVE PromiseKept'
  BY <1>15 DEF Crash
<1>16. ASSUME Boot PROVE PromiseKept'
  BY <1>16 DEF Boot, Restored
<1>17. CASE UNCHANGED vars
  BY <1>17 DEF vars
<1>18. QED
  BY <1>1, <1>2, <1>3, <1>4, <1>5, <1>6, <1>7, <1>8, <1>9, <1>10, <1>11, <1>12, <1>13, <1>14, <1>15, <1>16, <1>17 DEF Next, Worker

\* The journal and the memory agree.
LEMMA JournalAgreesStep == ASSUME IInv, [Next]_vars PROVE JournalAgrees'
<1> USE JobQueueAssumption, TypeStep
    DEF IInv, TypeOK, Shape, OneRunner, KnownSubmitted, JournalAgrees,
           jobVars, workerVars, journalVars, history,
           Finished, Statuses, Outcomes, Places, Yielded, AtHead, SetStatus, Push, Woken, Save
<1>1. ASSUME NEW j \in Jobs, Submit(j) PROVE JournalAgrees'
  BY <1>1 DEF Submit
<1>2. ASSUME NEW j \in Jobs, CancelQueued(j) PROVE JournalAgrees'
  BY <1>2 DEF CancelQueued
<1>3. ASSUME NEW j \in Jobs, CancelRunning(j) PROVE JournalAgrees'
  BY <1>3 DEF CancelRunning, RequestCancel
<1>4. ASSUME Start PROVE JournalAgrees'
  BY <1>4 DEF Start
<1>5. ASSUME Stop PROVE JournalAgrees'
  BY <1>5 DEF Stop
<1>6. ASSUME NEW w \in Workers, Leave(w) PROVE JournalAgrees'
  BY <1>6 DEF Leave
<1>7. ASSUME NEW w \in Workers, NEW j \in Jobs, Pick(w, j) PROVE JournalAgrees'
  BY <1>7 DEF Pick, Queued, Popped
<1>8. ASSUME NEW w \in Workers, FindNothing(w) PROVE JournalAgrees'
  BY <1>8 DEF FindNothing, Queued
<1>9. ASSUME NEW w \in Workers, WakeUp(w) PROVE JournalAgrees'
  BY <1>9 DEF WakeUp
<1>10. ASSUME NEW w \in Workers, Drop(w) PROVE JournalAgrees'
  BY <1>10 DEF Drop, Settle, MayRetry, Counted, FinalStatus
<1>11. ASSUME NEW w \in Workers, Launch(w) PROVE JournalAgrees'
  BY <1>11 DEF Launch
<1>12. ASSUME NEW w \in Workers, NoHandler(w) PROVE JournalAgrees'
  BY <1>12 DEF NoHandler, Settle, MayRetry, Counted, FinalStatus
<1>13. ASSUME NEW w \in Workers, Resume(w) PROVE JournalAgrees'
  BY <1>13 DEF Resume, Settle, MayRetry, Counted, FinalStatus
<1>14. ASSUME NEW w \in Workers, NEW outcome \in Outcomes, HandlerEnds(w, outcome) PROVE JournalAgrees'
  BY <1>14 DEF HandlerEnds
<1>15. ASSUME Crash PROVE JournalAgrees'
  BY <1>15 DEF Crash
<1>16. ASSUME Boot PROVE JournalAgrees'
  BY <1>16 DEF Boot, Restored
<1>17. CASE UNCHANGED vars
  BY <1>17 DEF vars
<1>18. QED
  BY <1>1, <1>2, <1>3, <1>4, <1>5, <1>6, <1>7, <1>8, <1>9, <1>10, <1>11, <1>12, <1>13, <1>14, <1>15, <1>16, <1>17 DEF Next, Worker

\* Starts are paid for with retries.
LEMMA StartsCountedStep == ASSUME IInv, [Next]_vars PROVE StartsCounted'
<1> USE JobQueueAssumption, TypeStep
    DEF IInv, TypeOK, Shape, OneRunner, KnownSubmitted, JournalAgrees, StartsCounted,
           jobVars, workerVars, journalVars, history,
           Finished, Statuses, Outcomes, Places, Yielded, AtHead, SetStatus, Push, Woken, Save
<1>1. ASSUME NEW j \in Jobs, Submit(j) PROVE StartsCounted'
  BY <1>1 DEF Submit
<1>2. ASSUME NEW j \in Jobs, CancelQueued(j) PROVE StartsCounted'
  BY <1>2 DEF CancelQueued
<1>3. ASSUME NEW j \in Jobs, CancelRunning(j) PROVE StartsCounted'
  BY <1>3 DEF CancelRunning, RequestCancel
<1>4. ASSUME Start PROVE StartsCounted'
  BY <1>4 DEF Start
<1>5. ASSUME Stop PROVE StartsCounted'
  BY <1>5 DEF Stop
<1>6. ASSUME NEW w \in Workers, Leave(w) PROVE StartsCounted'
  BY <1>6 DEF Leave
<1>7. ASSUME NEW w \in Workers, NEW j \in Jobs, Pick(w, j) PROVE StartsCounted'
  BY <1>7 DEF Pick, Queued, Popped
<1>8. ASSUME NEW w \in Workers, FindNothing(w) PROVE StartsCounted'
  BY <1>8 DEF FindNothing, Queued
<1>9. ASSUME NEW w \in Workers, WakeUp(w) PROVE StartsCounted'
  BY <1>9 DEF WakeUp
<1>10. ASSUME NEW w \in Workers, Drop(w) PROVE StartsCounted'
  BY <1>10 DEF Drop, Settle, MayRetry, Counted, FinalStatus
<1>11. ASSUME NEW w \in Workers, Launch(w) PROVE StartsCounted'
  <2>1. /\ holds[w] \in Jobs /\ status[holds[w]] = "running"
        /\ \A v \in Workers : holds[v] = holds[w] => v = w
    BY <1>11 DEF Launch
  <2>2. \A k \in Jobs : starts'[k] = IF k = holds[w] THEN starts[k] + 1 ELSE starts[k]
    BY <1>11, <2>1 DEF Launch
  <2>3. /\ status' = status /\ retries' = retries /\ jStatus' = jStatus
        /\ jRetries' = jRetries /\ submitted' = submitted /\ holds' = holds
        /\ \A v \in Workers : at'[v] = "picked" => at[v] = "picked" /\ v # w
    BY <1>11 DEF Launch
  <2>4. ~SaveMayFail => starts[holds[w]] <= retries[holds[w]]
    BY <1>11, <2>1 DEF Launch
  <2>. QED
    BY <2>1, <2>2, <2>3, <2>4
<1>12. ASSUME NEW w \in Workers, NoHandler(w) PROVE StartsCounted'
  BY <1>12 DEF NoHandler, Settle, MayRetry, Counted, FinalStatus
<1>13. ASSUME NEW w \in Workers, Resume(w) PROVE StartsCounted'
  BY <1>13 DEF Resume, Settle, MayRetry, Counted, FinalStatus
<1>14. ASSUME NEW w \in Workers, NEW outcome \in Outcomes, HandlerEnds(w, outcome) PROVE StartsCounted'
  BY <1>14 DEF HandlerEnds
<1>15. ASSUME Crash PROVE StartsCounted'
  BY <1>15 DEF Crash
<1>16. ASSUME Boot PROVE StartsCounted'
  BY <1>16 DEF Boot, Restored
<1>17. CASE UNCHANGED vars
  BY <1>17 DEF vars
<1>18. QED
  BY <1>1, <1>2, <1>3, <1>4, <1>5, <1>6, <1>7, <1>8, <1>9, <1>10, <1>11, <1>12, <1>13, <1>14, <1>15, <1>16, <1>17 DEF Next, Worker

-----------------------------------------------------------------------------
(* The invariant                                                           *)

\* The invariant holds in an empty queue.
LEMMA InitIInv == Init => IInv
<1> USE JobQueueAssumption
<1>1. Init => TypeOK
  <2>1. Init => crashes \in 0..MaxCrashes
    BY DEF Init
  <2>2. Init => /\ status \in [Jobs -> Statuses] /\ jStatus \in [Jobs -> Statuses]
                /\ at \in [Workers -> Places] /\ holds \in [Workers -> Jobs \cup {NoJob}]
                /\ inner \in [Workers -> Outcomes \cup {"none", "live", "cancelling"}]
    BY DEF Init, Statuses, Places
  <2>3. Init => /\ retries \in [Jobs -> Nat] /\ jRetries \in [Jobs -> Nat]
                /\ starts \in [Jobs -> Nat] /\ cancelReq \in [Jobs -> BOOLEAN]
    BY DEF Init
  <2>4. QED
    BY <2>1, <2>2, <2>3 DEF Init, TypeOK
<1>2. Init => Shape /\ OneRunner
  BY DEF Init, Shape, OneRunner
<1>3. Init => NothingStranded /\ KnownSubmitted /\ PromiseKept /\ JournalAgrees
  BY DEF Init, NothingStranded, KnownSubmitted, PromiseKept, JournalAgrees
<1>4. Init => StartsCounted
  BY DEF Init, StartsCounted
<1>5. QED
  BY <1>1, <1>2, <1>3, <1>4 DEF IInv

\* Every action preserves the invariant.
LEMMA StepIInv == IInv /\ [Next]_vars => IInv'
BY TypeStep, OneRunnerStep, ShapeStep, NothingStrandedStep, KnownSubmittedStep,
   PromiseKeptStep, JournalAgreesStep, StartsCountedStep DEF IInv

\* Every reachable state of the queue satisfies the invariant.
THEOREM Invariance == Spec => []IInv
BY InitIInv, StepIInv, PTL DEF Spec

\* Every variable of the queue, its workers and its journal keeps its type.
THEOREM TypeCorrect == Spec => []TypeOK
BY Invariance, PTL DEF IInv

\* At any time a job is run by at most one worker of the pool, by exactly one
\* when it is "running", and never while it is also waiting in the heap.
THEOREM JobHasOneRunner == Spec => []OneRunner
BY Invariance, PTL DEF IInv

\* A queued job has its heap entry and no worker sleeps while one exists, also
\* when journal writes fail and whatever the number of workers.
THEOREM NoJobStranded == Spec => []NothingStranded
BY Invariance, PTL DEF IInv

\* The journal agrees with the memory of the process that is alive.
THEOREM JournalInSync == Spec => []JournalAgrees
BY Invariance, PTL DEF IInv

\* While saving works a job's handler is started at most max_retries + 1 times
\* over any number of crashes and restarts.
THEOREM AttemptsAreBounded == Spec => []AttemptsBounded
<1>1. IInv => AttemptsBounded
  BY DEF IInv, StartsCounted, AttemptsBounded
<1>2. QED
  BY <1>1, Invariance, PTL

\* Once cancel() returned True, this process starts the handler no more.
THEOREM CancellationIsFinal == Spec => CancelIsFinal
<1>1. ASSUME IInv, [Next]_vars, NEW j \in promised PROVE starts'[j] = starts[j]
  <2> USE <1>1 DEF IInv, TypeOK, OneRunner, PromiseKept
  <2>1. ASSUME NEW w \in Workers, Launch(w) PROVE starts'[j] = starts[j]
    <3>1. holds[w] # j
      BY <2>1 DEF Launch
    <3>2. QED
      BY <2>1, <3>1 DEF Launch
  <2>2. CASE UNCHANGED starts
    BY <2>2
  <2>3. Next => UNCHANGED starts \/ \E w \in Workers : Launch(w)
    BY DEF Next, Worker, Submit, CancelQueued, CancelRunning, Start, Stop, Leave, Pick,
           FindNothing, WakeUp, Drop, NoHandler, Resume, HandlerEnds, Crash, Boot, history
  <2>4. UNCHANGED vars => UNCHANGED starts
    BY DEF vars, history
  <2>5. QED
    BY <2>1, <2>2, <2>3, <2>4
<1>2. IInv /\ [Next]_vars => [NotStartedAgain]_vars
  BY <1>1 DEF NotStartedAgain
<1>3. QED
  BY <1>2, Invariance, PTL DEF Spec, CancelIsFinal

-----------------------------------------------------------------------------
(* Refinement: the journal implements JobLifecycle.                        *)

\* A slice of a task moves the row of at most one job, along its life cycle.
LEMMA RowStep ==
  ASSUME ~SaveMayFail, IInv, [Next]_vars
  PROVE  [Durable!LifecycleNext]_<<jStatus, jRetries>>
<1> USE JobQueueAssumption
    DEF IInv, TypeOK, OneRunner, KnownSubmitted, JournalAgrees, journalVars, history, workerVars,
        Save, SetStatus, Durable!LifecycleNext, Durable!Become
<1>1. ASSUME NEW j \in Jobs, Submit(j) PROVE Durable!Accept(j) \/ UNCHANGED journalVars
  BY <1>1 DEF Submit, Durable!Accept
<1>2. ASSUME NEW j \in Jobs, CancelQueued(j) PROVE Durable!Withdraw(j) \/ UNCHANGED journalVars
  BY <1>2 DEF CancelQueued, Durable!Withdraw
<1>3. ASSUME NEW w \in Workers, NEW j \in Jobs, Pick(w, j)
      PROVE  Durable!Begin(j) \/ UNCHANGED journalVars
  BY <1>3 DEF Pick, Queued, Durable!Begin
<1>4. ASSUME NEW w \in Workers, NEW outcome \in Outcomes, at[w] \in {"picked", "busy"},
             Settle(w, outcome)
      PROVE  Durable!Retry(holds[w]) \/ Durable!Finish(holds[w]) \/ UNCHANGED journalVars
  <2>1. holds[w] \in Jobs /\ status[holds[w]] = "running"
    BY <1>4
  <2>2. CASE outcome = "error" /\ MayRetry(holds[w])
    BY <1>4, <2>1, <2>2 DEF Settle, MayRetry, Counted, Durable!Retry
  <2>3. CASE ~(outcome = "error" /\ MayRetry(holds[w]))
    BY <1>4, <2>1, <2>3, FinalStatusIsFinished DEF Settle, Finished, Durable!Finish, Durable!Finished
  <2>4. QED
    BY <2>2, <2>3
<1>5. ASSUME NEW w \in Workers, Drop(w) \/ NoHandler(w) \/ Resume(w)
      PROVE  \/ holds[w] \in Jobs /\ (Durable!Retry(holds[w]) \/ Durable!Finish(holds[w]))
             \/ UNCHANGED journalVars
  <2>1. at[w] \in {"picked", "busy"} /\ holds[w] \in Jobs
    BY <1>5 DEF Shape, Drop, NoHandler, Resume, Outcomes
  <2>2. \E outcome \in Outcomes : Settle(w, outcome)
    BY <1>5 DEF Drop, NoHandler, Resume, Outcomes
  <2>3. QED
    BY <1>4, <2>1, <2>2
<1>6. ASSUME Start \/ Stop \/ Crash \/ Boot PROVE UNCHANGED journalVars
  BY <1>6 DEF Start, Stop, Crash, Boot
<1>7. ASSUME NEW j \in Jobs, CancelRunning(j) PROVE UNCHANGED journalVars
  BY <1>7 DEF CancelRunning
<1>8. ASSUME NEW w \in Workers, Leave(w) \/ FindNothing(w) \/ WakeUp(w) \/ Launch(w)
      PROVE  UNCHANGED journalVars
  BY <1>8 DEF Leave, FindNothing, WakeUp, Launch
<1>9. ASSUME NEW w \in Workers, NEW outcome \in Outcomes, HandlerEnds(w, outcome)
      PROVE  UNCHANGED journalVars
  BY <1>9 DEF HandlerEnds
<1>10. CASE UNCHANGED vars
  BY <1>10 DEF vars
<1>11. QED
  BY <1>1, <1>2, <1>3, <1>5, <1>6, <1>7, <1>8, <1>9, <1>10 DEF Next, Worker

\* Whatever the workers, cancellations and crashes do, a reader of the journal
\* sees every job move along its life cycle, as long as saving works.
THEOREM JournalImplementsLifecycle == ASSUME ~SaveMayFail PROVE Spec => LifecycleHolds
<1>1. Init => Durable!LifecycleInit
  BY DEF Init, Durable!LifecycleInit
<1>2. IInv /\ [Next]_vars => [Durable!LifecycleNext]_<<jStatus, jRetries>>
  BY RowStep
<1>3. QED
  BY <1>1, <1>2, Invariance, PTL
  DEF Spec, LifecycleHolds, Durable!LifecycleSpec, Durable!lifecycleVars
=============================================================================
