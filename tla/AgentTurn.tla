------------------------------- MODULE AgentTurn -------------------------------
(***************************************************************************)
(* The turns of one session in the agent engine (core/engine.py): run and  *)
(* stream_run queue for the session's lock, read the history, drive the    *)
(* provider and its tools under the turn's budgets, write the session's    *)
(* rows in a worker thread and leave the memory write to a task of its     *)
(* own.  Another session shares none of this state.                        *)
(*                                                                         *)
(* Every await is a boundary between steps: other turns, a stop request, a *)
(* cancellation and a failure come between any two of them.  A tool call   *)
(* is its signature and its outcome; that a name or the arguments do not   *)
(* parse is an outcome "error" like any other.  The transcript is the      *)
(* sequence of the turns that wrote it, one entry for a block of rows.     *)
(* Turns are shorter than the 30 minutes after which a stop request        *)
(* expires.                                                                *)
(***************************************************************************)
EXTENDS Integers, FiniteSets, SequencesExt

CONSTANTS
  Turns,          \* the turns asked of the session, each once
  Streams,        \* the turns asked through stream_run
  Lookups,        \* the turns whose question requires a live lookup
  Tools,          \* tool signatures (name and arguments)
  LookupTools,    \* those whose success is evidence of a live lookup
  Plans,          \* the lists of tool calls the provider may ask for
  MaxIterations,  \* budget.max_iterations
  MaxToolCalls,   \* budget.max_tool_calls
  HistorySize,    \* loop_detection.history_size
  Repeat,         \* loop_detection.repeat_threshold
  Diagnostic,     \* _DIAGNOSTIC_SWITCH_THRESHOLD
  Impatient       \* whether a turn may be cancelled again while it waits for its rows

ASSUME TurnAssumption ==
  /\ Streams \subseteq Turns /\ Lookups \subseteq Turns /\ LookupTools \subseteq Tools
  /\ Plans \subseteq Seq(Tools) \ {<<>>}
  /\ MaxIterations \in Nat \ {0} /\ MaxToolCalls \in Nat \ {0}
  /\ HistorySize \in Nat \ {0} /\ Repeat \in Nat \ {0} /\ Diagnostic \in Nat \ {0}
  /\ Impatient \in BOOLEAN

VARIABLES
  at,       \* where each turn stands
  full,     \* the turns that run as a blocking turn: not streamed, or fallen back
  queue,    \* the session's lock: its holder, then the turns that wait for it
  run,      \* the locals of the turn that holds the lock
  writing,  \* turns whose rows a worker thread is writing
  rows,     \* the transcript
  memory,   \* the deferred memory write of each turn: "none", "pending" or "settled"
  stop      \* whether _stop_requests holds the session

vars == <<at, full, queue, run, writing, rows, memory, stop>>

\* The places of a turn in its loop, and past the reading of its prompt.  A turn at
\* "requesting" or "announcing" has looked for a stop request and reports to its channel
\* (_emit_progress) that it is about to call; without a hook nobody comes in between.
InLoop == {"round", "requesting", "asking", "noting", "tools", "announcing", "calling", "answering"}
Announcing == {"requesting", "announcing"}
Reading == InLoop \union {"streaming", "finishing", "writing"}

\* run holds what a turn knows besides, and four facts no code keeps: told, that a stop
\* was requested in its loop; passed, that it was announcing a call then; after, how
\* many calls it has begun since; looped, the round in which a detector last caught it.

Fresh == [iter |-> 0, used |-> 0, plan |-> <<>>, final |-> "", recovered |-> FALSE,
          again |-> FALSE, asked |-> FALSE, log |-> <<>>, plans |-> <<>>,
          told |-> FALSE, passed |-> FALSE, after |-> 0, looped |-> 0]

Init ==
  /\ at = [t \in Turns |-> "new"]
  /\ full = Turns \ Streams
  /\ queue = <<>>
  /\ run = Fresh
  /\ writing = {}
  /\ rows = <<>>
  /\ memory = [t \in Turns |-> "none"]
  /\ stop = FALSE

Holds(t) == queue # <<>> /\ Head(queue) = t

----------------------------------------------------------------------------
(* The loop detectors look at the last history_size calls, of which each   *)
(* is a record of a signature and an outcome.                              *)

\* The calls of the history, by their place in the log, that have this signature.
Same(log, sig) ==
  {i \in DOMAIN log : i > Len(log) - HistorySize /\ log[i].sig = sig}

\* The last repeat_threshold of a set of places.
Latest(places) ==
  {i \in places : Cardinality({j \in places : j > i}) < Repeat}

\* mutant: only the latest calls count, an other call between two of them hides the loop
RepeatsInARow(log, sig) ==
  /\ Len(log) >= Repeat /\ HistorySize >= Repeat
  /\ \A i \in (Len(log) - Repeat + 1)..Len(log) : log[i] = [sig |-> sig, out |-> log[Len(log)].out]

\* _detect_tool_loop: the latest calls with this signature all had one outcome.
Repeats(log, sig) ==
  LET same == Same(log, sig)
  IN  Cardinality(same) >= Repeat /\ \A i, j \in Latest(same) : log[i].out = log[j].out

\* _detect_ping_pong_loop: with the call at hand, two signatures have alternated
\* for max(4, 2 * repeat_threshold) steps, each with one outcome.
PingPong(log, sig) ==
  LET n == Len(log)
      k == (IF Repeat < 2 THEN 4 ELSE 2 * Repeat) - 1
  IN  /\ n >= k /\ HistorySize >= k
      /\ log[n].sig # sig
      /\ \A i \in 0..(k - 1) :
           /\ log[n - i].sig = IF i % 2 = 0 THEN log[n].sig ELSE sig
           /\ i >= 2 => log[n - i].out = log[n - i + 2].out

\* _detect_provider_plan_loop: the latest plans were all this one.
SamePlan(plans, plan) ==
  /\ Len(plans) >= Repeat /\ HistorySize >= Repeat
  /\ \A i \in (Len(plans) - Repeat + 1)..Len(plans) : plans[i] = plan

\* How often this call has failed in the turn (failure_fingerprint_counts).
Failures(log, sig) == Cardinality({i \in DOMAIN log : log[i].sig = sig /\ log[i].out = "error"})

\* What a detector does: the text is set, and one notice per turn lets it go on.
Caught(r) ==
  LET goesOn == ~r.recovered /\ r.iter < MaxIterations
  IN  [r EXCEPT !.final = "loop", !.plan = <<>>, !.looped = r.iter, !.again = goesOn,
                !.recovered = @ \/ goesOn]

----------------------------------------------------------------------------
(* Rows, memory and the lock.                                              *)

\* The turn gives the lock back, or stops waiting for it.  The consumer of a stream
\* still has to take what the producer has put in its queue.
Leave(t) ==
  /\ queue' = RemoveFirst(queue, t)
  /\ at' = [at EXCEPT ![t] = IF t \in Streams THEN "closing" ELSE "done"]
  /\ run' = IF Holds(t) THEN Fresh ELSE run

Goto(t, where) == at' = [at EXCEPT ![t] = where]

\* A worker thread is given the rows; the turn goes on when it has ended.
StartWrite(t, where) == Goto(t, where) /\ writing' = writing \union {t}

Land(t) ==
  /\ t \in writing
  /\ writing' = writing \ {t}
  /\ rows' = IF rows # <<>> /\ Last(rows) = t THEN rows ELSE Append(rows, t)
  /\ UNCHANGED <<at, full, queue, run, memory, stop>>

\* The write raises, and the turn that awaits it raises too.
LandFails(t) ==
  /\ t \in writing
  /\ writing' = writing \ {t}
  /\ IF at[t] \in {"noting", "answering", "writing"} THEN Leave(t) ELSE UNCHANGED <<at, queue, run>>
  /\ UNCHANGED <<full, rows, memory, stop>>

\* The deferred memory write of t ends; its errors are logged.
Remember(t) ==
  /\ memory[t] = "pending"
  /\ memory' = [memory EXCEPT ![t] = "settled"]
  /\ UNCHANGED <<at, full, queue, run, writing, rows, stop>>

----------------------------------------------------------------------------
(* A turn is asked, reads its prompt, is told to stop or is cancelled.      *)

Ask(t) ==
  /\ at[t] \in {"new", "refused"}
  /\ Goto(t, "waiting")
  /\ full' = IF at[t] = "refused" THEN full \union {t} ELSE full
  /\ queue' = Append(queue, t)
  /\ UNCHANGED <<run, writing, rows, memory, stop>>

Enter(t) ==
  /\ at[t] = "waiting" /\ Holds(t)
  /\ Goto(t, "preparing")
  /\ UNCHANGED <<full, queue, run, writing, rows, memory, stop>>

\* mutant: the prompt is read while the last turn's memory is still being written
PreparedEarly(t) ==
  /\ at[t] = "preparing" /\ t \in full
  /\ Goto(t, "round")
  /\ UNCHANGED <<full, queue, run, writing, rows, memory, stop>>

\* The prompt is read once the deferred memory write of the session has ended.
Prepared(t) ==
  /\ at[t] = "preparing" /\ t \in full
  /\ \A u \in Turns : memory[u] # "pending"
  /\ Goto(t, "round")
  /\ UNCHANGED <<full, queue, run, writing, rows, memory, stop>>

\* A history or a memory policy that cannot be read raises, and so may a stream.
Raises(t) ==
  /\ at[t] \in {"preparing", "streaming"}
  /\ Leave(t)
  /\ UNCHANGED <<full, writing, rows, memory, stop>>

RequestStop ==
  /\ ~stop
  /\ stop' = TRUE
  /\ run' = IF queue = <<>> \/ at[Head(queue)] \notin InLoop THEN run
            ELSE [run EXCEPT !.told = TRUE, !.passed = at[Head(queue)] \in Announcing, !.after = 0]
  /\ UNCHANGED <<at, full, queue, writing, rows, memory>>

\* mutant: a cancelled turn leaves the thread that writes its rows behind
CancelAtOnce(t) ==
  /\ at[t] \in Reading \union {"waiting", "preparing", "refused"}
  /\ Leave(t)
  /\ UNCHANGED <<full, writing, rows, memory, stop>>

\* /stop, a timeout of the caller or a consumer that goes away cancels the task: at
\* once, but for the write of its rows, which it waits for unless it is cancelled
\* again.  Its stop request stays.
Cancel(t) ==
  /\ at[t] \in Reading \union {"waiting", "preparing", "refused"}
                      \union (IF Impatient THEN {"unwinding"} ELSE {})
  /\ IF t \in writing /\ at[t] # "unwinding"
     THEN Goto(t, "unwinding") /\ run' = Fresh /\ UNCHANGED queue
     ELSE Leave(t)
  /\ UNCHANGED <<full, writing, rows, memory, stop>>

\* mutant: the lock is given back only by a turn that ends
UnwoundLocked(t) ==
  /\ at[t] = "unwinding" /\ t \notin writing
  /\ Goto(t, "done")
  /\ UNCHANGED <<full, queue, run, writing, rows, memory, stop>>

Unwound(t) ==
  /\ at[t] = "unwinding" /\ t \notin writing
  /\ Leave(t)
  /\ UNCHANGED <<full, writing, rows, memory, stop>>

----------------------------------------------------------------------------
(* The loop of _run_serialized.                                             *)

\* A step of the loop: the turn moves on with these locals.
Loop(t, where, r) ==
  /\ Goto(t, where)
  /\ run' = r
  /\ UNCHANGED <<full, queue, writing, rows, memory, stop>>

NextRound(t) ==
  /\ at[t] = "round" /\ run.iter < MaxIterations
  /\ LET r == [run EXCEPT !.iter = @ + 1] IN
     IF stop THEN Loop(t, "finishing", [r EXCEPT !.final = "stopped"])
     ELSE Loop(t, "requesting", r)

\* The turn begins a call; one after a stop request is counted.
Counted(r) == IF r.told THEN [r EXCEPT !.after = @ + 1] ELSE r

CallProvider(t) ==
  /\ at[t] = "requesting"
  /\ Loop(t, "asking", Counted(run))

NoRoundLeft(t) ==
  /\ at[t] = "round" /\ run.iter = MaxIterations
  /\ Loop(t, "finishing", [run EXCEPT !.final = IF @ = "" THEN "limit" ELSE @])

ProviderFails(t) ==
  /\ at[t] = "asking"
  /\ Loop(t, "finishing", [run EXCEPT !.final = "error"])

\* A turn that must look something up has evidence of it.
Verified(t) == t \in Lookups => \E i \in DOMAIN run.log :
                 run.log[i].sig \in LookupTools /\ run.log[i].out = "ok"

\* The provider answers without a tool call.
ProviderAnswers(t) ==
  /\ at[t] = "asking"
  /\ IF Verified(t) THEN Loop(t, "finishing", [run EXCEPT !.final = "answer"])
     ELSE IF LookupTools # {} /\ ~run.asked /\ run.iter < MaxIterations
     THEN Loop(t, "round", [run EXCEPT !.asked = TRUE])
     ELSE Loop(t, "finishing", [run EXCEPT !.final = "unverified"])

\* It asks for tools; the calls go into the transcript before the first one runs.
ProviderPlans(t, plan) ==
  /\ at[t] = "asking"
  /\ IF SamePlan(run.plans, plan)
     THEN LET r == Caught(run) IN
          Loop(t, IF r.again THEN "round" ELSE "finishing", [r EXCEPT !.again = FALSE])
     ELSE /\ StartWrite(t, "noting")
          /\ run' = [run EXCEPT !.plan = plan, !.plans = Append(@, plan)]
          /\ UNCHANGED <<full, queue, rows, memory, stop>>

CallsNoted(t) ==
  /\ at[t] = "noting" /\ t \notin writing
  /\ Loop(t, "tools", run)

\* mutant: a stop request is not looked for between two tools
NextToolDeaf(t) ==
  /\ at[t] = "tools" /\ run.plan # <<>>
  /\ LET sig == Head(run.plan)
     IN  IF run.used >= MaxToolCalls
         THEN Loop(t, "tools", [run EXCEPT !.final = "budget", !.plan = <<>>])
         ELSE IF Repeats(run.log, sig) \/ PingPong(run.log, sig)
         THEN Loop(t, "tools", Caught(run))
         ELSE Loop(t, "announcing", [run EXCEPT !.used = @ + 1])

\* The next tool of the plan, unless the turn was stopped, is out of budget or loops.
NextTool(t) ==
  /\ at[t] = "tools" /\ run.plan # <<>>
  /\ LET sig == Head(run.plan)
     IN  IF stop THEN Loop(t, "tools", [run EXCEPT !.final = "stopped", !.plan = <<>>])
         ELSE IF run.used >= MaxToolCalls
         THEN Loop(t, "tools", [run EXCEPT !.final = "budget", !.plan = <<>>])
         ELSE IF Repeats(run.log, sig) \/ PingPong(run.log, sig)
         THEN Loop(t, "tools", Caught(run))
         ELSE Loop(t, "announcing", [run EXCEPT !.used = @ + 1])

CallTool(t) ==
  /\ at[t] = "announcing"
  /\ Loop(t, "calling", Counted(run))

\* A tool's result, or its error, is a row; the third failure of a call ends the plan.
ToolReturns(t, out) ==
  /\ at[t] = "calling"
  /\ StartWrite(t, "answering")
  /\ LET log == Append(run.log, [sig |-> Head(run.plan), out |-> out])
         switch == out = "error" /\ Failures(log, Head(run.plan)) = Diagnostic
     IN  run' = [run EXCEPT !.log = log, !.plan = IF switch THEN <<>> ELSE Tail(@)]
  /\ UNCHANGED <<full, queue, rows, memory, stop>>

ResultNoted(t) ==
  /\ at[t] = "answering" /\ t \notin writing
  /\ Loop(t, "tools", run)

\* No tool is left: the loop goes on after a recovery, or while there is no final text.
PlanDone(t) ==
  /\ at[t] = "tools" /\ run.plan = <<>>
  /\ Loop(t, IF run.again \/ run.final = "" THEN "round" ELSE "finishing",
          [run EXCEPT !.again = FALSE])

\* After the digest and the enforcement of the identity, the last rows.
Finish(t) ==
  /\ at[t] = "finishing"
  /\ StartWrite(t, "writing")
  /\ UNCHANGED <<full, queue, run, rows, memory, stop>>

\* The turn is over.  An answer that may be kept goes to the memory as well.
EndTurn(t) ==
  /\ at[t] = "writing" /\ t \notin writing
  /\ \E keep \in BOOLEAN :
       memory' = IF keep /\ run.final \notin {"error", "unverified"} /\ (t \in full \/ run.final = "answer")
                 THEN [memory EXCEPT ![t] = "pending"] ELSE memory
  /\ stop' = (stop /\ t \notin full)
  /\ Leave(t)
  /\ UNCHANGED <<full, writing, rows>>

----------------------------------------------------------------------------
(* The producer and the consumer of stream_run.                             *)

\* The question, or the first chunk, asks for a full run: the lock is given back and
\* the consumer calls run, behind the turns that wait by then.
Fallback(t) ==
  /\ \/ at[t] = "preparing" /\ t \notin full /\ \A u \in Turns : memory[u] # "pending"
     \/ at[t] = "streaming" /\ ~stop /\ run.used = 0
  /\ queue' = RemoveFirst(queue, t)
  /\ Goto(t, "refused")
  /\ run' = Fresh
  /\ UNCHANGED <<full, writing, rows, memory, stop>>

StreamPrepared(t) ==
  /\ at[t] = "preparing" /\ t \notin (full \union Lookups)
  /\ \A u \in Turns : memory[u] # "pending"
  /\ Loop(t, "streaming", run)

\* A chunk with text to show (used counts the first); after it no full run is possible.
StreamChunk(t) ==
  /\ at[t] = "streaming" /\ ~stop /\ run.used = 0
  /\ Loop(t, "streaming", [run EXCEPT !.used = 1])

\* The last chunk, with or without an error, or a stop seen while waiting for one.
StreamEnds(t) ==
  /\ at[t] = "streaming"
  /\ IF stop THEN Loop(t, "finishing", [run EXCEPT !.final = "stopped"])
     ELSE \E final \in {"answer", "error"} : Loop(t, "finishing", [run EXCEPT !.final = final])

\* The consumer has read the end of the stream, and clears the session's stop request.
CloseStream(t) ==
  /\ at[t] = "closing"
  /\ Goto(t, "done")
  /\ stop' = FALSE
  /\ run' = [run EXCEPT !.told = FALSE, !.passed = FALSE, !.after = 0]
  /\ UNCHANGED <<full, queue, writing, rows, memory>>

----------------------------------------------------------------------------
Step(t) ==
  \/ Enter(t) \/ Prepared(t) \/ NextRound(t) \/ CallProvider(t) \/ NoRoundLeft(t)
  \/ ProviderFails(t) \/ ProviderAnswers(t) \/ \E plan \in Plans : ProviderPlans(t, plan)
  \/ CallsNoted(t) \/ NextTool(t) \/ CallTool(t) \/ \E out \in {"ok", "error"} : ToolReturns(t, out)
  \/ ResultNoted(t) \/ PlanDone(t) \/ Finish(t) \/ EndTurn(t) \/ Unwound(t)
  \/ StreamPrepared(t) \/ StreamEnds(t) \/ CloseStream(t)
  \/ Land(t) \/ Remember(t) \/ (at[t] = "refused" /\ Ask(t))

Next ==
  \/ RequestStop
  \/ \E t \in Turns :
       Step(t) \/ Ask(t) \/ LandFails(t) \/ Raises(t) \/ Cancel(t) \/ Fallback(t) \/ StreamChunk(t)

Spec == Init /\ [][Next]_vars

\* The event loop runs what is ready; the provider, the tools and the worker threads
\* answer (their clients have timeouts), and a consumer reads its stream.
FairSpec == Spec /\ \A t \in Turns : WF_vars(Step(t))

----------------------------------------------------------------------------
(* Properties.                                                              *)

\* A turn that has read its history and memory (_prepare_turn_prompt) read what the
\* turns before it left: none of their deferred memory writes is still under way
\* while the turn runs, whichever of them was cancelled, failed or streamed.
HistoryComplete ==
  \A t, u \in Turns : at[t] \in Reading => memory[u] # "pending"

\* The rows of two turns never mix in the transcript: a cancelled turn keeps the lock
\* until the thread that writes its rows has ended, and a stream that falls back has
\* written nothing before.
RowsContiguous == \A i, j \in DOMAIN rows : rows[i] = rows[j] => i = j

\* Of a call and the history_size executed before it in the turn, no more than
\* repeat_threshold have the same signature and all the same outcome: a recovery, a
\* diagnostic switch or a new plan in between does not let a loop run on.
LoopCaught ==
  \A last \in DOMAIN run.log :
    LET same == {i \in (last - HistorySize)..last :
                   i \in DOMAIN run.log /\ run.log[i].sig = run.log[last].sig}
    IN  Cardinality(same) > Repeat => \E i, j \in same : run.log[i].out # run.log[j].out

\* Once a stop was requested of a turn in its loop, the turn asks the provider for no
\* further step and runs no further tool, but for one call: the one it was announcing
\* to its channel when the request came.  A stream of the session that ended before and
\* is read to its end in between takes the request away (CloseStream).
StopObeyed == run.after <= (IF run.passed THEN 1 ELSE 0)

\* A loop notice is the reply only of a turn that was caught in its last round (the
\* recovery notice asks for a materially different approach, engine.py:996).
LoopIsLast == \A t \in Turns :
  at[t] = "finishing" /\ run.final = "loop" => run.looped = run.iter

\* Every turn asked ends and its consumer has its reply.
EveryTurnEnds == \A t \in Turns : at[t] = "waiting" ~> at[t] = "done"

=============================================================================
