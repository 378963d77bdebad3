# ClawLite in TLA+

ClawLite is an asynchronous agent gateway: channels receive messages, an agent
engine answers them with a model and its tools, and background services (a job
queue, a cron scheduler, a heartbeat, subagents, a supervisor) work beside it.
Most of it runs as tasks of one asyncio loop; stores and journals are files
that outlive the process and, for cron, are shared by several processes. This
directory models the parts whose correctness depends on the order in which
those tasks, threads and processes take their steps, checks the models with
TLC and proves theorems about all ten of them with TLAPS.

Paths are relative to `clawlite/` unless they start with `docs/` or `tests/`.

## 1. Inventory

| Component | State it keeps | Operations | Talks to | What is hard |
|---|---|---|---|---|
| Job queue, `jobs/queue.py`; journal, `jobs/journal.py` | table of jobs, heap of queued jobs, one event, worker tasks; a row per job in SQLite | submit, cancel, start, stop, worker loop, retry, restore | the tools submit jobs; a handler runs an engine turn | workers share one event; cancel at any await; retries; a crash between two saves |
| Inbound dispatch, `channels/manager.py`; queue of `bus/queue.py` | inbound journal, queue, worker tasks, global and per-session semaphores with a pruned table, stop flags | receive, dispatch, run, `/stop`, startup replay, operator replay, stop | channels put messages in, the engine runs them | cancellation between two semaphores, replay against live traffic, restart |
| Channel delivery, `channels/manager.py` | idempotency cache with an order list, dead letters and their journals | retry_send, replay, restore | channels | a failure after a successful send; crash between send and bookkeeping |
| Telegram ingress, `channels/telegram*.py`, `gateway/webhooks.py` | offset watermark with pending and completed ids, dedupe keys in memory and on disk, in-flight keys, album buffers | poll loop, webhook handler, refresh, start | the Bot API redelivers what is not confirmed; hands messages to the manager | out-of-order, duplicated and failed updates; two transports; crash |
| Discord gateway, `channels/discord.py`, `channels/base.py` | gateway task, websocket, session id, sequence, heartbeat and watchdog tasks | connect, identify, resume, frames, heartbeat, watchdog, refresh, start, stop | Discord resumes sessions; hands messages to the manager, whose interceptor may call back (`gateway/discord_thread_binding.py`) | silence, rejected resumes, tasks that wait for each other, cancellation that is swallowed |
| Cron, `scheduler/cron.py` | a job file under a lock, each instance's copy of it, leases, running tasks | loop, claim, commit, run_job, add/remove/enable, cleanup, stop | callbacks submit wakes; CLI processes open the same file | several processes, threads inside each, leases that expire, stale copies |
| Agent engine, `core/engine.py` | session locks, stop requests, a turn's budgets and histories, transcript rows, deferred memory writes | run, stream_run, request_stop | providers, tools, session store, memory | a cancelled turn with a thread still writing, loops of tool calls, a stream that falls back |
| Subagents, `core/subagent.py`, `gateway/subagents_runtime.py` | runs, queue, tasks, retry budgets, state file | spawn, resume, cancel, sweep, drain, load, digest | engine turns, manager's `/stop` | cancellation before the first step, quota and queue accounting, restart |
| Provider failover, `providers/failover.py`, `providers/litellm.py` | cooldown per candidate, circuit breaker per client | complete, operator clear | engine turns | concurrent calls that share cooldowns and circuits |
| Autonomy wake, `runtime/autonomy.py` | heap, pending entry per key, worker, journal, lock | submit, worker loop, start, stop | cron, heartbeat and monitors submit; the supervisor restarts it | journal writes in threads under the lock, cancellation of each wait, quotas |
| Heartbeat, `scheduler/heartbeat.py` | pending triggers, waiters, tick lock, state file | start, stop, trigger_now, tick | autonomy wake | waiters matched to ticks by position; restart |
| Message bus, `bus/` | inbound and outbound queues, dead letters, topics, stop events, journal | publish, next, restore | manager, engine, config watcher | bounded queues that drop; acknowledgement before processing |
| Tool registry, `tools/registry.py` | approval requests with an order list, grants, audit | register, review, has_grant, revoke, prune | engine, channels | expiry of requests and grants, eviction, re-registration |
| Supervisor, `runtime/supervisor.py` | incidents, cooldowns, recovery windows | run_once, operator recover, start, stop | every subsystem | time read before awaits; two recoveries at once |
| Gateway lifecycle, `gateway/lifecycle_runtime.py`, `restart_*.py` | component states, restart sentinel | start, rollback, stop, restart | everything | partial start, steps missing from stop, a sentinel written in place |
| Config, `config/` | current configuration, watcher task | load, watch | gateway | reload against a half-written file |
| Memory, session store, other channels, HTTP and WebSocket handlers, tools, CLI, dashboard, workspace | files, policies, adapters | many | services above | mostly I/O and formatting |

What makes each correct, for the parts that are modelled, is section 4; for the
others it is in the plan, section 7.

## 2. Modules

| Module | Code | Role |
|---|---|---|
| `JobLifecycle` | `jobs/queue.py`, as seen in the journal | abstract specification: what a job's durable record may do |
| `JobQueue`, `MCJobQueue` | `jobs/queue.py`, `jobs/journal.py` | the queue, its workers and its journal; an instance for TLC |
| `JobQueueProofs` | | theorems about `JobQueue` |
| `ChannelDispatch`, `MCChannelDispatch`, `ChannelDispatchProofs` | `channels/manager.py` | inbound messages from reception to the end of their run; theorems |
| `ChannelDelivery`, `ChannelDeliveryProofs` | `channels/manager.py`, dead letters of `bus/queue.py` | replies from the end of a run to the platform; theorems |
| `TelegramIngress`, `TelegramIngressProofs` | `channels/telegram.py`, `telegram_offset_*.py`, `telegram_dedupe.py`, `gateway/webhooks.py` | updates from the Bot API to the emission into the manager; theorems |
| `DiscordGateway`, `DiscordGatewayProofs` | `channels/discord.py`, `channels/base.py`, `gateway/discord_thread_binding.py` | a gateway session from the connection to the handling of its messages; theorems |
| `CronLease`, `CronLeaseProofs` | `scheduler/cron.py` | instances that share one job file; theorems |
| `AgentTurn`, `MCAgentTurn` | `core/engine.py` | the turns of one session |
| `Subagents` | `core/subagent.py`, `gateway/subagents_runtime.py`, the digest of `core/engine.py` | background runs and what reports them |
| `ProviderFailover` | `providers/failover.py`, `providers/litellm.py` | concurrent calls over candidates with cooldowns and circuits |
| `EngineProofs` | | theorems about a turn and what it stands on: `AgentTurn`, `ProviderFailover`, `Subagents` |
| `AutonomyWake`, `MCAutonomyWake`, `AutonomyWakeProofs` | `runtime/autonomy.py` | wakes from submit to the answer; theorems |

How they fit. `TelegramIngress` and `DiscordGateway` end where `ChannelDispatch`
begins: the channel's emit callback, `emits` in the one and `Handled` in the
other, is `Receive` there. A run of `ChannelDispatch` is a turn of `AgentTurn`;
its `/stop` is `RequestStop` and `Cancel` there and `CancelSession` in
`Subagents`. A turn that is `"asking"` is a call of `ProviderFailover`.
`ListDigest` and `MarkDigest` of `Subagents` are the two ends of a turn, and a
subagent's worker runs a turn of its own. `ChannelDelivery` begins where a run
has its answer: the worker's end is `Publish`. A callback of `CronLease` and a
tick of the heartbeat submit a wake of `AutonomyWake`. The modules share no
state but the process, so they are checked apart.

Conventions. A variable is a field of the code, a row of a file, a place where
a task awaits, or a history variable (said so in its comment) that only
properties read. An action is one slice of a task between two awaits, one
thread's work under a lock, or an event of the environment (a user writes, time
passes, the process dies). Cancellation is what asyncio does: it marks a task
and takes effect at the task's next resumption, and a task cancelled before its
first step never runs.

### JobQueue

`status`, `retries`, `cancelReq` are the fields of `Job`; `pending` the heap, as
the set of jobs with an entry (an id has at most one entry that is still
queued); `signal` the event `_new_job`; `at` and `holds` where each worker
stands and which job it has; `inner` the task that runs the handler; `jStatus`,
`jRetries` the journal's row. `Pick` takes a queued job of the best priority and
performs `_run_job` up to its first await, its save included; `Drop`, `Launch`
and `NoHandler` are the ways on from there; `HandlerEnds` is the handler's own
end and `Resume` what the worker makes of it, which may be a retry. `Woken` and
`FindNothing` are `wait()` and `clear()`. `Crash` forgets everything but the
journal, `Boot` is `restore_from_journal` (only rows that say queued).

### ChannelDispatch

A message is a number with a session and whether it is `/stop`. It is in
`journal` (the file), in `queue`, in `tasks` (with the place its worker awaits)
or gone. `AcquireGlobal`, `AcquireSession`, `Abandon`, `Release` are the two
semaphores and the pruned table. `BeginStop` and `EndStop` are `_handle_stop`,
which the dispatcher awaits itself, so nothing is dispatched in between. FIFO
order of `asyncio.Semaphore` waiters is `FirstInLine`. `Work` is all but the
arrival of messages, `Receive`.

### ChannelDelivery

A reply is a number; it stands for its idempotency key. `task` says where each
original send and each replay stands in `_retry_send`: `Publish`, `Arrive`,
`Confirm`, `Clear`, `SendRaises`, `TryAgain`, `Cancel` are its slices and what
the platform does in between. `letters` and `journal` are the dead-letter queue
and its file, `cache` and `disk` the remembered keys and theirs. `SyncFails`,
`ClearFails`, `BuryFails` are file writes that raise at the three places where
the code handles that differently. `BeginReplay`, `ReplayNext`, `EndReplay` are
a replay: what it restores, each letter, and what it puts back. A slice that
writes two files is cut in two so that a crash fits in; `turn` keeps other
tasks out. `delivered`, `doubts`, `lapsed`, `cutOff`, `unsaved` are history.

### TelegramIngress

`safe`, `completed`, `pending` are `TelegramOffsetStore`; `dedupe` and
`dedupeDisk` the dedupe cache and its file, written later by a task
(`PersistDedupe`). `Poll…` actions are the slices of `_poll_loop`, `Hook…` those
of `handle_webhook_update` with `inHand` and `emitted` counting the coroutines of
each update before and after `emit()`. `unconfirmed` is what the Bot API still
holds: polling confirms by offset, the webhook by its answer.

### DiscordGateway

`ch` holds the attributes of the channel that matter to the connection; `at` is
where each gateway task stands in `_gateway_runner` (there is more than one only
after a restart), `conn[r]` the connection of task `r` with the frames it has not
read, `srv` the session Discord keeps with its log of messages. `Hello`,
`Settle`/`Session`, `Ack`, `BeatNow`, `Reconnect`, `Message` are the branches of
`_handle_gateway_payload`; `Settle` is the wait in `cancel_task` for the
watchdog, and a message's handler is awaited before the next frame is read, as
in the code. `CleanUp` and `Again` are the finally block and its waits. `Beat`,
`Interval`, `Watchdog` are the two tasks that close a silent connection.
`Refresh` and `Stop` run up to the wait for the cancelled gateway task, `Restart`
is the rest with `start()`; `Deaf` are the places where `cancel_task` takes a
cancellation of its caller for that of the task it waits for. `Answer`, `Write`,
`Interrupt`, `Break`, `NoBeats`, `Expire` are Discord and the network.

### CronLease

`store` is the file, `mem[i]` the copy of instance `i`. `Tick` picks the jobs of
a round from that copy; `ClaimThread` claims the next one in the file;
`StartRun`, `CallbackEnds`, `Commit` run it and write its result if the lease
is still its own. `AddJob`, `RemoveJob`, `EnableJob` change the copy, and
`SaveThread`, `Write` copy it and rewrite the file with it: two steps, because
the code copies before it takes the lock. Time is three values: a job's next
run is later, due or none; a lease is live until `Expire`.

### AgentTurn

`queue` is the session's lock with those who wait for it, `at` where each turn
stands, `run` the locals of the turn that holds the lock, `writing` the threads
that write rows, `rows` the transcript (the sequence of the turns that wrote),
`memory` the deferred memory write of each turn, `stop` the stop request.
`Prepared` reads history and waits for the pending memory writes;
`NextRound` looks for a stop request and `CallProvider` calls the model; between
them, as between `NextTool` and `CallTool`, the turn awaits the progress message
of `_emit_progress`, which the manager sends to the channel
(`channels/manager.py:1901`, 1983). `ProviderAnswers`, `ProviderPlans`,
`ProviderFails` are the model; `CallsNoted`, `NextTool`, `CallTool`, `ToolReturns`, `ResultNoted`, `PlanDone` the loop over the tool
calls with the detectors `Repeats`, `PingPong`, `SamePlan`, `Failures` and
`Caught`, the recovery they lead to; `Finish`, `Land`, `LandFails`, `EndTurn`,
`Unwound` the rows and the return of the lock; `StreamPrepared` to `CloseStream`
and `Fallback` are `stream_run`.

### Subagents

Each operation holds the manager's lock over a body that does not await, so it
is one step and the attributes are one record, `mgr`; operators on that record
(`Terminate`, `StartWorkers`, `Enqueue`, `Drain`, `Sweep`) are the private methods,
composed as the code calls them. What a method does to several runs without an
await between them is done to a set of runs: `Drain` takes as many entries from the
head of the queue as there are free slots (`Dequeued`) and starts those whose run
is still queued. A startup replay lists its rows once (`StartupReplay`) and resumes
them one at a time (`ReplayRow`). `mgr.live` are the worker tasks on the loop,
also those the manager forgot. `BeginTask`, `VanishTask`, `FinishTask` are a
worker's slices, `disk` is `runs.json`, and `ListDigest`, `MarkDigest`,
`LoseDigest` how a turn reports results.

### ProviderFailover

`cooling` and `reason` are the suppression of each candidate, `fails` and
`circuit` the breaker of each client, as times that remain. A call takes the
candidates that are ready at its `Start` and goes through them: `CircuitOpen`,
`Send`, `Backoff`, `Retry`, `Refresh`, `RequestFails`, `Answer`, `CancelCall`.

### AutonomyWake

`entries` are the queue entries in order of sequence number, `pending` the entry
of each key, `hand` the one the worker runs. A submit is `Refuse`, `Coalesce` or
`Enqueue`, then `Written` when the thread has written the journal, during which
`lock` is held, then `Answer`. `CancelWrite` leaves the thread behind
(`LateWrite`), `CancelWait` cancels the future a coalesced call shares with
others. `Take`, `CallbackEnds`, `Settle`, `Close` are the worker's slices.

## 3. Runs

| Run | Instance | Distinct states | What it shows |
|---|---|---|---|
| `jobs_pool` | 2 jobs (priorities 1, 0; budgets 1, 0), 2 workers, 2 crashes, fair | 60 k | the properties of the queue, its refinement of `JobLifecycle`, and that jobs settle |
| `dispatch_replay` | 2 sessions, 2 slots, 1 per session, table limit 1, 3 messages, 1 `/stop`, 1 operator replay, 1 row per replay, 1 crash, fair | 244 k | no message is lost, overtaken by a replay or run after its stop; each is answered or kept |
| `delivery_retry` | 2 replies, 2 attempts, 1 remembered key, startup replays and 1 operator replay, 1 failing write, 1 crash, fair | 129 k | no reply is dropped or sent again while its key is known; each send ends |
| `tg_webhook` | 2 updates, 1 in an album, webhook or its fallback, 2 failures, 1 refresh, 2 crashes, fair | 143 k | watermark, dedupe and redelivery are right together; each update is handled |
| `discord_session` | 2 messages, 2 failures of any kind, 1 refresh or replacement, fair | 275 k | one reader, each message of a session read once, back to a live session |
| `cron_shared` | 2 instances, 1 job, 1 stop, 1 crash | 688 k | the lease excludes two runs, over stop, restart and crash, and fences late commits |
| `cron_rounds` | 1 instance, 2 jobs, 1 slot, 1 manual run, 1 edit, 1 stop, 2 crashes, fair | 105 k | both jobs keep running, over the leases that crashes and a stop leave |
| `agent_turn` | 1 blocking and 1 streamed turn, 2 tools, 3 rounds, 5 calls, plans of 1, 2 and 4 calls, fair | 521 k | memory and rows of the turns stay apart, loops are caught, a stop lets at most an announced call follow, turns end |
| `subagents` | 2 runs, one of the spawn tool, 1 slot, 1 place in the queue, quota 2, 1 resume, 2 restarts, fair | 27 k | tables agree, no slot idles, budgets hold, results are reported once, runs end |
| `failover_calls` | 2 calls at a time, a primary and a fallback, threshold 2 | 561 k | the breaker's count and its circuit agree |
| `wake_answers` | 1 heartbeat and 2 calls of one cron job, cancelled waits and callbacks, 1 crash, fair | 102 k | nothing accepted is forgotten, calls are answered |
| `wake_shared` | 4 calls of 3 keys that fill a queue of 3, and a heartbeat's key; cancelled writes, 1 stop | 2.6 M | a key's calls share a run; a heartbeat has room |

Bounds. Two of a kind that compete (workers, sessions, instances, turns, calls,
updates) are enough for each pair of tasks to interleave; a third is there where
something must overtake or be overtaken by a third. Replays, edits, stops and
crashes are one or two per behaviour, and a behaviour puts them between any two
steps. Two failures in `discord_session` let a second one hit the recovery from
the first, and two messages let one be read before and one after it. In
`agent_turn` the plans repeat calls and plans within the budgets, so every
detector is reached before the budgets end. Every bound is a constant named
`Max…`, `Attempts`, `Updates` or `Tokens`; the sets of calls of `AutonomyWake`
and `Turns` are inputs of the same kind. `Tokens` is larger than the leases that
can be remembered at once in `cron_shared`; in `cron_rounds` it is one for each
job, and a claim waits while a run that lost its lease by a stop, or a row in some
copy, still has one of them. Of the two jobs of `cron_rounds` the second comes by
`add_job`, so what happens to both is all but a second edit; a process that crashed
is a new instance when it is back. In `dispatch_replay` a session has one of the two
slots, so workers wait for either semaphore, and the session whose message comes
first is called `s1` (`MCSpec`; a symmetry set would not be sound for liveness).
The theorems hold for all sizes. Deadlock is checked where the environment never ends (`jobs_pool`,
`failover_calls`); in the others a bounded environment runs out of input and the
system rightly waits.

Fairness. A task that can be resumed is resumed (asyncio's ready queue is FIFO),
a thread ends, a handler, callback, request or tool ends by its timeout,
Telegram redelivers, Discord answers a handshake on a sound connection and
closes one without heartbeats: weak fairness of those actions. The maintenance
loop sweeps subagents again and again, and the supervisor starts a dead wake
worker. Nothing is assumed of users, cancellations, crashes, failures or stops.
In `CronLease` a round that reaches a given job gets strong fairness: rounds
come every 0.05 to 1 s while a job is due and a job is rescheduled at least 1 s
ahead, so a round that finds it cannot be missed for ever. In `DiscordGateway`
the heartbeat's interval and the watchdog's time end without an answer only on a
connection that has failed or while a handler runs (`Slow`): on a sound one
Discord is taken to answer in time.

## 4. Properties

*Job queue.* `OneRunner`: a job is running exactly while one worker has it, and
is then not in the heap. `NothingStranded`: a queued job is in the heap and no
worker sleeps. `AttemptsBounded`: at most `max_retries + 1` starts, over
restarts. `CancelIsFinal`: after `cancel()` said True the handler is not started
again. `LifecycleHolds`: the rows implement `JobLifecycle`. `EveryJobSettles`.

*Dispatch.* `NothingLost`: a message not processed to its end is in the journal.
`InOrder`: a session's messages begin in the order received (replays apart).
`StopHolds`: a message that a `/stop` was meant for does not begin afterwards.
`EveryMessageRuns`: while the process lives each message in the queue is answered,
or its run failed or was stopped by its own session and the journal keeps it; a
worker that waits for its session's slot is not starved. It excuses only the
state in which each slot was left behind by a task that was cancelled between its
semaphores (`ChannelDispatch_slots`): in this run too, a `/stop` that meets two
replayed messages of its session can do that.

*Delivery.* `NothingDropped`: a reply not delivered is in its first send or in
the journal, unless that send was cut off or the row could not be written.
`DeliveredOnce`: over retries, replays and restarts, more deliveries than one
need a delivery the process could not record, or a key that lapsed.
`EverySendEnds`.

*Telegram.* `NothingForgotten`: the Bot API gives up only what was emitted.
`WatermarkClosed`: everything at or below the watermark was handled.
`OncePerProcess`: one emission per process and update. `NoReprocess`: what is on
disk is not emitted again. `EveryUpdateHandled`.

*Discord.* `OneReader`: one task reads the gateway at a time, wherever a refresh
or a replacement finds the old one. `ReadOnce`: of the session's log exactly the
messages up to `_sequence` have begun to be handled, each once, over breaks,
resumes and invalid sessions. `Recovers`: whatever broke, the channel has a
session on a live connection again in the end.

*Cron.* `OneRunPerJob`: no two callbacks of a job at once. `OnceIsOnce`: a
one-shot succeeds once, plus at most once per stop or crash. `LeaseFences`:
while a lease is live only its holder's commit or its instance's stop changes
it. `RecurringRuns`: a recurring job that is enabled runs again and again, over
failures, the other job's runs, an edit, and the leases of processes that died and
of a claim whose loop was stopped.

*Engine.* `HistoryComplete`: a turn that has read its prompt read what the turns
before it left in memory. `RowsContiguous`: rows of two turns do not mix, also
when one was cancelled while a thread wrote. `LoopCaught`: no recovery,
diagnostic switch or new plan lets a loop of equal calls run past its threshold.
`StopObeyed`: a turn told to stop in its loop begins no call after that, except
the one it was announcing: it looks for the request before its progress message
and calls after it (`core/engine.py:3750` and 3755, 3941 and 4193), so a request
that arrives during the message is followed by that one provider call or tool.
The shortening of a long tool result (4240), which may ask the provider too,
counts as part of its tool call.
`EveryTurnEnds`.

*Subagents.* `Consistent`: statuses, queue, tasks, runners and limits agree.
`NoIdleSlot`: a run waits only while every slot is taken. `BudgetHolds`: all the
ways to start a run stay within its budget. `ReportedOnce`: a result is in at
most one reply. `EveryRunEnds`.

*Providers.* `BreakerCounts`: failures at the threshold have their circuit.

*Wakes.* `NothingForgotten`: an accepted wake is in the heap, in hand or in the
file until it ran. `AnsweredUnlessStopped`: a call is answered unless the
coordinator stops. `OneRunShared`: the calls for one key share one run.
`HeartbeatHasRoom`: cron and proactive wakes leave the heartbeat its place (for
`max_pending` of 3 and more, and while no callback dies of a `CancelledError`).

Each property of a passing run has a mutant of a mapped definition (named in
`PROJECT.json`, defined beside the original with the comment "mutant") that TLC
shows to violate it.

## 5. Where the code departs from what is said of it

Each is reproduced by its configuration (`tlc -config <cfg> <module>`; those of
the `MC` modules are run on them):

| Configuration | Property | What happens |
|---|---|---|
| `ChannelDispatch_slots` | `SlotsReturned` | `_acquire_dispatch_slot` catches `Exception`, which is not what cancellation raises: a worker that `/stop` cancels while it waits for its session keeps the global slot, and enough of them stop the dispatcher |
| `ChannelDispatch_twice` | `AnsweredOnce` | a message received during the startup replay is dispatched twice |
| `ChannelDelivery_twice` | `DeliveredOnce` | a second operator replay finds the queue empty while the first holds the letter, restores it from the journal and sends it too (`docs/AUTONOMY_PLAN.md:103`: "observable and idempotent across restarts") |
| `TelegramIngress_baseline` | `WatermarkClosed` | with no watermark yet the first update to complete becomes it, over lower updates in progress |
| `TelegramIngress_album` | `AlbumsKept` | an album item is committed while only in memory |
| `TelegramIngress_answer` | `NothingForgotten` | by default the webhook confirms a failed update |
| `TelegramIngress_refresh` | `EmittedOnce` | polling does not look at what the webhook has in flight |
| `DiscordGateway_within` | `OneReader` | `/discord-refresh` is run by the manager's interceptor inside the gateway task, which cancels itself, does not notice and goes on beside the task it started (`docs/channels.md:325`: it "triggers the same transport restart path exposed by the operator surface") |
| `CronLease_slow` | `OneRunPerJob` | a callback may last 300 s, its lease 30 s |
| `CronLease_fence` | `OneRunPerJob` | `_save` copies the rows before the lock; a claim in between is overwritten and the job is claimed again |
| `CronLease_added` | `AddedJobsKept` | a claim replaces `_jobs` under an unsaved `add_job` |
| `CronLease_stop` | `StopReleases` | a claim thread outlives `stop()` and leaves a lease |
| `CronLease_handover` | `OneRunPerJob` | `stop()` releases the lease of a `run_job` that goes on; another instance starts the job |
| `CronLease_starve` | `RecurringRuns` | a failed one-shot stays due and takes the only slot of each round |
| `AgentTurn_recovery` | `LoopIsLast` | the text of a loop notice is kept after the recovery it asks for and becomes the reply of a turn that recovered (`core/engine.py:4354` against 996) |
| `AgentTurn_impatient` | `RowsContiguous` | a second cancellation gets past the shield of `_call_session_persistence_side_effect` and gives the lock back under the thread |
| `Subagents_slots` | `SlotsReal` | a run that expired leaves its slot before its runner has unwound |
| `Subagents_digest` | `ResultsReachable` | the spawn tool's runs are in sessions of their own, where no turn looks for results |
| `ProviderFailover_circuit` | `CircuitCloses` | a call refused by an open circuit counts as a failure and extends it (`providers/litellm.py:527`, 128): under steady calls it never closes (`tests/providers/test_litellm_retry.py:147`: "circuit_opens_then_closes_after_cooldown") |
| `AutonomyWake_stop` | `EveryCallAnswered` | a stop while the worker waits for the lock with a result in hand leaves that call waiting |
| `AutonomyWake_cancel` | `EveryCallAnswered` | a submit cancelled during its journal write never notifies the worker of its entry (`runtime/autonomy.py:468`) |
| `AutonomyWake_cron` | `NothingForgotten` | a cron wake's payload holds a `CronJob`, which JSON refuses: it is not in the journal (`gateway/server.py:2341`) |
| `AutonomyWake_leak` | `HeartbeatHasRoom` | a callback that raises `CancelledError` leaves its entry pending |

Each is why a passing run has the constant it has: `FailFast = TRUE`,
`FirstRun = FALSE`, `SlowCallbacks = FALSE`, no edits beside other instances'
leases, `AtOnce = 1`, `Impatient = FALSE`, `FromWithin = FALSE`,
`Unwritable = {}`, no `"callback"` in the `Cancels` of `wake_shared`. They also
say which parts of a property are conditional (`op # "none"` in `Recovers`).

Seen while modelling, without a configuration of its own: rows of the inbound
journal may remain after the startup replay; a job running at a
crash keeps its row and is never restored, though
`docs/superpowers/specs/2026-03-15-robustness-phase4-core-jobs-design.md:153`
speaks of all unfinished jobs; `/stop` to an idle session aborts the next
message; when the key's file cannot be written after a confirmed send, the
attempt counts as failed and the reply goes out again; a refresh of Discord
whose cancellation falls into `cancel_task` (`channels/base.py:98`) waits for a
task that goes on for ever. With `HostLasts =
FALSE`, `resume_gateway_url` is never dropped when its host is gone, and
`Recovers` fails. A gateway that accepts the connection and never sends HELLO is
not noticed, since heartbeat and watchdog start with it; a handler slower than
the heartbeat interval closes a sound connection; a Discord message whose
handler raises is lost, its number being stored first. A subagent cancelled
before its first step stays running until a sweep; `/stop` of a subagent calls
the synchronous `cancel_session` from the running loop. In the engine, a stop,
an exhausted budget or a loop leaves tool calls without results in the
transcript, and the late `clear_stop` of a stream (3354) takes a stop meant for
the next turn. In the failover a success clears the reason of a suppression and
not its time, a shorter suppression may replace a longer one, and the operator's
clear does not reset the client's circuit.

## 6. Proofs

Every theorem holds for any value of the constants, from the named assumptions
of its module alone.

`JobQueueProofs` proves, for any jobs, workers, priorities, budgets, number of
crashes and whether or not saves may fail: `TypeCorrect`, `JobHasOneRunner`,
`NoJobStranded`, `JournalInSync`, `AttemptsAreBounded`, `CancellationIsFinal`;
and, when saves do not fail, `JournalImplementsLifecycle`. The argument is one
inductive invariant, `IInv`, of eight named parts, and one lemma per part that
the step preserves it. `OneRunner` is not inductive alone: that a popped job is
not held needs the heap and the statuses (`TypeOK`, `Shape`: a dead process has
no memory, a worker waits for a handler exactly when busy). `NothingStranded`
needs `OneRunner` for a retry, which pushes a job back while its worker is
awake. `AttemptsBounded` needs `StartsCounted`, which counts by where the job
stands, and `JournalAgrees`, because a restart takes its count from the journal.
`CancelIsFinal` needs `PromiseKept`: a job cancel() answered for has its flag or
its final status. `KnownSubmitted` makes ids fresh. `JournalImplementsLifecycle`
maps the journal's two columns to the abstract state and shows that each step is
a lifecycle step or a stutter.

`AutonomyWakeProofs` proves `WakeTypes` and `OneRun` (`OneRunShared`), for any
calls, keys, kinds, priorities, quotas, cancellations, stops, crashes and late
journal writes. The invariant `WakeInv` adds to the types that a pending entry
is one of its key (`PendingByKey`), that an entry whose future is open is the
pending one of its key (`LiveIsPending`, from which `OneRunShared` follows at
once), that what the worker has in hand has left the heap (`HandTaken`), and
where a worker may stand while `stop` waits for it (`StoppedWorker`). The hard
steps are the restore, which makes entries from the rows in their order
(`RestoredRows`, from finiteness of the journal), and the close, which removes
the worker's entry only if it is still the pending one.

`HeartbeatFindsRoom` is `HeartbeatHasRoom` under `GatewayWakes`: the three kinds
the gateway submits (`gateway/server.py:2321-2400`), `max_pending` of 3 or more,
no callback that dies of a `CancelledError`. The invariant `RoomInv` adds that
no quota is exceeded, neither by what is pending nor by any journal written or
still to be written by a late thread (`QuotaKept`; `start` restores a journal
without a look at the quotas), and that what is pending is in the heap or in the
worker's hand (`PendingIsLive`): no entry takes up room for ever. The quotas
then add up to one less than `max_pending` (`RoomFollows`).

`DiscordGatewayProofs` proves `OneTaskReads` (`OneReader`) for any number of
messages, failures, refreshes and replacements, when no refresh comes from
within the gateway task. The invariant `HeldRuns` says which task reads: none
but the one the channel holds. Each step of a gateway task then moves that one,
each cancellation moves it or is not noticed, and only `Restart`, which waits
for its end, changes it; with a refresh from within that wait is what is missing.

`EachReadOnce` (`ReadOnce`) is proved under the same hypothesis, which it needs: a
refresh from within drops a session that another task still reads
(`DiscordGateway_within`). Its invariant `ReadInv` follows the frames. Nobody but
the task the channel holds has a connection (`HeldConnection`). On it HELLO comes
first, then the handshake with what the channel knows, then the answer, and READY
is that of the session Discord keeps (`Handshake`). The messages on their way are
those of Discord's log after `_sequence`, or after READY if READY is on its way,
in order and without a gap (`Stream`), and on a sound connection of the session
all of them to the end of the log (`Complete`); without either there are none
(`Messaging`). A frame in hand counts too: while the task waits for the watchdog
that it cancelled, READY has its number in `_sequence` and not yet its session id,
so the channel must not be said to know a session (`ReadSoFar`). The first group
of lemmas says what reading, appending and joining do to a stream of frames, the
second what each kind of step does to a connection, the third is one lemma per
action. A message that is written is new because it is larger than all in the log
or begun (`MaxIs`).

`EngineProofs` is about a turn, the provider it asks and the subagents beside it,
which share no state. Of `ProviderFailover`, `BreakerHolds` states `BreakerCounts`
for any candidates, calls, thresholds and times (`TimesAssumption`). `CountInv`
adds that the times are times; that closing a circuit forgets the failures in the
same step is what keeps it.

It proves the four invariants of `AgentTurn` for any turns,
streams, tools, plans, budgets and sizes of the history, with `TurnInv`.
`HistoryComplete` needs the lock: a turn is in the queue once and whoever is
past the wait is its head (`LockInv`). `RowsContiguous` needs to know where a
thread may still write (`WritersInv`) and that the rows of the turn that holds
the lock are the last ones (`RowsInv`); it is proved for `~Impatient`, because a
turn that is cancelled again gives the lock back under its thread
(`AgentTurn_impatient`). `LoopCaught` needs `CallInv`: the detector looks before
a tool is called, and the call is not in the log until the tool returns.
`StopObeyed` needs that a request a turn was told of stays until a stream's
consumer takes it away, and that a turn told to stop which is still announcing a
call was announcing it when the request came and has begun none since (`StopInv`).

Last in `EngineProofs` are the four invariants of `Subagents`, for any finite set
of runs, any sessions, slots, places in the queue, quotas, budgets and restarts:
`TablesAgree`, `SlotsBusy`, `BudgetKept`, `NeverReportedTwice`, with `SubagentInv`.
An operation is a chain of private methods, and between two of them the tables do
not agree: a run may be pending with no place yet. So the invariant is an operator
on the record and on the runs about to be placed, `Agree(m, S)`, with a lemma per
method that says what it makes of `Agree(m, S)`; each action starts and ends with
nobody to place. The queue has each queued run once and only active runs have a
runner (`QueueAgrees`); `_tasks` holds the last start of each running run, and a
live task that it does not hold is of a run that expired (`TasksAgree`); only
finished runs are marked resumable or synthesized, and the resumable ones have
budget left (`MarksAgree`); each start was paid for by the budget (`BudgetAgrees`);
the slots, the queue and the quotas keep their limits (`LimitsHold`). `NoIdleSlot`
(`Busy`) holds because each end of a run drains: `DequeuedIs` says how many
entries are taken, the smaller of the free slots and the queue, and as the queue
is cut by positions no induction over it is needed. Over a restart `BudgetHolds`
needs that the file has the manager's attempts, and `ReportedOnce` that what the
manager has forgotten the file has too (`FileAgrees`): it would come back unmarked.
`ReportedOnce` needs that a run which was reported is marked in
memory and in the file, and that a digest in a turn's hands holds only runs that
have ended, of its session, not yet marked (`ReportsAgree`); as turns run beside
every other operation, `Follows` says that no operation but a turn's marks and
pruning changes a run that has ended.

`ChannelDispatchProofs` proves `NothingLost`, `InOrder` and `StopHolds`, without
hypotheses. `DispatchInv` orders what has not begun: queue, tasks, and tasks
before queue (`QueueOrder`), replayed messages apart. A semaphore serves its
waiters in the order of the tasks (`LineKept`), so the task that begins is the
first of its session that can. `StopReaches` carries a `/stop` to what it was
meant for: what is not drained from the queue is cancelled, and a cancelled task
does not begin. The sequence lemmas say what removing an element and filtering
preserve.

`CronLeaseProofs` proves `OneRunPerJob` and `OnceIsOnce` for any instances, jobs,
claims, crashes and restarts under `Undisturbed`: no edits (`CronLease_fence`,
`CronLease_added`), no callback longer than its lease (`CronLease_slow`), and
`run_job` or stops, not both (`CronLease_handover`). `LeaseInv` follows the token:
one holder (`HolderInv`), which the row shows (`RowInv`), so one run or claim of
a job is valid (`JobInv`); a run whose loop was stopped is past its callback
(`LostInv`); a one-shot that has used its successes is gone or about to go
(`OnceInv`). `FenceTheorem` is `LeaseFences` with neither edits nor `run_job`, and
holds for slow callbacks too: whoever changes the row of a live lease is its
holder with a commit, or a stop. Its invariant is small (`FenceInv`: a leased row
is enabled, so no sweep takes it), its work is in the cases of the step.

`TelegramIngressProofs` proves the four safety properties of the ingress for any
number of updates, albums, failures, refreshes and crashes.
`OncePerProcess`: each emission is paid for by a process or by a refresh that
left polling and webhook side by side, until a signature remembers it
(`EmitsPaid`). `WatermarkClosed`: what was handled is at or below the watermark
or kept above it, and below it there is nothing else (`OffsetInv`, with the least
element of a set of numbers for the climb). `NothingForgotten` adds that what the
Bot API gave up was handled (`ConfirmedHandled`), which needs an answer that
fails with its update (`FailFast`, against `TelegramIngress_answer`).
`NoReprocess` is the hardest: that an update is not on disk when it is emitted
needs that batches arrive in order and what they skip is settled (`BatchInv`),
that memory knows what the file knows (`KnownInv`), and what may be missing below
a completed update (`GapsInv`: the update's key is on disk, or the gap is handled,
or the gap is given up and a coroutine that still has it leaves the key in
memory). The last
three are for `~FirstRun`: without a watermark the first update to complete
becomes it (`TelegramIngress_baseline`).

`AcceptedTheorem` of `AutonomyWakeProofs` is `NothingForgotten` of the wakes, over
stops, crashes, restores, callbacks and waits that are cancelled. `OwedInv` says
that what is owed is in the journal (`OwedInJournal`), that it is pending while
there is a worker, so that the next write keeps its row (`OwedPending`), that a
write holds the lock and its entry is in the heap (`WritersLocked`), that a
finished run is paid before its entry goes (`ResultPaid`), and that the pending
entry of a key is its newest (`NewestPending`). The hypothesis `JournalWritten`
asks for payloads JSON can hold (`AutonomyWake_cron`) and no submit cancelled
during its write: the thread it leaves behind may write an older journal over a
newer one, and a crash then forgets the wake in between.

`ChannelDeliveryProofs` proves the two safety properties of the delivery, for any
replies, replays, limits, failing writes, crashes and restarts. `KeepTheorem` is
`NothingDropped`, with any number of replays at a time. `KeepInv` adds that a task
has in hand a reply that there is, and an original send its own (`HandsRight`), and
that a key is remembered, in memory or on disk, only of a delivered reply
(`KeysEarned`): a row goes from the journal only with a key. `OnceTheorem` is
`DeliveredOnce`, for `AtOnce = 1`, without which two replays restore the same
letter from the journal (`ChannelDelivery_twice`). `OnceInv` follows a reply to the
one place where it can be sent from: the queue, the letters a replay put aside, or
the hand of one task, and no row while its first send lasts (`OneLetter`); one
replay at a time, and no memory in a process that is down (`OneReplay`); a key that
memory lacks is not on disk either, unless it lapsed (`KeysShared`), so that a
replay that does not find the key in memory may send. `Accounted` is the claim per
reply: each delivery beyond those in doubt has its key on disk, or a task that is
about to write it, or nobody will send the reply again (`Gone`); whoever is sending
it owes nothing yet. The hard steps are a failing write after a delivery, where
memory has the key, the file has not, and the reply goes out again (a doubt), and
a replay, which takes what the file remembers before it takes the rows. The first
lemmas say what appending, joining, filtering, cutting and removing do to the
elements of a sequence: filtering is the definition `Only`, by positions, for which
no induction is needed.

The action properties proved are `CancelIsFinal`, `LifecycleHolds`, `InOrder`,
`StopHolds`, `LeaseFences` and `NoReprocess`.

Every invariant and every action property of a passing run has a theorem. Only
model-checked are the liveness properties, `AnsweredUnlessStopped` among them:
fairness and ENABLED are out of TLAPS's reach, and so is induction over data, for
which no definition of the proved modules is recursive.

## 7. Not modelled, and the plan

Left out of the modelled parts: corrupt rows and files of the journals; the
delivery policy, Discord's streamed replies, direct `send()`, filters by reason
and session and a dead-letter queue at its maximum in the delivery;
failed offset writes, cache limits, `drop_pending_updates` and the operator's
forced offset in Telegram; corrupt-store recovery and store I/O errors in cron,
a run_job without callback. One instance of cron saves one edit at a time, and
`Start` waits for the thread of a cancelled claim.

`DiscordGateway` leaves out the REST client and its rate limits, presence, who is
authorized, slash commands, voice and bindings; one operator action runs at a
time, and Discord keeps the latest session only. `AgentTurn` leaves out prompts,
digests and identity checks but for where they await; a bad tool name or
arguments are an error like any other, a stop request lives as long as the turn,
and memory written inline is written with the turn. `Subagents` merges error and
cancelled, makes deadlines a choice of the step that looks at them, and leaves
out failing saves, the depth limit and the caps of 500 kept runs and of 64 rows in a
startup replay. `ProviderFailover` leaves out streaming and takes any order of three or more candidates for the
health score's. `AutonomyWake` is the coordinator; the policy loops that submit
to it are cooldown bookkeeping around a model's answers.

Not modelled at all: memory and session store, whose operations are file
formats; other channels, HTTP handlers, tools, CLI, dashboard and workspace,
which are I/O and formatting without a protocol; config reload. Heartbeat,
message bus, approvals, supervisor and lifecycle have protocols and come next:

1. `Heartbeat`: each `trigger_now` is answered by a tick that began after it.
2. `ToolApprovals`: a tool runs only with a grant for exactly the request that
   was reviewed; pending requests survive re-registration and eviction.
3. `Supervisor`: cooldowns and the recovery budget over recoveries that overlap.
4. `GatewayLifecycle`: rollback and stop leave nothing running.
5. `MessageBus`: what the journal restores, what a full queue drops.
6. `Delivery`, the abstract specification of `ChannelDelivery` (a reply is
   pending, buried or delivered, and delivered once while its key is
   remembered), shown to be implemented; then the streamed replies.

Theorems to come: `Delivery` as a refinement, and what the modules above promise.
