--------------------------- MODULE TelegramIngress ---------------------------
(***************************************************************************)
(* clawlite/channels/telegram*.py: how an update of the Telegram Bot API   *)
(* enters, by long polling or by webhook.  The offset store keeps the      *)
(* watermark safe and the updates completed or pending above it; the       *)
(* dedupe state keeps the keys of processed updates; albums are collected  *)
(* in memory and emitted later.  emit() ends in ChannelManager's inbound   *)
(* journal, so an emitted update is durable.                               *)
(*                                                                         *)
(* The Bot API (external): an update stays unconfirmed until getUpdates is *)
(* called with a higher offset, or a webhook delivery is answered with     *)
(* success; getUpdates fails while a webhook is set.                       *)
(***************************************************************************)
EXTENDS Integers, Sequences, FiniteSets

CONSTANTS Updates,    \* bound: the ids 1..n of the updates sent to the bot
          Albums,     \* the updates that belong to a media group
          FirstRun,   \* no offset file exists: there is no watermark yet
          WebhookMode,\* the channel is configured for webhooks
          MayFallBack,\* activating the webhook may fail: polling instead
          FailFast,   \* webhook_fail_fast_on_error: False is answered by 503
          MaxFails,   \* bound: handlers that raise or return False
          MaxRefresh, \* bound: operator_refresh_transport
          MaxCrashes  \* bound: crashes of the process

ASSUME IngressAssumption ==
  /\ Updates \subseteq Nat \ {0} /\ IsFiniteSet(Updates) /\ Albums \subseteq Updates
  /\ {FirstRun, WebhookMode, MayFallBack, FailFast} \subseteq BOOLEAN
  /\ {MaxFails, MaxRefresh, MaxCrashes} \subseteq Nat

VARIABLES
  up, polling, hook,   \* the process, its poll loop, webhook_mode_active
  sent,                \* the updates that exist
  unconfirmed,         \* those the Bot API still holds
  webhookSet,          \* the Bot API pushes to the webhook
  safe,                \* safe_update_id, -1 for None
  completed, pending,  \* completed_update_ids, pending_update_ids
  dedupe, dedupeDisk,  \* keys of processed updates, in memory and in the file
  persistDue,          \* the task that writes the file is scheduled
  batch,               \* what getUpdates returned and is still to be handled
  poll,                \* the poll loop: "idle", "handling", "emitted"
  inHand, emitted,     \* webhook coroutines per update, before and after emit()
  buffer,              \* _media_group_buffers
  signatures,          \* _message_signatures: messages this process emitted
  fails, refreshes, crashes,
  handled,             \* history: updates whose handler returned True
  emits                \* history: how often each update was emitted

server   == <<sent, unconfirmed, webhookSet>>
offsets  == <<safe, completed, pending>>
keys     == <<dedupe, dedupeDisk, persistDue>>
handlers == <<batch, poll, inHand, emitted>>
process  == <<up, polling, hook>>
bounds   == <<fails, refreshes, crashes>>
inbox    == <<buffer, signatures, emits>>
vars == <<process, server, offsets, keys, handlers, inbox, bounds, handled>>

None == -1
NextOffset == safe + 1

Init ==
  /\ up = FALSE /\ polling = FALSE /\ hook = FALSE
  /\ sent = {} /\ unconfirmed = {} /\ webhookSet = FALSE
  /\ safe = (IF FirstRun THEN None ELSE 0) /\ completed = {} /\ pending = {}
  /\ dedupe = {} /\ dedupeDisk = {} /\ persistDue = FALSE
  /\ batch = <<>> /\ poll = "idle"
  /\ inHand = [u \in Updates |-> 0] /\ emitted = [u \in Updates |-> 0]
  /\ buffer = {} /\ signatures = {} /\ fails = 0 /\ refreshes = 0 /\ crashes = 0
  /\ handled = {} /\ emits = [u \in Updates |-> 0]

-----------------------------------------------------------------------------
(* The offset store                                                        *)

Stale(u) == u <= safe

Begin(u) ==
  /\ pending' = IF Stale(u) THEN pending ELSE pending \cup {u}
  /\ UNCHANGED <<safe, completed>>

\* mutant: the watermark follows the highest completed update
FollowHighest(base, done) == CHOOSE s \in {base} \cup done : \A u \in {base} \cup done : u <= s
\* the watermark climbs while the next update is completed
Climb(base, done) ==
  CHOOSE s \in {base} \cup done :
    /\ s >= base /\ s + 1 \notin done
    /\ \A u \in (base + 1)..s : u \in done

Pruned(S, top) == {k \in S : k > top}

\* mark_completed: without a watermark, a tracked update makes the highest
\* completed one the new baseline; what is below the watermark is pruned.
Complete(u, tracked) ==
  LET above == IF Stale(u) THEN completed ELSE completed \cup {u}
      base  == IF safe = None /\ tracked /\ above # {}
               THEN CHOOSE m \in above : \A k \in above : k <= m
               ELSE safe
      top   == IF base = None THEN None ELSE Climb(base, above)
  IN /\ safe' = top
     /\ completed' = Pruned(above, top)
     /\ pending' = Pruned(IF tracked THEN pending \ {u} ELSE pending, top)

\* begin or complete with tracking only where the watermark stands
Tracked(u) == u = NextOffset \/ u \in pending

-----------------------------------------------------------------------------
(* The Bot API                                                             *)

Send(u) ==
  /\ u \notin sent
  /\ \A k \in Updates : k < u => k \in sent
  /\ sent' = sent \cup {u} /\ unconfirmed' = unconfirmed \cup {u}
  /\ UNCHANGED <<webhookSet, process, offsets, keys, handlers, inbox, bounds, handled>>

\* The n oldest updates of a set, in their order (there is one such sequence).
Oldest(S, n) ==
  {rows \in [1..n -> S] :
     /\ \A i, j \in 1..n : i < j => rows[i] < rows[j]
     /\ \A i \in 1..n, u \in S : u < rows[i] => \E j \in 1..n : rows[j] = u}

\* getUpdates(offset) confirms what is below the offset and returns the rest,
\* or its oldest part.
GetUpdates ==
  /\ polling /\ poll = "idle" /\ batch = <<>> /\ ~webhookSet
  /\ unconfirmed' = {u \in unconfirmed : u >= NextOffset}
  /\ \E n \in 0..Cardinality(unconfirmed') : batch' \in Oldest(unconfirmed', n)
  /\ batch' # <<>> \/ unconfirmed' # unconfirmed
  /\ UNCHANGED <<sent, webhookSet, process, offsets, keys, poll, inHand, emitted, inbox, bounds,
                 handled>>

\* mutant: the answer is a success whatever the handler said
AlwaysSuccess(u, ok) ==
  unconfirmed' \in {unconfirmed, unconfirmed \ {u}} /\ UNCHANGED <<sent, webhookSet>>
\* The webhook's answer: an update answered with success is confirmed, if the
\* answer arrives.
Answered(u, ok) ==
  \/ (ok \/ ~FailFast) /\ unconfirmed' = unconfirmed \ {u} /\ UNCHANGED <<sent, webhookSet>>
  \/ UNCHANGED server

-----------------------------------------------------------------------------
(* What _handle_update does with an update                                 *)

\* What this process emitted is not emitted again; an album's part is buffered.
Emit(u) ==
  \/ u \in signatures /\ UNCHANGED inbox
  \/ /\ u \in Albums \ signatures
     /\ buffer' = buffer \cup {u} /\ signatures' = signatures \cup {u}
     /\ UNCHANGED emits
  \/ /\ u \notin Albums \cup signatures
     /\ emits' = [emits EXCEPT ![u] = @ + 1]
     /\ UNCHANGED <<buffer, signatures>>

\* mutant: no signature is kept
RememberNothing(u) == UNCHANGED <<buffer, signatures, emits>>
\* emit() returned: the signature is remembered.
Remember(u) == signatures' = signatures \cup {u} /\ UNCHANGED <<buffer, emits>>

\* _flush_media_group: the buffer is taken, then emitted; nobody sees an error.
Flush(ok) ==
  /\ up /\ buffer # {}
  /\ ~ok => fails < MaxFails
  /\ fails' = IF ok THEN fails ELSE fails + 1
  /\ buffer' = {}
  /\ emits' = IF ok THEN [u \in Updates |-> IF u \in buffer THEN emits[u] + 1 ELSE emits[u]]
                    ELSE emits
  /\ UNCHANGED <<process, server, offsets, keys, handlers, signatures, refreshes, crashes, handled>>

-----------------------------------------------------------------------------
(* The poll loop                                                           *)

Current == Head(batch)

\* _is_duplicate_update_dedupe_key
Duplicate(u) == u \in dedupe

PollSkip ==
  /\ polling /\ poll = "idle" /\ batch # <<>>
  /\ Stale(Current) \/ Duplicate(Current)
  /\ IF Stale(Current) THEN UNCHANGED offsets ELSE Complete(Current, Current \in pending)
  /\ batch' = Tail(batch)
  /\ UNCHANGED <<process, server, keys, poll, inHand, emitted, inbox, bounds, handled>>

PollBegin ==
  /\ polling /\ poll = "idle" /\ batch # <<>>
  /\ ~Stale(Current) /\ ~Duplicate(Current)
  /\ Begin(Current)
  /\ poll' = "handling"
  /\ UNCHANGED <<process, server, keys, batch, inHand, emitted, inbox, bounds, handled>>

PollEmit ==
  /\ poll = "handling"
  /\ poll' = "emitted"
  /\ Emit(Current)
  /\ UNCHANGED <<process, server, offsets, keys, batch, inHand, emitted, bounds, handled>>

\* The handler returned True: dedupe key, its delayed write, the offset.
PollCommit ==
  /\ poll = "emitted"
  /\ poll' = "idle" /\ batch' = Tail(batch)
  /\ dedupe' = dedupe \cup {Current} /\ persistDue' = TRUE
  /\ Complete(Current, TRUE)
  /\ Remember(Current)
  /\ handled' = handled \cup {Current}
  /\ UNCHANGED <<process, server, dedupeDisk, inHand, emitted, bounds>>

\* The loop drops its batch, backs off, reconnects and asks again.
PollFail ==
  /\ poll = "handling"
  /\ fails < MaxFails /\ fails' = fails + 1
  /\ poll' = "idle" /\ batch' = <<>>
  /\ webhookSet' = FALSE
  /\ UNCHANGED <<process, sent, unconfirmed, offsets, keys, inHand, emitted, inbox, refreshes,
                 crashes, handled>>

\* getUpdates fails while a webhook is set; reconnecting deletes the webhook.
PollConflict ==
  /\ polling /\ poll = "idle" /\ batch = <<>> /\ webhookSet
  /\ webhookSet' = FALSE
  /\ UNCHANGED <<process, sent, unconfirmed, offsets, keys, handlers, inbox, bounds, handled>>

PersistDedupe ==
  /\ persistDue /\ persistDue' = FALSE
  /\ dedupeDisk' = dedupe
  /\ UNCHANGED <<process, server, offsets, dedupe, handlers, inbox, bounds, handled>>

-----------------------------------------------------------------------------
(* handle_webhook_update                                                   *)

\* mutant: the in-flight set is not looked at
NeverInFlight(u) == FALSE
InFlight(u) == inHand[u] + emitted[u] > 0

Pushed(u) == up /\ hook /\ webhookSet /\ u \in unconfirmed

HookSkip(u) ==
  /\ Pushed(u)
  /\ Stale(u) \/ Duplicate(u) \/ InFlight(u)
  /\ IF Stale(u) \/ ~Duplicate(u) THEN UNCHANGED offsets ELSE Complete(u, Tracked(u))
  /\ Answered(u, FALSE)
  /\ UNCHANGED <<process, keys, handlers, inbox, bounds, handled>>

HookBegin(u) ==
  /\ Pushed(u)
  /\ ~Stale(u) /\ ~Duplicate(u) /\ ~InFlight(u)
  /\ IF Tracked(u) THEN Begin(u) ELSE UNCHANGED offsets
  /\ inHand' = [inHand EXCEPT ![u] = @ + 1]
  /\ UNCHANGED <<process, server, keys, batch, poll, emitted, inbox, bounds, handled>>

HookEmit(u) ==
  /\ inHand[u] > 0
  /\ inHand' = [inHand EXCEPT ![u] = @ - 1] /\ emitted' = [emitted EXCEPT ![u] = @ + 1]
  /\ Emit(u)
  /\ UNCHANGED <<process, server, offsets, keys, batch, poll, bounds, handled>>

HookCommit(u) ==
  /\ emitted[u] > 0
  /\ emitted' = [emitted EXCEPT ![u] = @ - 1]
  /\ dedupe' = dedupe \cup {u} /\ dedupeDisk' = dedupe \cup {u}
  /\ Complete(u, Tracked(u))
  /\ Remember(u)
  /\ handled' = handled \cup {u}
  /\ Answered(u, TRUE)
  /\ UNCHANGED <<process, persistDue, batch, poll, inHand, bounds>>

HookFail(u) ==
  /\ inHand[u] > 0
  /\ fails < MaxFails /\ fails' = fails + 1
  /\ inHand' = [inHand EXCEPT ![u] = @ - 1]
  /\ Answered(u, FALSE)
  /\ UNCHANGED <<process, offsets, keys, batch, poll, emitted, inbox, refreshes, crashes, handled>>

-----------------------------------------------------------------------------
(* The process                                                             *)

\* operator_refresh_transport deletes the webhook and sets it again, also
\* beside a running poll loop; setting it may fail.
Refresh(ok) ==
  /\ up /\ WebhookMode
  /\ ok \/ MayFallBack
  /\ refreshes < MaxRefresh /\ refreshes' = refreshes + 1
  /\ webhookSet' = ok /\ hook' = (hook \/ ok)
  /\ UNCHANGED <<up, polling, sent, unconfirmed, offsets, keys, handlers, inbox, fails, crashes,
                 handled>>

\* start(): webhook if it can be activated, else polling, which first deletes
\* the webhook.  Offsets and dedupe keys come from their files.
Boot ==
  /\ ~up /\ up' = TRUE
  /\ \E webhook \in BOOLEAN :
       /\ webhook => WebhookMode
       /\ ~webhook => ~WebhookMode \/ MayFallBack
       /\ hook' = webhook /\ polling' = ~webhook /\ webhookSet' = webhook
  /\ dedupe' = dedupeDisk
  /\ UNCHANGED <<sent, unconfirmed, offsets, dedupeDisk, persistDue, handlers, inbox, bounds,
                 handled>>

Crash ==
  /\ up /\ crashes < MaxCrashes /\ crashes' = crashes + 1
  /\ up' = FALSE /\ polling' = FALSE /\ hook' = FALSE
  /\ dedupe' = {} /\ persistDue' = FALSE
  /\ batch' = <<>> /\ poll' = "idle"
  /\ inHand' = [u \in Updates |-> 0] /\ emitted' = [u \in Updates |-> 0]
  /\ buffer' = {} /\ signatures' = {}
  /\ UNCHANGED <<server, offsets, dedupeDisk, fails, refreshes, handled, emits>>

-----------------------------------------------------------------------------
Poll == GetUpdates \/ PollSkip \/ PollBegin \/ PollEmit \/ PollCommit \/ PollConflict
Hook(u) == HookBegin(u) \/ HookEmit(u) \/ HookCommit(u)

Next ==
  \/ Poll \/ PollFail \/ PersistDedupe
  \/ \E u \in Updates : Send(u) \/ Hook(u) \/ HookSkip(u) \/ HookFail(u)
  \/ \E ok \in BOOLEAN : Flush(ok) \/ Refresh(ok)
  \/ Boot \/ Crash

Spec == Init /\ [][Next]_vars

\* The loop resumes the poll task and the webhook coroutines, and the Bot API
\* pushes again what was not confirmed.
Fairness == WF_vars(Poll) /\ WF_vars(Boot) /\ \A u \in Updates : WF_vars(Hook(u))

FairSpec == Spec /\ Fairness
-----------------------------------------------------------------------------
(* Properties                                                              *)

\* Every variable stays in its range, and what the offset store keeps above
\* the watermark is above it.
TypeOK ==
  /\ {up, polling, hook, webhookSet, persistDue} \subseteq BOOLEAN
  /\ unconfirmed \subseteq sent /\ sent \subseteq Updates
  /\ safe \in Updates \cup {None, 0} /\ completed \cup pending \subseteq sent
  /\ \A u \in completed \cup pending : u > safe
  /\ dedupe \cup dedupeDisk \subseteq handled /\ handled \subseteq sent
  /\ batch \in Seq(sent) /\ poll \in {"idle", "handling", "emitted"}
  /\ inHand \in [Updates -> Nat] /\ emitted \in [Updates -> Nat]
  /\ buffer \subseteq Albums \cap signatures /\ signatures \subseteq sent /\ emits \in [Updates -> Nat]

\* Telegram forgets an update only when it was emitted into the durable inbound
\* journal: an offset is committed, or a webhook answered with success, after
\* the update was processed.
Forgotten(u) == u \notin unconfirmed /\ emits[u] = 0
NothingForgotten == \A u \in sent \ Albums : ~Forgotten(u)

\* The same of the items of an album.
AlbumsKept == \A u \in sent \cap Albums : ~Forgotten(u)

\* The watermark passes an update only when it was handled: out-of-order
\* webhooks, failures, restarts and duplicates leave no gap below it.
WatermarkClosed == \A u \in sent : u <= safe => u \in handled

\* An update whose success is on disk, as a dedupe key or below the watermark,
\* is not emitted again: retries, restarts and redeliveries are dropped.
NoReprocess ==
  [][\A u \in Updates \ Albums : emits'[u] > emits[u] => u \notin dedupeDisk /\ u > safe]_vars

\* Each process emits an update at most once, whatever is redelivered, and once more
\* when a transport refresh let a poll and a webhook handle it side by side.
OncePerProcess == \A u \in Updates : emits[u] <= 1 + crashes + refreshes

\* Not so with a refresh: polling does not look at what the webhook has in flight.
EmittedOnce == \A u \in Updates : emits[u] <= 1 + crashes

\* Every update is handled in the end, when handlers fail finitely often and no
\* refresh of the transport intervenes.
EveryUpdateHandled == \A u \in Updates : (u \in sent) ~> (u \in handled \/ refreshes > 0)
=============================================================================
