----------------------------- MODULE DiscordGateway -----------------------------
(***************************************************************************)
(* The inbound side of the Discord channel (channels/discord.py): a task   *)
(* connects to the gateway, identifies or resumes its session, reads the   *)
(* frames and hands each message to the manager before it reads the next;  *)
(* a heartbeat and a watchdog close a connection that has gone silent.  An *)
(* operator refreshes the transport, and the manager replaces the channel. *)
(*                                                                         *)
(* The attributes of the channel are one record ch.  A task cancelled      *)
(* while it waits in cancel_task for another task does not notice: it goes *)
(* on, and who cancelled it waits.  Discord keeps a log per session,       *)
(* numbered from 1, and READY has the first number.  A heartbeat goes      *)
(* unanswered for its interval, and a handshake for the watchdog's time,   *)
(* only on a connection that has failed or while a message is handled.     *)
(***************************************************************************)
EXTENDS Integers, FiniteSets, SequencesExt

CONSTANTS
  MaxMessages,  \* bound: messages that users write
  MaxFaults,    \* bound: failures of connections, of Discord and of handlers
  MaxOps,       \* bound: refreshes and replacements
  FromWithin,   \* whether a refresh may be asked for by a Discord message
  HostLasts     \* whether the host of resume_gateway_url can always be reached

ASSUME BoundsAssumption ==
  /\ MaxMessages \in Nat /\ MaxFaults \in Nat /\ MaxOps \in Nat
  /\ FromWithin \in BOOLEAN /\ HostLasts \in BOOLEAN

Runners == 1..(MaxOps + 1)
Messages == 1..MaxMessages

VARIABLES
  ch,      \* the channel: its task, websocket, heartbeat, watchdog, session
  at,      \* where each gateway task stands
  leaves,  \* the gateway tasks that an exception takes out of their loop
  conn,    \* the connection of each gateway task
  srv,     \* the session Discord keeps: its id, whether it can be resumed, its log
  op,      \* what an operator or the manager does: "none", "refresh", "replace"
  begun,   \* how often the handling of each message began
  faults, ops

vars == <<ch, at, leaves, conn, srv, op, begun, faults, ops>>

\* waiting is _gateway_session_waiting_for, pending _heartbeat_ack_pending; sid and seq
\* are _session_id with its _resume_url and _sequence, 0 for none; ws and watch name a
\* connection by its task; beat is where the heartbeat stands.
NewChannel(r) == [running |-> TRUE, task |-> r, ws |-> 0, beat |-> "none", pending |-> FALSE,
                  watch |-> 0, waiting |-> "", sid |-> 0, seq |-> 0]

Closed == [up |-> FALSE, failed |-> FALSE, state |-> "well", inbox |-> <<>>, asked |-> <<>>,
           joined |-> FALSE, hand |-> <<>>]

Init ==
  /\ ch = NewChannel(1)
  /\ at = [r \in Runners |-> IF r = 1 THEN "connecting" ELSE "none"]
  /\ leaves = {}
  /\ conn = [r \in Runners |-> Closed]
  /\ srv = [id |-> 0, alive |-> FALSE, log |-> <<>>]
  /\ op = "none"
  /\ begun = [m \in Messages |-> 0]
  /\ faults = 0 /\ ops = 0

Frame(what, s, of) == [op |-> what, s |-> s, of |-> of]
Logged(i) == Frame("message", i + 1, srv.log[i])

Goto(r, place) == at' = [at EXCEPT ![r] = place]
Fault == faults < MaxFaults /\ faults' = faults + 1

\* A send on a closed connection raises.
Says(r, frame) ==
  conn[r].up /\ conn' = [conn EXCEPT ![r].inbox = IF conn[r].state = "mute" THEN @ ELSE Append(@, frame)]

(***************************************************************************)
(* The gateway task: connect, read, and the way out of a connection.       *)
(***************************************************************************)

Connect(r) ==
  /\ at[r] = "connecting" /\ (HostLasts \/ ch.sid = 0)
  /\ ch' = [ch EXCEPT !.ws = r]
  /\ conn' = [conn EXCEPT ![r] = [Closed EXCEPT !.up = TRUE, !.inbox = <<Frame("hello", 0, 0)>>]]
  /\ Goto(r, "reading")
  /\ UNCHANGED <<leaves, srv, op, begun, faults, ops>>

ConnectFails(r) ==
  /\ at[r] = "connecting"
  /\ IF ~HostLasts /\ ch.sid # 0 THEN UNCHANGED faults ELSE Fault
  /\ Goto(r, "backoff")
  /\ UNCHANGED <<ch, leaves, conn, srv, op, begun, ops>>

Head1(r) == Head(conn[r].inbox)
Reads(r, kinds) == at[r] = "reading" /\ conn[r].inbox # <<>> /\ Head1(r).op \in kinds

\* mutant: only READY sets the number to resume from
NumberedByReady(f) == IF f.op = "ready" THEN f.s ELSE ch.seq

\* _sequence is set from every frame that has a number, before its payload is handled.
Numbered(f) == IF f.s > 0 THEN f.s ELSE ch.seq

Popped(r) == [conn EXCEPT ![r].inbox = Tail(@)]
Dropped(r) == [conn EXCEPT ![r].up = FALSE, ![r].inbox = <<>>, ![r].hand = <<>>]

\* mutant: the handshake is not watched
WatchNothing == 0

\* The watchdog watches the websocket the channel holds.
Watched == ch.ws

\* HELLO: heartbeat and watchdog start, and the session is resumed if there is one.
Hello(r) ==
  LET w == ch.ws IN
  /\ Reads(r, {"hello"})
  /\ ch' = [ch EXCEPT !.beat = "due", !.pending = FALSE, !.watch = Watched,
                      !.waiting = IF ch.sid # 0 /\ ch.seq # 0 THEN "resumed" ELSE "ready"]
  /\ IF w # 0 /\ ~conn[w].up
     THEN conn' = Dropped(r) /\ Goto(r, "backoff")
     ELSE /\ conn' = IF w = 0 THEN Popped(r)
                     ELSE [Popped(r) EXCEPT ![w].asked = <<IF ch.seq # 0 THEN ch.sid ELSE 0, ch.seq>>]
          /\ UNCHANGED at
  /\ UNCHANGED <<leaves, srv, op, begun, faults, ops>>

SessionFrames == {"ready", "resumed", "invalid", "rejected"}

\* Frame in hand, before it looks at it, the task waits for the watchdog it cancels.
Settle(r) ==
  /\ Reads(r, SessionFrames) /\ ch.watch # 0
  /\ ch' = [ch EXCEPT !.watch = 0, !.seq = Numbered(Head1(r))]
  /\ conn' = [Popped(r) EXCEPT ![r].hand = <<Head1(r)>>] /\ Goto(r, "settling")
  /\ UNCHANGED <<leaves, srv, op, begun, faults, ops>>

\* READY, RESUMED and INVALID SESSION; the last ends the connection.
Settled(f) ==
  [ch EXCEPT !.waiting = "",
             !.sid = CASE f.op = "ready" -> f.of [] f.op = "invalid" -> 0 [] OTHER -> @,
             !.seq = IF f.op = "invalid" THEN 0 ELSE Numbered(f)]

Session(r) ==
  LET held == at[r] = "settling"
      f == IF held THEN conn[r].hand[1] ELSE Head1(r)
  IN
  /\ held \/ (Reads(r, SessionFrames) /\ ch.watch = 0)
  /\ ch' = Settled(f)
  /\ IF f.op \in {"ready", "resumed"}
     THEN /\ conn' = IF held THEN [conn EXCEPT ![r].hand = <<>>] ELSE Popped(r)
          /\ Goto(r, "reading")
     ELSE conn' = Dropped(r) /\ Goto(r, "closing")
  /\ UNCHANGED <<leaves, srv, op, begun, faults, ops>>

Ack(r) ==
  /\ Reads(r, {"ack"})
  /\ ch' = [ch EXCEPT !.pending = FALSE] /\ conn' = Popped(r)
  /\ UNCHANGED <<at, leaves, srv, op, begun, faults, ops>>

\* Discord asks for a heartbeat.
BeatNow(r) ==
  LET w == ch.ws IN
  /\ Reads(r, {"beat"})
  /\ ch' = [ch EXCEPT !.pending = TRUE]
  /\ IF w # 0 /\ ~conn[w].up
     THEN conn' = Dropped(r) /\ Goto(r, "backoff")
     ELSE /\ conn' = IF w = 0 \/ conn[w].state = "mute" THEN Popped(r)
                     ELSE [Popped(r) EXCEPT ![w].inbox = Append(@, Frame("ack", 0, 0))]
          /\ UNCHANGED at
  /\ UNCHANGED <<leaves, srv, op, begun, faults, ops>>

Reconnect(r) ==
  /\ Reads(r, {"reconnect"})
  /\ conn' = Dropped(r) /\ Goto(r, "closing")
  /\ UNCHANGED <<ch, leaves, srv, op, begun, faults, ops>>

\* MESSAGE_CREATE, a reaction or an interaction; the task waits for its handler.
Message(r) ==
  LET f == Head1(r) IN
  /\ Reads(r, {"message"})
  /\ ch' = [ch EXCEPT !.seq = Numbered(f)]
  /\ begun' = [begun EXCEPT ![f.of] = @ + 1]
  /\ conn' = Popped(r) /\ Goto(r, "handling")
  /\ UNCHANGED <<leaves, srv, op, faults, ops>>

\* The manager has the message; the typing indicator, if it still runs, is waited for.
Handled(r) ==
  /\ \/ at[r] = "handling" /\ \E place \in {"untyping", "reading"} : Goto(r, place)
     \/ at[r] = "untyping" /\ Goto(r, "reading")
  /\ UNCHANGED <<ch, leaves, conn, srv, op, begun, faults, ops>>

HandlerRaises(r) ==
  /\ at[r] = "handling" /\ Fault
  /\ conn' = Dropped(r) /\ Goto(r, "backoff")
  /\ UNCHANGED <<ch, leaves, srv, op, begun, ops>>

\* The frames are read to the end; an abnormal end raises.
ReadEnds(r) ==
  /\ at[r] = "reading" /\ conn[r].inbox = <<>> /\ ~conn[r].up
  /\ Goto(r, IF conn[r].failed THEN "backoff" ELSE "closing")
  /\ UNCHANGED <<ch, leaves, conn, srv, op, begun, faults, ops>>

\* The finally block forgets the websocket and waits for heartbeat and watchdog.
Cleaned(c) == [c EXCEPT !.ws = 0, !.beat = "none", !.watch = 0, !.pending = FALSE, !.waiting = ""]
Waits == ch.beat # "none" \/ ch.watch # 0
Onward(r) == IF ch.running /\ r \notin leaves THEN "connecting" ELSE "ended"

CleanUp(r) ==
  /\ at[r] \in {"closing", "backoff"}
  /\ ch' = Cleaned(ch) /\ Goto(r, IF Waits THEN "cleaning" ELSE Onward(r))
  /\ conn' = [conn EXCEPT ![r] = Closed]
  /\ UNCHANGED <<leaves, srv, op, begun, faults, ops>>

Again(r) ==
  /\ at[r] = "cleaning" /\ Goto(r, Onward(r))
  /\ UNCHANGED <<ch, leaves, conn, srv, op, begun, faults, ops>>

(***************************************************************************)
(* The heartbeat and the watchdog.                                         *)
(***************************************************************************)

\* A connection on which an answer may take longer than its time.
Slow(r) == conn[r].state # "well" \/ ~conn[r].up \/ at[r] = "handling"

Missed == ch.pending

Beat ==
  LET w == ch.ws IN
  /\ ch.beat = "due"
  /\ IF ~ch.running \/ w = 0
     THEN ch' = [ch EXCEPT !.beat = "none"] /\ UNCHANGED conn
     ELSE IF Missed
     THEN /\ ch' = [ch EXCEPT !.beat = "none", !.pending = FALSE]
          /\ conn' = [conn EXCEPT ![w].up = FALSE]
     ELSE \/ /\ Says(w, Frame("ack", 0, 0))
             /\ ch' = [ch EXCEPT !.beat = "asleep", !.pending = TRUE]
          \/ ~conn[w].up /\ ch' = [ch EXCEPT !.beat = "none"] /\ UNCHANGED conn
  /\ UNCHANGED <<at, leaves, srv, op, begun, faults, ops>>

Interval ==
  /\ ch.beat = "asleep" /\ (ch.pending /\ ch.ws # 0 => Slow(ch.ws))
  /\ ch' = [ch EXCEPT !.beat = "due"]
  /\ UNCHANGED <<at, leaves, conn, srv, op, begun, faults, ops>>

Watchdog ==
  LET w == ch.watch IN
  /\ w # 0 /\ Slow(w)
  /\ ch' = [ch EXCEPT !.watch = 0]
  /\ conn' = IF ch.running /\ ch.ws = w /\ ch.waiting # "" THEN [conn EXCEPT ![w].up = FALSE] ELSE conn
  /\ UNCHANGED <<at, leaves, srv, op, begun, faults, ops>>

(***************************************************************************)
(* Refresh and replacement.                                                *)
(***************************************************************************)

\* Where a cancellation goes unnoticed, cancel_task having taken it for the other's.
Deaf == {"settling", "untyping", "cleaning"}

\* The gateway task is cancelled wherever it stands.
Cancelled(r) ==
  IF at[r] \in Deaf \/ at[r] = "ended" THEN UNCHANGED <<ch, at, leaves, conn>>
  ELSE /\ leaves' = leaves \union {r}
       /\ ch' = Cleaned(ch) /\ Goto(r, IF Waits THEN "cleaning" ELSE "ended")
       /\ conn' = [conn EXCEPT ![r] = Closed]

Spare == Min({r \in Runners : at[r] = "none"})

\* /discord-refresh, which the manager's interceptor runs in the gateway task itself: the
\* task cancels itself, does not notice, and goes on beside the one it started.
RefreshWithin ==
  /\ at[ch.task] = "handling"
  /\ conn' = IF ch.ws = 0 THEN conn ELSE [conn EXCEPT ![ch.ws].up = FALSE]
  /\ ch' = NewChannel(Spare) /\ Goto(Spare, "connecting")
  /\ UNCHANGED <<leaves, op>>

Refresh ==
  /\ op = "none" /\ ops < MaxOps /\ ops' = ops + 1
  /\ \E within \in BOOLEAN :
       /\ within => FromWithin
       /\ IF within THEN RefreshWithin ELSE op' = "refresh" /\ Cancelled(ch.task)
  /\ UNCHANGED <<srv, begun, faults>>

\* stop, the first half of a replacement by the manager.
Stop ==
  LET r == ch.task IN
  /\ op = "none" /\ ops < MaxOps /\ ops' = ops + 1
  /\ op' = "replace"
  /\ IF at[r] \in Deaf \/ at[r] = "ended"
     THEN ch' = [ch EXCEPT !.running = FALSE] /\ UNCHANGED <<at, leaves, conn>>
     ELSE /\ leaves' = leaves \union {r}
          /\ ch' = [Cleaned(ch) EXCEPT !.running = FALSE]
          /\ Goto(r, IF Waits THEN "cleaning" ELSE "ended")
          /\ conn' = [conn EXCEPT ![r] = Closed]
  /\ UNCHANGED <<srv, begun, faults>>

\* mutant: the new task does not wait for the old one
GoneAnyway(r) == TRUE

Gone(r) == at[r] = "ended"

\* The old task has ended: nothing is left of its session, and a new task starts.
Restart ==
  /\ op # "none" /\ Gone(ch.task)
  /\ op' = "none"
  /\ ch' = NewChannel(Spare) /\ Goto(Spare, "connecting")
  /\ UNCHANGED <<leaves, conn, srv, begun, faults, ops>>

(***************************************************************************)
(* Discord, the users and the network.                                     *)
(***************************************************************************)

\* What the session's log has after the number to resume from.
Since(seq) == [i \in 1..(Len(srv.log) + 1 - seq) |-> Logged(seq - 1 + i)]

\* A handshake is answered: a new session, the rest of a session, or none.
Answer(r) ==
  LET sid == conn[r].asked[1]
      seq == conn[r].asked[2]
      Says2(frames, joined) ==
        conn' = [conn EXCEPT ![r].asked = <<>>, ![r].inbox = @ \o frames, ![r].joined = joined]
  IN
  /\ conn[r].up /\ conn[r].state = "well" /\ conn[r].asked # <<>>
  /\ IF sid = 0
     THEN /\ srv' = [id |-> srv.id + 1, alive |-> TRUE, log |-> <<>>]
          /\ Says2(<<Frame("ready", 1, srv.id + 1)>>, TRUE)
     ELSE /\ IF sid = srv.id /\ srv.alive
             THEN Says2(Since(seq) \o <<Frame("resumed", 0, 0)>>, TRUE)
             ELSE Says2(<<Frame("invalid", 0, 0)>>, FALSE)
          /\ UNCHANGED srv
  /\ UNCHANGED <<ch, at, leaves, op, begun, faults, ops>>

Joined == {r \in Runners : conn[r].joined /\ conn[r].up}

Write ==
  /\ srv.alive /\ \E m \in Messages :
       /\ m = 1 + Max({0} \union {n \in Messages : begun[n] > 0 \/ Contains(srv.log, n)})
       /\ srv' = [srv EXCEPT !.log = Append(@, m)]
       /\ conn' = [r \in Runners |->
                     IF r \in Joined /\ conn[r].state = "well"
                     THEN [conn[r] EXCEPT !.inbox = Append(@, Frame("message", Len(srv.log) + 2, m))]
                     ELSE conn[r]]
  /\ UNCHANGED <<ch, at, leaves, op, begun, faults, ops>>

\* What Discord may send a session, or refuse a handshake with.
Interrupt(r) ==
  /\ Fault /\ conn[r].up /\ conn[r].state = "well"
  /\ \/ /\ conn[r].joined
        /\ \E what \in {"reconnect", "beat", "rejected", "invalid"} :
             /\ conn' = [conn EXCEPT ![r].inbox = Append(@, Frame(what, 0, 0))]
             /\ srv' = [srv EXCEPT !.alive = @ /\ what # "invalid"]
     \/ /\ conn[r].asked # <<>> /\ conn[r].asked[1] # 0
        /\ conn' = [conn EXCEPT ![r].asked = <<>>, ![r].inbox = Append(@, Frame("rejected", 0, 0))]
        /\ UNCHANGED srv
  /\ UNCHANGED <<ch, at, leaves, op, begun, ops>>

\* The connection breaks, with or without the frames that were not read; it falls
\* silent; or it is alive and its handshake is forgotten.
Break(r) ==
  /\ Fault /\ conn[r].up
  /\ \/ \E failed \in BOOLEAN : \E inbox \in {<<>>, conn[r].inbox} :
          conn' = [conn EXCEPT ![r].up = FALSE, ![r].failed = failed, ![r].inbox = inbox]
     \/ conn' = [conn EXCEPT ![r].state = "mute"]
     \/ conn[r].asked # <<>> /\ conn' = [conn EXCEPT ![r].state = "stalled", ![r].asked = <<>>]
  /\ UNCHANGED <<ch, at, leaves, srv, op, begun, ops>>

\* Discord closes a connection without heartbeats.
NoBeats(r) ==
  /\ conn[r].up /\ ch.beat = "none" /\ conn[r].state # "mute"
  /\ ~\E f \in Range(conn[r].inbox) : f.op = "hello"
  /\ conn' = [conn EXCEPT ![r].up = FALSE]
  /\ UNCHANGED <<ch, at, leaves, srv, op, begun, faults, ops>>

\* A session without a connection expires.
Expire ==
  /\ srv.alive /\ Joined = {} /\ Fault
  /\ srv' = [srv EXCEPT !.alive = FALSE]
  /\ UNCHANGED <<ch, at, leaves, conn, op, begun, ops>>

(***************************************************************************)
(* The specification.                                                      *)
(***************************************************************************)

Works(r) ==
  \/ Connect(r) \/ Hello(r) \/ Settle(r) \/ Session(r) \/ Ack(r) \/ BeatNow(r) \/ Reconnect(r)
  \/ Message(r) \/ Handled(r) \/ ReadEnds(r) \/ CleanUp(r) \/ Again(r)

Next ==
  \/ \E r \in Runners :
       \/ Works(r) \/ ConnectFails(r) \/ HandlerRaises(r)
       \/ Answer(r) \/ Interrupt(r) \/ Break(r) \/ NoBeats(r)
  \/ Beat \/ Interval \/ Watchdog \/ Refresh \/ Stop \/ Restart
  \/ Write \/ Expire

Spec == Init /\ [][Next]_vars

\* The event loop runs what is ready, handlers end, time passes, Discord answers.
Fairness ==
  /\ \A r \in Runners : WF_vars(Works(r)) /\ WF_vars(Answer(r)) /\ WF_vars(NoBeats(r))
  /\ WF_vars(Beat) /\ WF_vars(Interval) /\ WF_vars(Watchdog) /\ WF_vars(Restart)

FairSpec == Spec /\ Fairness

(***************************************************************************)
(* What must hold.                                                         *)
(***************************************************************************)

\* One task reads the gateway at a time, through refreshes and replacements
\* (operator_refresh_transport and stop wait for the task they cancelled).
OneReader == Cardinality({r \in Runners : at[r] \notin {"none", "ended"}}) <= 1

\* Over lost connections and resumed sessions each message of the session is handed to
\* its handler once, and none is skipped: those up to _sequence have been, no other has.
ReadOnce ==
  ch.sid # 0 /\ ch.sid = srv.id =>
    \A i \in DOMAIN srv.log : begun[srv.log[i]] = IF i < ch.seq THEN 1 ELSE 0

Live ==
  /\ ch.ws # 0 /\ ch.waiting = "" /\ ch.sid = srv.id
  /\ conn[ch.ws].up /\ conn[ch.ws].joined /\ conn[ch.ws].state = "well"

\* Whatever broke, the channel has a session on a live connection again in the end,
\* unless a refresh or replacement waits for a task that did not notice it.
Recovers == <>[](Live \/ op # "none")

\* A refresh or a replacement comes to its end.  It does not hold of a refresh whose
\* cancellation fell into cancel_task (channels/base.py:98).
OpsEnd == op # "none" ~> op = "none"
===============================================================================
