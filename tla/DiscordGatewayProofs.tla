------------------------- MODULE DiscordGatewayProofs -------------------------
(***************************************************************************)
(* Proofs about DiscordGateway for any number of messages, failures,       *)
(* refreshes and replacements.                                             *)
(***************************************************************************)
EXTENDS DiscordGateway, TLAPS, FiniteSetTheorems, NaturalsInduction

Fields == {"running", "task", "ws", "beat", "pending", "watch", "waiting", "sid", "seq"}

\* The task stands somewhere in _gateway_runner.
Runs(r) == at[r] \notin {"none", "ended"}

\* The inductive invariant: only the task the channel holds runs.
HeldRuns ==
  /\ DOMAIN ch = Fields
  /\ at = [r \in Runners |-> at[r]]
  /\ \A r \in Runners : Runs(r) => r = ch.task

\* The channel still holds its task.
Kept == DOMAIN ch' = Fields /\ ch'.task = ch.task

LEMMA AllStand == ASSUME HeldRuns, Kept, UNCHANGED at PROVE HeldRuns'
  BY DEF HeldRuns, Kept, Runs

\* One task goes on, the one the channel holds.
LEMMA HeldGoes ==
  ASSUME HeldRuns, Kept, NEW r, (r \in Runners /\ Runs(r)) \/ r = ch.task,
         NEW place, Goto(r, place)
  PROVE  HeldRuns'
  BY DEF HeldRuns, Kept, Goto, Runs

LEMMA CleanedKeeps ==
  ASSUME DOMAIN ch = Fields
  PROVE  DOMAIN Cleaned(ch) = Fields /\ Cleaned(ch).task = ch.task
  BY DEF Cleaned, Fields

LEMMA SettledKeeps ==
  ASSUME DOMAIN ch = Fields, NEW f
  PROVE  DOMAIN Settled(f) = Fields /\ Settled(f).task = ch.task
  BY DEF Settled, Fields

\* The steps of a gateway task.
LEMMA WorkerStep ==
  ASSUME HeldRuns, NEW r \in Runners, Works(r) \/ ConnectFails(r) \/ HandlerRaises(r)
  PROVE  HeldRuns'
<1> USE DEF HeldRuns, Fields
<1>1. CASE Connect(r)
  BY <1>1, HeldGoes DEF Connect, Kept, Runs
<1>2. CASE Hello(r)
  <2>1. Kept /\ Runs(r)
    BY <1>2 DEF Hello, Kept, Reads, Runs
  <2>2. Goto(r, "backoff") \/ UNCHANGED at
    BY <1>2 DEF Hello
  <2>3. QED
    BY <2>1, <2>2, HeldGoes, AllStand
<1>3. CASE Settle(r)
  BY <1>3, HeldGoes DEF Settle, Kept, Reads, Runs
<1>4. CASE Session(r)
  <2>1. Runs(r)
    BY <1>4 DEF Session, Reads, Runs
  <2>2. Kept
    BY <1>4, SettledKeeps DEF Session, Kept
  <2>3. Goto(r, "reading") \/ Goto(r, "closing")
    BY <1>4 DEF Session
  <2>4. QED
    BY <2>1, <2>2, <2>3, HeldGoes
<1>5. CASE Ack(r)
  BY <1>5, AllStand DEF Ack, Kept
<1>6. CASE BeatNow(r)
  <2>1. Kept /\ Runs(r)
    BY <1>6 DEF BeatNow, Kept, Reads, Runs
  <2>2. Goto(r, "backoff") \/ UNCHANGED at
    BY <1>6 DEF BeatNow
  <2>3. QED
    BY <2>1, <2>2, HeldGoes, AllStand
<1>7. CASE Reconnect(r)
  BY <1>7, HeldGoes DEF Reconnect, Kept, Reads, Runs
<1>8. CASE Message(r)
  BY <1>8, HeldGoes DEF Message, Kept, Reads, Runs
<1>9. CASE Handled(r)
  BY <1>9, HeldGoes DEF Handled, Kept, Runs
<1>10. CASE ReadEnds(r)
  BY <1>10, HeldGoes DEF ReadEnds, Kept, Runs
<1>11. CASE CleanUp(r)
  BY <1>11, HeldGoes, CleanedKeeps DEF CleanUp, Kept, Runs
<1>12. CASE Again(r)
  BY <1>12, HeldGoes DEF Again, Kept, Runs
<1>13. CASE ConnectFails(r)
  BY <1>13, HeldGoes DEF ConnectFails, Kept, Runs
<1>14. CASE HandlerRaises(r)
  BY <1>14, HeldGoes DEF HandlerRaises, Kept, Runs
<1>15. QED
  BY <1>1, <1>2, <1>3, <1>4, <1>5, <1>6, <1>7, <1>8, <1>9, <1>10, <1>11, <1>12, <1>13, <1>14
     DEF Works

\* Heartbeat, watchdog, Discord, users and network leave the gateway task where it is.
LEMMA OutsideStep ==
  ASSUME HeldRuns,
         \/ Beat \/ Interval \/ Watchdog \/ Write \/ Expire
         \/ \E r \in Runners : Answer(r) \/ Interrupt(r) \/ Break(r) \/ NoBeats(r)
  PROVE  HeldRuns'
<1> USE DEF HeldRuns, Fields
<1>1. UNCHANGED at
  BY DEF Beat, Interval, Watchdog, Write, Expire, Answer, Interrupt, Break, NoBeats
<1>2. Kept
  BY DEF Beat, Interval, Watchdog, Write, Expire, Answer, Interrupt, Break, NoBeats, Kept
<1>3. QED
  BY <1>1, <1>2, AllStand

\* A cancellation moves the task the channel holds, or falls on deaf ears.
LEMMA CancelledStep ==
  ASSUME HeldRuns, Kept,
         UNCHANGED at \/ \E place : Goto(ch.task, place)
  PROVE  HeldRuns'
  BY HeldGoes, AllStand

\* Refresh and replacement, when no refresh is asked for from within.
LEMMA OperatorStep ==
  ASSUME HeldRuns, ~FromWithin, Refresh \/ Stop \/ Restart
  PROVE  HeldRuns'
<1> USE DEF HeldRuns, Fields
<1>1. CASE Refresh
  <2>1. Cancelled(ch.task)
    BY <1>1, Zenon DEF Refresh
  <2>2. Kept /\ (UNCHANGED at \/ \E place : Goto(ch.task, place))
    BY <2>1, CleanedKeeps DEF Cancelled, Kept
  <2>3. QED
    BY <2>2, CancelledStep
<1>2. CASE Stop
  <2>1. Kept /\ (UNCHANGED at \/ \E place : Goto(ch.task, place))
    BY <1>2, CleanedKeeps DEF Stop, Kept
  <2>2. QED
    BY <2>1, CancelledStep
<1>3. CASE Restart
  <2>1. at[ch.task] = "ended" /\ at' = [at EXCEPT ![Spare] = "connecting"]
    BY <1>3 DEF Restart, Gone, Goto
  <2>2. DOMAIN ch' = Fields /\ ch'.task = Spare
    BY <1>3 DEF Restart, NewChannel
  <2>3. \A r \in Runners : ~Runs(r)
    BY <2>1 DEF Runs
  <2>4. QED
    BY <2>1, <2>2, <2>3 DEF Runs
<1>4. QED
  BY <1>1, <1>2, <1>3

\* One task reads the gateway at a time, wherever a refresh or a replacement finds it,
\* as long as no refresh is asked for by a message the task itself handles.
THEOREM OneTaskReads == ASSUME ~FromWithin PROVE Spec => []OneReader
<1>1. Init => HeldRuns
  <2> SUFFICES ASSUME Init PROVE HeldRuns
    OBVIOUS
  <2>1. DOMAIN ch = Fields /\ ch.task = 1
    BY DEF Init, NewChannel, Fields
  <2>2. at = [r \in Runners |-> IF r = 1 THEN "connecting" ELSE "none"]
    BY DEF Init
  <2>3. QED
    BY <2>1, <2>2 DEF HeldRuns, Runs
<1>2. HeldRuns /\ [Next]_vars => HeldRuns'
  <2> SUFFICES ASSUME HeldRuns, [Next]_vars PROVE HeldRuns'
    OBVIOUS
  <2>1. CASE UNCHANGED vars
    BY <2>1 DEF vars, HeldRuns, Runs
  <2>2. CASE Next
    BY <2>2, WorkerStep, OutsideStep, OperatorStep DEF Next
  <2>3. QED
    BY <2>1, <2>2
<1>3. HeldRuns => OneReader
  <2> SUFFICES ASSUME HeldRuns PROVE OneReader
    OBVIOUS
  <2> DEFINE readers == {r \in Runners : Runs(r)}
  <2>1. readers \subseteq {ch.task}
    BY DEF HeldRuns
  <2>2. IsFiniteSet({ch.task}) /\ Cardinality({ch.task}) = 1
    BY FS_Singleton
  <2>3. Cardinality(readers) <= 1
    BY <2>1, <2>2, FS_Subset
  <2>4. QED
    BY <2>3 DEF OneReader, Runs
<1>4. QED
  BY <1>1, <1>2, <1>3, PTL DEF Spec

-------------------------------------------------------------------------------
(* Each message of a session is read once.  k is the channel, v the session    *)
(* Discord keeps, c a connection.                                              *)

FrameKinds == SessionFrames \union {"hello", "ack", "beat", "reconnect", "message"}
Frames == [op : FrameKinds, s : Nat, of : Nat]
Connections == [up : BOOLEAN, failed : BOOLEAN, state : {"well", "mute", "stalled"},
                inbox : Seq(Frames), asked : Seq(Nat), joined : BOOLEAN, hand : Seq(Frames)]
Servers == [id : Nat, alive : BOOLEAN, log : Seq(Messages)]

\* The types; of the channel, what counts for its session.
GatewayTyped ==
  /\ ch.sid \in Nat /\ ch.seq \in Nat
  /\ conn \in [Runners -> Connections] /\ srv \in Servers /\ begun \in [Messages -> Nat]

\* Where a gateway task has no connection.
Apart == {"none", "connecting", "cleaning", "ended"}

\* Nobody but the task the channel holds has a connection, which the channel holds too;
\* a task has a frame in hand while it waits for the watchdog.
HeldConnection ==
  /\ ch.ws # 0 => ch.ws \in Runners /\ ch.ws = ch.task /\ at[ch.ws] \notin Apart
  /\ ch.watch \in {0, ch.ws}
  /\ \A r \in Runners :
       /\ r # ch.task \/ at[r] \in Apart => conn[r] = Closed
       /\ at[r] = "settling" <=> conn[r].hand # <<>>

\* The channel's session is the one Discord keeps.
Knows(k, v) == k.sid # 0 /\ k.sid = v.id

\* READY is on its way to the task, or in its hand.
ReadyComes(c) ==
  \/ c.hand # <<>> /\ c.hand[1].op = "ready"
  \/ \E i \in DOMAIN c.inbox : c.inbox[i].op = "ready"

\* READY and messages have numbers, and READY is that of the session Discord keeps.
FrameRight(f, v) ==
  /\ f.op \notin {"ready", "message"} => f.s = 0
  /\ f.op = "ready" => f.s = 1 /\ f.of = v.id

\* HELLO comes first, then the handshake with what the channel knows, then its answer.
Handshake(c, k, v) ==
  /\ \A i \in DOMAIN c.inbox : FrameRight(c.inbox[i], v)
  /\ c.hand # <<>> => FrameRight(c.hand[1], v) /\ c.hand[1].op \in SessionFrames
  /\ c.asked # <<>> =>
       /\ c.asked = <<IF k.seq # 0 THEN k.sid ELSE 0, k.seq>> /\ ~c.joined /\ c.hand = <<>>
       /\ \A i \in DOMAIN c.inbox : c.inbox[i].op = "ack"
  /\ \A i \in DOMAIN c.inbox : c.inbox[i].op = "hello" =>
       /\ c.asked = <<>> /\ ~c.joined /\ c.hand = <<>>
       /\ \A j \in DOMAIN c.inbox : j # i => c.inbox[j].op = "ack"
  /\ \A i \in DOMAIN c.inbox : c.inbox[i].op = "ready" =>
       /\ c.hand = <<>> /\ \A j \in 1..(i - 1) : c.inbox[j].op = "ack"

\* The messages of q are those of the log l after number b, in order and without a gap.
Stream(q, b, l) ==
  \A i \in DOMAIN q : q[i].op = "message" =>
    /\ b < q[i].s /\ q[i].s <= Len(l) + 1 /\ q[i].of = l[q[i].s - 1]
    /\ \A j \in 1..(i - 1) : q[j].op = "message" => q[j].s < q[i].s
    /\ \A n \in (b + 1)..(q[i].s - 1) : \E j \in 1..(i - 1) : q[j].op = "message" /\ q[j].s = n

\* They go to the end of the log.
Complete(q, b, l) ==
  \A n \in (b + 1)..(Len(l) + 1) : \E i \in DOMAIN q : q[i].op = "message" /\ q[i].s = n

\* The number before the first message on its way.
From(c, k) == IF ReadyComes(c) THEN 1 ELSE k.seq

HasMessage(q) == \E i \in DOMAIN q : q[i].op = "message"

\* Messages come after READY or in the channel's own session, and on a sound connection
\* the task will read all there are.
Messaging(c, k, v) ==
  /\ Stream(c.inbox, From(c, k), v.log)
  /\ HasMessage(c.inbox) \/ (c.joined /\ c.up) => ReadyComes(c) \/ Knows(k, v)
  /\ c.up /\ c.joined /\ c.state = "well" => Complete(c.inbox, From(c, k), v.log)

Sound(c, k, v) == Handshake(c, k, v) /\ Messaging(c, k, v)

\* Of the channel's session what comes after _sequence has not begun; of one whose
\* READY is on its way nothing has.
ReadSoFar ==
  /\ \A i, j \in DOMAIN srv.log : srv.log[i] = srv.log[j] => i = j
  /\ ch.sid <= srv.id
  /\ Knows(ch, srv) => ch.seq \in 1..(Len(srv.log) + 1)
  /\ ReadOnce
  /\ \A r \in Runners : ReadyComes(conn[r]) =>
       srv.id # 0 /\ ~Knows(ch, srv) /\ \A i \in DOMAIN srv.log : begun[srv.log[i]] = 0

ReadInv ==
  /\ HeldRuns /\ GatewayTyped /\ HeldConnection
  /\ \A r \in Runners : Sound(conn[r], ch, srv)
  /\ ReadSoFar

\* Frames that are read and frames that come.
LEMMA TailIs ==
  ASSUME NEW q \in Seq(Frames), q # <<>>
  PROVE  /\ Tail(q) \in Seq(Frames) /\ Len(Tail(q)) = Len(q) - 1
         /\ \A i \in DOMAIN Tail(q) : i + 1 \in DOMAIN q /\ Tail(q)[i] = q[i + 1]
         /\ \A i \in DOMAIN q : i # 1 => i - 1 \in DOMAIN Tail(q) /\ Tail(q)[i - 1] = q[i]
         /\ 1 \in DOMAIN q /\ Head(q) = q[1] /\ Head(q) \in Frames
OBVIOUS

LEMMA AppendIs ==
  ASSUME NEW q \in Seq(Frames), NEW f \in Frames
  PROVE  /\ Append(q, f) \in Seq(Frames) /\ Len(Append(q, f)) = Len(q) + 1
         /\ DOMAIN Append(q, f) = 1..(Len(q) + 1) /\ DOMAIN q = 1..Len(q) /\ Len(q) \in Nat
         /\ \A i \in DOMAIN q : Append(q, f)[i] = q[i]
         /\ Append(q, f)[Len(q) + 1] = f
OBVIOUS

\* A frame that is no message leaves the messages as they are.
LEMMA StreamTail ==
  ASSUME NEW q \in Seq(Frames), q # <<>>, Head(q).op # "message",
         NEW b \in Nat, NEW l \in Seq(Messages)
  PROVE  /\ Stream(q, b, l) => Stream(Tail(q), b, l)
         /\ Complete(q, b, l) => Complete(Tail(q), b, l)
         /\ HasMessage(Tail(q)) => HasMessage(q)
<1> DEFINE t == Tail(q)
<1>1. ASSUME Stream(q, b, l) PROVE Stream(t, b, l)
  <2> SUFFICES ASSUME NEW i \in DOMAIN t, t[i].op = "message"
               PROVE  /\ b < t[i].s /\ t[i].s <= Len(l) + 1 /\ t[i].of = l[t[i].s - 1]
                      /\ \A j \in 1..(i - 1) : t[j].op = "message" => t[j].s < t[i].s
                      /\ \A n \in (b + 1)..(t[i].s - 1) :
                           \E j \in 1..(i - 1) : t[j].op = "message" /\ t[j].s = n
    BY DEF Stream
  <2>1. i + 1 \in DOMAIN q /\ t[i] = q[i + 1] /\ i \in Nat \ {0}
    BY TailIs
  <2>2. /\ b < t[i].s /\ t[i].s <= Len(l) + 1 /\ t[i].of = l[t[i].s - 1]
        /\ \A j \in 1..i : q[j].op = "message" => q[j].s < t[i].s
        /\ \A n \in (b + 1)..(t[i].s - 1) : \E j \in 1..i : q[j].op = "message" /\ q[j].s = n
    BY <1>1, <2>1 DEF Stream
  <2>3. ASSUME NEW j \in 1..(i - 1) PROVE t[j] = q[j + 1] /\ j + 1 \in 1..i
    BY <2>1, TailIs
  <2>4. ASSUME NEW n \in (b + 1)..(t[i].s - 1)
        PROVE  \E j \in 1..(i - 1) : t[j].op = "message" /\ t[j].s = n
    <3>1. PICK j \in 1..i : q[j].op = "message" /\ q[j].s = n
      BY <2>2
    <3>2. j # 1 /\ j - 1 \in 1..(i - 1)
      BY <3>1, <2>1, TailIs
    <3>3. QED
      BY <3>1, <3>2, <2>3
  <2>5. QED
    BY <2>2, <2>3, <2>4
<1>2. ASSUME Complete(q, b, l), NEW n \in (b + 1)..(Len(l) + 1)
      PROVE  \E i \in DOMAIN t : t[i].op = "message" /\ t[i].s = n
  <2>1. PICK i \in DOMAIN q : q[i].op = "message" /\ q[i].s = n
    BY <1>2 DEF Complete
  <2>2. i # 1
    BY <2>1, TailIs
  <2>3. i - 1 \in DOMAIN t /\ t[i - 1] = q[i]
    BY <2>2, TailIs
  <2>4. QED
    BY <2>1, <2>3
<1>3. HasMessage(t) => HasMessage(q)
  BY TailIs DEF HasMessage
<1>4. QED
  BY <1>1, <1>2, <1>3 DEF Complete

\* The first message is the one after b.
LEMMA StreamHead ==
  ASSUME NEW q \in Seq(Frames), q # <<>>, Head(q).op = "message",
         NEW b \in Nat, NEW l \in Seq(Messages), Stream(q, b, l)
  PROVE  /\ Head(q).s = b + 1 /\ b + 1 <= Len(l) + 1 /\ Head(q).of = l[b]
         /\ Stream(Tail(q), b + 1, l)
         /\ Complete(q, b, l) => Complete(Tail(q), b + 1, l)
<1> DEFINE t == Tail(q)
<1>1. 1 \in DOMAIN q /\ Head(q) = q[1] /\ q[1].s \in Nat /\ q[1].op = "message"
  BY TailIs DEF Frames
<1>2. b < q[1].s /\ q[1].s <= Len(l) + 1 /\ q[1].of = l[q[1].s - 1]
  BY <1>1 DEF Stream
<1>3. \A n \in (b + 1)..(q[1].s - 1) : \E j \in 1..(1 - 1) : q[j].op = "message" /\ q[j].s = n
  BY <1>1 DEF Stream
<1>4. q[1].s = b + 1
  <2> SUFFICES ASSUME q[1].s # b + 1 PROVE FALSE
    OBVIOUS
  <2>1. b + 1 \in (b + 1)..(q[1].s - 1)
    BY <1>1, <1>2
  <2>2. \E j \in 1..(1 - 1) : q[j].op = "message" /\ q[j].s = b + 1
    BY <2>1, <1>3
  <2>3. QED
    BY <2>2
<1>5. Stream(t, b + 1, l)
  <2> SUFFICES ASSUME NEW i \in DOMAIN t, t[i].op = "message"
               PROVE  /\ b + 1 < t[i].s /\ t[i].s <= Len(l) + 1 /\ t[i].of = l[t[i].s - 1]
                      /\ \A j \in 1..(i - 1) : t[j].op = "message" => t[j].s < t[i].s
                      /\ \A n \in (b + 1 + 1)..(t[i].s - 1) :
                           \E j \in 1..(i - 1) : t[j].op = "message" /\ t[j].s = n
    BY DEF Stream
  <2>1. i + 1 \in DOMAIN q /\ t[i] = q[i + 1] /\ i \in Nat \ {0} /\ t[i] \in Frames
    BY TailIs
  <2>2. /\ b < t[i].s /\ t[i].s <= Len(l) + 1 /\ t[i].of = l[t[i].s - 1]
        /\ \A j \in 1..i : q[j].op = "message" => q[j].s < t[i].s
        /\ \A n \in (b + 1)..(t[i].s - 1) : \E j \in 1..i : q[j].op = "message" /\ q[j].s = n
    BY <2>1 DEF Stream
  <2>3. ASSUME NEW j \in 1..(i - 1) PROVE t[j] = q[j + 1] /\ j + 1 \in 1..i
    BY <2>1, TailIs
  <2>4. b + 1 < t[i].s
    <3>1. 1 \in 1..i
      BY <2>1
    <3>2. QED
      BY <2>2, <3>1, <1>1, <1>4
  <2>5. ASSUME NEW n \in (b + 1 + 1)..(t[i].s - 1)
        PROVE  \E j \in 1..(i - 1) : t[j].op = "message" /\ t[j].s = n
    <3>1. n \in (b + 1)..(t[i].s - 1)
      BY <2>1 DEF Frames
    <3>2. PICK j \in 1..i : q[j].op = "message" /\ q[j].s = n
      BY <2>2, <3>1
    <3>3. j # 1 /\ j - 1 \in 1..(i - 1)
      BY <3>2, <2>1, <1>4, <2>5
    <3>4. t[j - 1] = q[j]
      BY <2>1, <3>3, TailIs
    <3>5. QED
      BY <3>2, <3>3, <3>4
  <2>6. t[i].s <= Len(l) + 1 /\ t[i].of = l[t[i].s - 1]
    BY <2>2
  <2>7. ASSUME NEW j \in 1..(i - 1), t[j].op = "message" PROVE t[j].s < t[i].s
    BY <2>2, <2>3, <2>7
  <2>8. QED
    BY <2>4, <2>5, <2>6, <2>7
<1>6. ASSUME Complete(q, b, l), NEW n \in (b + 1 + 1)..(Len(l) + 1)
      PROVE  \E i \in DOMAIN t : t[i].op = "message" /\ t[i].s = n
  <2>1. n \in (b + 1)..(Len(l) + 1) /\ n # b + 1
    OBVIOUS
  <2>2. PICK i \in DOMAIN q : q[i].op = "message" /\ q[i].s = n
    BY <1>6, <2>1 DEF Complete
  <2>3. i # 1
    BY <2>1, <2>2, <1>4
  <2>4. i - 1 \in DOMAIN t /\ t[i - 1] = q[i]
    BY <2>3, TailIs
  <2>5. QED
    BY <2>2, <2>4
<1>7. QED
  BY <1>1, <1>2, <1>4, <1>5, <1>6 DEF Complete

LEMMA StreamAppend ==
  ASSUME NEW q \in Seq(Frames), NEW f \in Frames, f.op # "message",
         NEW b \in Nat, NEW l \in Seq(Messages)
  PROVE  /\ Stream(q, b, l) => Stream(Append(q, f), b, l)
         /\ Complete(q, b, l) => Complete(Append(q, f), b, l)
         /\ HasMessage(Append(q, f)) => HasMessage(q)
<1> DEFINE t == Append(q, f)
<1>1. ASSUME Stream(q, b, l), NEW i \in DOMAIN t, t[i].op = "message"
      PROVE  /\ b < t[i].s /\ t[i].s <= Len(l) + 1 /\ t[i].of = l[t[i].s - 1]
             /\ \A j \in 1..(i - 1) : t[j].op = "message" => t[j].s < t[i].s
             /\ \A n \in (b + 1)..(t[i].s - 1) :
                  \E j \in 1..(i - 1) : t[j].op = "message" /\ t[j].s = n
  <2>1. i \in DOMAIN q /\ t[i] = q[i] /\ \A j \in 1..(i - 1) : t[j] = q[j]
    BY <1>1, AppendIs
  <2>2. QED
    BY <1>1, <2>1 DEF Stream
<1>2. Complete(q, b, l) => Complete(t, b, l)
  BY AppendIs DEF Complete
<1>3. HasMessage(t) => HasMessage(q)
  BY AppendIs DEF HasMessage
<1>4. QED
  BY <1>1, <1>2, <1>3 DEF Stream

\* The next message of the log goes to the end of a complete stream.
LEMMA StreamNext ==
  ASSUME NEW q \in Seq(Frames), NEW b \in Nat \ {0}, NEW l \in Seq(Messages), NEW m \in Messages,
         b <= Len(l) + 1, NEW f \in Frames,
         f.op = "message", f.s = Len(l) + 2, f.of = m,
         Stream(q, b, l), Complete(q, b, l)
  PROVE  Stream(Append(q, f), b, Append(l, m)) /\ Complete(Append(q, f), b, Append(l, m))
<1> DEFINE t == Append(q, f)
           ll == Append(l, m)
<1>1. /\ Len(ll) = Len(l) + 1 /\ Len(l) \in Nat /\ ll[Len(l) + 1] = m
      /\ \A i \in 1..Len(l) : ll[i] = l[i]
  OBVIOUS
<1>2. ASSUME NEW i \in DOMAIN t, t[i].op = "message"
      PROVE  /\ b < t[i].s /\ t[i].s <= Len(ll) + 1 /\ t[i].of = ll[t[i].s - 1]
             /\ \A j \in 1..(i - 1) : t[j].op = "message" => t[j].s < t[i].s
             /\ \A n \in (b + 1)..(t[i].s - 1) :
                  \E j \in 1..(i - 1) : t[j].op = "message" /\ t[j].s = n
  <2>1. CASE i \in DOMAIN q
    <3>1. t[i] = q[i] /\ q[i] \in Frames /\ \A j \in 1..(i - 1) : t[j] = q[j]
      BY <2>1, AppendIs
    <3>2. /\ b < q[i].s /\ q[i].s <= Len(l) + 1 /\ q[i].of = l[q[i].s - 1]
          /\ \A j \in 1..(i - 1) : q[j].op = "message" => q[j].s < q[i].s
          /\ \A n \in (b + 1)..(q[i].s - 1) :
               \E j \in 1..(i - 1) : q[j].op = "message" /\ q[j].s = n
      BY <1>2, <2>1, <3>1 DEF Stream
    <3>3. q[i].s \in Nat /\ b < q[i].s /\ q[i].s <= Len(l) + 1
      <4>1. q[i].s \in Nat
        BY <3>1 DEF Frames
      <4>2. QED
        BY <3>2, <4>1
    <3>4. q[i].s - 1 \in 1..Len(l)
      BY <1>1, <3>3
    <3>5. ll[q[i].s - 1] = l[q[i].s - 1]
      BY <1>1, <3>4
    <3>6. q[i].s <= Len(ll) + 1
      BY <1>1, <3>3
    <3>7. \A j \in 1..(i - 1) : t[j].op = "message" => t[j].s < t[i].s
      BY <3>1, <3>2
    <3>8. \A n \in (b + 1)..(t[i].s - 1) : \E j \in 1..(i - 1) : t[j].op = "message" /\ t[j].s = n
      BY <3>1, <3>2
    <3>9. QED
      BY <3>1, <3>2, <3>5, <3>6, <3>7, <3>8
  <2>2. CASE i \notin DOMAIN q
    <3>1. i = Len(q) + 1 /\ t[i] = f /\ DOMAIN q = 1..(i - 1)
      BY <2>2, <1>2, AppendIs
    <3>2. ASSUME NEW j \in 1..(i - 1) PROVE t[j] = q[j] /\ j \in DOMAIN q
      BY <3>1, AppendIs
    <3>3. ASSUME NEW j \in 1..(i - 1), t[j].op = "message" PROVE t[j].s < t[i].s
      <4>1. q[j].s <= Len(l) + 1 /\ q[j] \in Frames
        BY <3>2, <3>3 DEF Stream
      <4>2. QED
        BY <4>1, <3>1, <3>2, <1>1 DEF Frames
    <3>4. ASSUME NEW n \in (b + 1)..(t[i].s - 1)
          PROVE  \E j \in 1..(i - 1) : t[j].op = "message" /\ t[j].s = n
      <4>1. n \in (b + 1)..(Len(l) + 1)
        BY <3>1, <1>1
      <4>2. PICK j \in DOMAIN q : q[j].op = "message" /\ q[j].s = n
        BY <4>1 DEF Complete
      <4>3. QED
        BY <4>2, <3>1, <3>2
    <3>5. QED
      BY <1>1, <3>1, <3>3, <3>4
  <2>3. QED
    BY <2>1, <2>2
<1>3. ASSUME NEW n \in (b + 1)..(Len(ll) + 1)
      PROVE  \E i \in DOMAIN t : t[i].op = "message" /\ t[i].s = n
  <2>1. CASE n = Len(l) + 2
    BY <2>1, AppendIs
  <2>2. CASE n # Len(l) + 2
    <3>1. n \in (b + 1)..(Len(l) + 1)
      BY <2>2, <1>1
    <3>2. PICK i \in DOMAIN q : q[i].op = "message" /\ q[i].s = n
      BY <3>1 DEF Complete
    <3>3. QED
      BY <3>2, AppendIs
  <2>3. QED
    BY <2>1, <2>2
<1>4. QED
  BY <1>2, <1>3 DEF Stream, Complete

-------------------------------------------------------------------------------
(* What the steps do to a connection.                                          *)

LEMMA ClosedSound ==
  ASSUME NEW k, NEW v
  PROVE  Closed \in Connections /\ Sound(Closed, k, v) /\ ~ReadyComes(Closed)
<1>1. Closed \in Connections
  BY DEF Closed, Connections
<1>2. Closed.inbox = <<>> /\ Closed.hand = <<>> /\ Closed.asked = <<>> /\ ~Closed.joined /\ ~Closed.up
  BY DEF Closed
<1>3. DOMAIN Closed.inbox = {}
  BY <1>2
<1>4. QED
  BY <1>1, <1>2, <1>3 DEF Sound, Handshake, Messaging, Stream, HasMessage, ReadyComes

\* A connection that loses its frames and is down.
LEMMA DroppedSound ==
  ASSUME NEW c \in Connections, NEW d \in Connections, NEW k, NEW v, NEW kk,
         Sound(c, k, v), d.inbox = <<>>, d.hand = <<>>, ~d.up, d.joined = c.joined,
         d.asked = <<>> \/ (d.asked = c.asked /\ kk.sid = k.sid /\ kk.seq = k.seq)
  PROVE  Sound(d, kk, v) /\ ~ReadyComes(d)
<1>1. DOMAIN d.inbox = {}
  OBVIOUS
<1>2. QED
  BY <1>1 DEF Sound, Handshake, Messaging, Stream, HasMessage, ReadyComes

\* A connection keeps its frames; it may go down or fall silent, and its handshake may
\* be forgotten.
LEMMA KeptSound ==
  ASSUME NEW c \in Connections, NEW d \in Connections, NEW k, NEW v, NEW kk, NEW w,
         Sound(c, k, v), d.inbox = c.inbox, d.hand = c.hand, d.asked \in {c.asked, <<>>},
         d.joined = c.joined, d.up => c.up, d.state = "well" => c.state = "well",
         kk.sid = k.sid, kk.seq = k.seq, w.id = v.id, w.log = v.log
  PROVE  Sound(d, kk, w) /\ (ReadyComes(d) <=> ReadyComes(c))
<1>1. ReadyComes(d) <=> ReadyComes(c)
  BY DEF ReadyComes
<1>2. Handshake(d, kk, w)
  BY DEF Sound, Handshake, FrameRight
<1>3. From(d, kk) = From(c, k)
  BY <1>1 DEF From
<1>4. Messaging(d, kk, w)
  BY <1>1, <1>3 DEF Sound, Messaging, Knows
<1>5. QED
  BY <1>1, <1>2, <1>4 DEF Sound

\* A frame that is neither READY nor a message is read.
LEMMA PoppedSound ==
  ASSUME NEW c \in Connections, NEW d \in Connections, NEW k, NEW v \in Servers, NEW kk,
         k.seq \in Nat, c.inbox # <<>>, Head(c.inbox).op \notin {"ready", "message"},
         Sound(c, k, v), d.inbox = Tail(c.inbox), d.hand = c.hand, d.asked = c.asked,
         d.joined = c.joined, d.up => c.up, d.state = "well" => c.state = "well",
         kk.sid = k.sid, kk.seq = k.seq
  PROVE  Sound(d, kk, v) /\ (ReadyComes(d) <=> ReadyComes(c))
<1> DEFINE q == c.inbox
<1>0. q \in Seq(Frames) /\ v.log \in Seq(Messages)
  BY DEF Connections, Servers
<1>1. ReadyComes(d) <=> ReadyComes(c)
  <2>1. ASSUME NEW i \in DOMAIN q, q[i].op = "ready"
        PROVE  \E j \in DOMAIN Tail(q) : Tail(q)[j].op = "ready"
    <3>1. i # 1
      BY <1>0, <2>1, TailIs
    <3>2. i - 1 \in DOMAIN Tail(q) /\ Tail(q)[i - 1] = q[i]
      BY <1>0, <3>1, TailIs
    <3>3. QED
      BY <2>1, <3>2
  <2>2. ASSUME NEW i \in DOMAIN Tail(q), Tail(q)[i].op = "ready"
        PROVE  \E j \in DOMAIN q : q[j].op = "ready"
    BY <1>0, <2>2, TailIs
  <2>3. QED
    BY <2>1, <2>2 DEF ReadyComes
<1>2. Handshake(d, kk, v)
  <2>1. \A i \in DOMAIN d.inbox : i + 1 \in DOMAIN q /\ d.inbox[i] = q[i + 1] /\ i \in Nat \ {0}
    BY <1>0, TailIs
  <2>2. \A i \in DOMAIN d.inbox : FrameRight(d.inbox[i], v)
    BY <2>1 DEF Sound, Handshake
  <2>3. c.asked # <<>> => \A i \in DOMAIN d.inbox : d.inbox[i].op = "ack"
    BY <2>1 DEF Sound, Handshake
  <2>4. ASSUME NEW i \in DOMAIN d.inbox, d.inbox[i].op = "hello"
        PROVE  /\ c.asked = <<>> /\ ~c.joined /\ c.hand = <<>>
               /\ \A j \in DOMAIN d.inbox : j # i => d.inbox[j].op = "ack"
    <3>1. q[i + 1].op = "hello" /\ i + 1 \in DOMAIN q
      BY <2>1, <2>4
    <3>2. /\ c.asked = <<>> /\ ~c.joined /\ c.hand = <<>>
          /\ \A j \in DOMAIN q : j # i + 1 => q[j].op = "ack"
      BY <3>1 DEF Sound, Handshake
    <3>3. ASSUME NEW j \in DOMAIN d.inbox, j # i PROVE d.inbox[j].op = "ack"
      BY <2>1, <3>2, <3>3
    <3>4. QED
      BY <3>2, <3>3
  <2>5. ASSUME NEW i \in DOMAIN d.inbox, d.inbox[i].op = "ready"
        PROVE  c.hand = <<>> /\ \A j \in 1..(i - 1) : d.inbox[j].op = "ack"
    <3>1. q[i + 1].op = "ready" /\ i + 1 \in DOMAIN q
      BY <2>1, <2>5
    <3>2. c.hand = <<>> /\ \A j \in 1..i : q[j].op = "ack"
      BY <3>1, <2>1 DEF Sound, Handshake
    <3>3. ASSUME NEW j \in 1..(i - 1) PROVE d.inbox[j].op = "ack"
      <4>1. j \in DOMAIN d.inbox /\ j + 1 \in 1..i
        BY <1>0, <2>1, TailIs
      <4>2. QED
        BY <4>1, <2>1, <3>2
    <3>4. QED
      BY <3>2, <3>3
  <2>6. QED
    BY <2>2, <2>3, <2>4, <2>5 DEF Sound, Handshake
<1>3. From(d, kk) = From(c, k) /\ From(c, k) \in Nat
  BY <1>1 DEF From
<1>4. Messaging(d, kk, v)
  <2>1. /\ Stream(q, From(c, k), v.log) => Stream(Tail(q), From(c, k), v.log)
        /\ Complete(q, From(c, k), v.log) => Complete(Tail(q), From(c, k), v.log)
        /\ HasMessage(Tail(q)) => HasMessage(q)
    BY <1>0, <1>3, StreamTail
  <2>2. QED
    BY <1>1, <1>3, <2>1 DEF Sound, Messaging, Knows
<1>5. QED
  BY <1>1, <1>2, <1>4 DEF Sound

\* A frame that is neither HELLO nor READY nor a message comes: an answer to a
\* heartbeat, or what Discord sends a session or refuses a handshake with.
LEMMA AppendedSound ==
  ASSUME NEW c \in Connections, NEW d \in Connections, NEW k, NEW v \in Servers, NEW kk, NEW w,
         NEW f \in Frames, f.op \notin {"hello", "ready", "message"}, f.s = 0,
         k.seq \in Nat,
         Sound(c, k, v), d.inbox = Append(c.inbox, f), d.hand = c.hand,
         \/ f.op = "ack" /\ d.asked = c.asked
         \/ (c.joined \/ c.asked # <<>>) /\ d.asked = <<>>,
         d.joined => c.joined, d.up => c.up, d.state = "well" => c.state = "well",
         kk.sid = k.sid, kk.seq = k.seq, w.id = v.id, w.log = v.log
  PROVE  Sound(d, kk, w) /\ (ReadyComes(d) <=> ReadyComes(c))
<1> DEFINE q == c.inbox
<1>0. q \in Seq(Frames) /\ v.log \in Seq(Messages)
  BY DEF Connections, Servers
<1>a. /\ DOMAIN d.inbox = 1..(Len(q) + 1) /\ DOMAIN q = 1..Len(q) /\ Len(q) \in Nat
      /\ \A i \in DOMAIN q : d.inbox[i] = q[i]
      /\ d.inbox[Len(q) + 1] = f
  BY <1>0, AppendIs
<1>1. ReadyComes(d) <=> ReadyComes(c)
  BY <1>a DEF ReadyComes
<1>2. Handshake(d, kk, w)
  <2>1. \A i \in DOMAIN d.inbox : i \in DOMAIN q \/ d.inbox[i] = f
    BY <1>a
  <2>2. \A i \in DOMAIN d.inbox : FrameRight(d.inbox[i], w)
    BY <1>a, <2>1 DEF Sound, Handshake, FrameRight
  <2>3. d.asked # <<>> => \A i \in DOMAIN d.inbox : d.inbox[i].op = "ack"
    BY <1>a, <2>1 DEF Sound, Handshake
  <2>4. ASSUME NEW i \in DOMAIN d.inbox, d.inbox[i].op = "hello"
        PROVE  /\ d.asked = <<>> /\ ~d.joined /\ d.hand = <<>>
               /\ \A j \in DOMAIN d.inbox : j # i => d.inbox[j].op = "ack"
    <3>1. q[i].op = "hello" /\ i \in DOMAIN q
      BY <1>a, <2>1, <2>4
    <3>2. /\ c.asked = <<>> /\ ~c.joined /\ c.hand = <<>>
          /\ \A j \in DOMAIN q : j # i => q[j].op = "ack"
      BY <3>1 DEF Sound, Handshake
    <3>3. f.op = "ack"
      BY <3>2
    <3>4. QED
      BY <1>a, <2>1, <3>2, <3>3
  <2>5. ASSUME NEW i \in DOMAIN d.inbox, d.inbox[i].op = "ready"
        PROVE  d.hand = <<>> /\ \A j \in 1..(i - 1) : d.inbox[j].op = "ack"
    <3>1. q[i].op = "ready" /\ i \in DOMAIN q
      BY <1>a, <2>1, <2>5
    <3>2. QED
      BY <1>a, <3>1 DEF Sound, Handshake
  <2>6. c.hand # <<>> => FrameRight(c.hand[1], w) /\ c.hand[1].op \in SessionFrames
    BY DEF Sound, Handshake, FrameRight
  <2>7. d.asked # <<>> => d.asked = <<IF kk.seq # 0 THEN kk.sid ELSE 0, kk.seq>> /\ ~d.joined /\ d.hand = <<>>
    BY DEF Sound, Handshake
  <2>8. QED
    BY <2>2, <2>3, <2>4, <2>5, <2>6, <2>7 DEF Handshake
<1>3. From(d, kk) = From(c, k) /\ From(c, k) \in Nat
  BY <1>1 DEF From
<1>4. Messaging(d, kk, w)
  <2>1. /\ Stream(q, From(c, k), v.log) => Stream(Append(q, f), From(c, k), v.log)
        /\ Complete(q, From(c, k), v.log) => Complete(Append(q, f), From(c, k), v.log)
        /\ HasMessage(Append(q, f)) => HasMessage(q)
    BY <1>0, <1>3, StreamAppend
  <2>2. QED
    BY <1>1, <1>3, <2>1 DEF Sound, Messaging, Knows
<1>5. QED
  BY <1>1, <1>2, <1>4 DEF Sound

\* The first message on its way, which is the next one of the channel's session, is read.
LEMMA MessageSound ==
  ASSUME NEW c \in Connections, NEW d \in Connections, NEW k, NEW v \in Servers, NEW kk,
         k.seq \in Nat, c.inbox # <<>>, Head(c.inbox).op = "message", c.hand = <<>>,
         Sound(c, k, v), d.inbox = Tail(c.inbox), d.hand = c.hand, d.asked = c.asked,
         d.joined = c.joined, d.up = c.up, d.state = c.state,
         kk.sid = k.sid, kk.seq = Head(c.inbox).s
  PROVE  /\ Sound(d, kk, v) /\ ~ReadyComes(c) /\ ~ReadyComes(d) /\ Knows(k, v)
         /\ kk.seq = k.seq + 1 /\ kk.seq <= Len(v.log) + 1 /\ Head(c.inbox).of = v.log[k.seq]
<1> DEFINE q == c.inbox
<1>0. q \in Seq(Frames) /\ v.log \in Seq(Messages) /\ 1 \in DOMAIN q /\ q[1].op = "message"
  BY TailIs DEF Connections, Servers
<1>1. \A i \in DOMAIN q : q[i].op # "ready"
  <2>1. ASSUME NEW i \in DOMAIN q, q[i].op = "ready" PROVE FALSE
    <3>1. i # 1 /\ i \in Nat \ {0}
      BY <1>0, <2>1
    <3>2. 1 \in 1..(i - 1)
      BY <3>1
    <3>3. q[1].op = "ack"
      BY <2>1, <3>2 DEF Sound, Handshake
    <3>4. QED
      BY <3>3, <1>0
  <2>2. QED
    BY <2>1
<1>2. ~ReadyComes(c)
  BY <1>1 DEF ReadyComes
<1>3. ~ReadyComes(d)
  BY <1>0, <1>1, TailIs DEF ReadyComes
<1>4. Knows(k, v)
  BY <1>0, <1>2 DEF Sound, Messaging, HasMessage
<1>5. c.asked = <<>> /\ \A i \in DOMAIN q : q[i].op # "hello"
  <2>1. c.asked = <<>>
    BY <1>0 DEF Sound, Handshake
  <2>2. ASSUME NEW i \in DOMAIN q, q[i].op = "hello" PROVE FALSE
    BY <1>0, <2>2 DEF Sound, Handshake
  <2>3. QED
    BY <2>1, <2>2
<1>6. /\ Head(q).s = k.seq + 1 /\ k.seq + 1 <= Len(v.log) + 1 /\ Head(q).of = v.log[k.seq]
      /\ Stream(Tail(q), k.seq + 1, v.log)
      /\ Complete(q, k.seq, v.log) => Complete(Tail(q), k.seq + 1, v.log)
  <2>1. Stream(q, k.seq, v.log)
    BY <1>2 DEF Sound, Messaging, From
  <2>2. QED
    BY <2>1, <1>0, StreamHead
<1>7. Messaging(d, kk, v)
  BY <1>2, <1>3, <1>4, <1>6 DEF Sound, Messaging, From, Knows
<1>8. Handshake(d, kk, v)
  <2>1. \A i \in DOMAIN d.inbox : i + 1 \in DOMAIN q /\ d.inbox[i] = q[i + 1]
    BY <1>0, TailIs
  <2>2. QED
    BY <2>1, <1>1, <1>5 DEF Sound, Handshake
<1>9. QED
  BY <1>2, <1>3, <1>4, <1>6, <1>7, <1>8 DEF Sound

\* A session frame goes from the connection into the hand of its task.
LEMMA HandSound ==
  ASSUME NEW c \in Connections, NEW d \in Connections, NEW k, NEW v \in Servers, NEW kk,
         k.seq \in Nat, c.inbox # <<>>, Head(c.inbox).op \in SessionFrames, c.hand = <<>>,
         Sound(c, k, v), d.inbox = Tail(c.inbox), d.hand = <<Head(c.inbox)>>, d.asked = c.asked,
         d.joined = c.joined, d.up = c.up, d.state = c.state, kk.sid = k.sid,
         kk.seq = IF Head(c.inbox).s > 0 THEN Head(c.inbox).s ELSE k.seq
  PROVE  /\ Sound(d, kk, v) /\ (ReadyComes(d) <=> ReadyComes(c))
         /\ ~ReadyComes(c) => kk.seq = k.seq
<1> DEFINE q == c.inbox
           h == Head(c.inbox)
<1>0. /\ q \in Seq(Frames) /\ v.log \in Seq(Messages) /\ 1 \in DOMAIN q /\ h = q[1] /\ h \in Frames
      /\ \A i \in DOMAIN d.inbox : i + 1 \in DOMAIN q /\ d.inbox[i] = q[i + 1] /\ i \in Nat \ {0}
      /\ d.hand[1] = h /\ d.hand # <<>>
  BY TailIs DEF Connections, Servers
<1>1. h.op # "ack" /\ h.op # "message" /\ FrameRight(h, v)
  BY <1>0 DEF SessionFrames, Sound, Handshake
<1>2. \A i \in DOMAIN q : i # 1 => q[i].op # "ready"
  <2>1. ASSUME NEW i \in DOMAIN q, q[i].op = "ready", i # 1 PROVE FALSE
    <3>1. 1 \in 1..(i - 1)
      BY <1>0, <2>1
    <3>2. q[1].op = "ack"
      BY <2>1, <3>1 DEF Sound, Handshake
    <3>3. QED
      BY <3>2, <1>0, <1>1
  <2>2. QED
    BY <2>1
<1>3. c.asked = <<>> /\ \A i \in DOMAIN q : q[i].op # "hello"
  <2>1. c.asked = <<>>
    BY <1>0, <1>1 DEF Sound, Handshake
  <2>2. ASSUME NEW i \in DOMAIN q, q[i].op = "hello" PROVE FALSE
    <3>1. i # 1
      BY <1>0, <2>2 DEF SessionFrames
    <3>2. q[1].op = "ack"
      BY <2>2, <3>1, <1>0 DEF Sound, Handshake
    <3>3. QED
      BY <3>2, <1>0, <1>1
  <2>3. QED
    BY <2>1, <2>2
<1>4. \A i \in DOMAIN d.inbox : d.inbox[i].op \notin {"ready", "hello"}
  BY <1>0, <1>2, <1>3
<1>5. ReadyComes(c) <=> h.op = "ready"
  BY <1>0, <1>2 DEF ReadyComes
<1>6. ReadyComes(d) <=> h.op = "ready"
  BY <1>0, <1>4 DEF ReadyComes
<1>7. Handshake(d, kk, v)
  BY <1>0, <1>1, <1>3, <1>4 DEF Sound, Handshake
<1>8. h.op # "ready" => kk.seq = k.seq
  BY <1>1, <1>0 DEF FrameRight
<1>9. From(d, kk) = From(c, k) /\ From(c, k) \in Nat
  BY <1>5, <1>6, <1>8 DEF From
<1>10. Messaging(d, kk, v)
  <2>1. /\ Stream(q, From(c, k), v.log) => Stream(Tail(q), From(c, k), v.log)
        /\ Complete(q, From(c, k), v.log) => Complete(Tail(q), From(c, k), v.log)
        /\ HasMessage(Tail(q)) => HasMessage(q)
    BY <1>0, <1>1, <1>9, StreamTail
  <2>2. QED
    BY <1>5, <1>6, <1>9, <2>1 DEF Sound, Messaging, Knows
<1>11. QED
  BY <1>5, <1>6, <1>7, <1>8, <1>10 DEF Sound

\* READY in hand, or the first frame, is handled: the channel knows the session.
LEMMA ReadySound ==
  ASSUME NEW c \in Connections, NEW d \in Connections, NEW k, NEW v \in Servers, NEW kk, NEW f,
         k.seq \in Nat, f.op = "ready", Sound(c, k, v), v.id # 0,
         \/ c.hand # <<>> /\ f = c.hand[1] /\ d.inbox = c.inbox
         \/ c.hand = <<>> /\ c.inbox # <<>> /\ f = Head(c.inbox) /\ d.inbox = Tail(c.inbox),
         d.hand = <<>>, d.asked = c.asked,
         d.joined = c.joined, d.up = c.up, d.state = c.state,
         kk.sid = f.of, kk.seq = IF f.s > 0 THEN f.s ELSE k.seq
  PROVE  /\ Sound(d, kk, v) /\ ReadyComes(c) /\ ~ReadyComes(d)
         /\ Knows(kk, v) /\ kk.seq = 1 /\ kk.sid = v.id
<1> DEFINE q == c.inbox
<1>0. q \in Seq(Frames) /\ v.log \in Seq(Messages) /\ Len(v.log) \in Nat
  BY DEF Connections, Servers
<1>1. CASE c.hand # <<>> /\ f = c.hand[1] /\ d.inbox = c.inbox
  <2>1. ReadyComes(c) /\ FrameRight(f, v)
    BY <1>1 DEF ReadyComes, Sound, Handshake
  <2>2. c.asked = <<>> /\ \A i \in DOMAIN q : q[i].op \notin {"hello", "ready"}
    BY <1>1 DEF Sound, Handshake
  <2>3. ~ReadyComes(d)
    BY <1>1, <2>2 DEF ReadyComes
  <2>4. Handshake(d, kk, v)
    BY <1>1, <2>2 DEF Sound, Handshake
  <2>5. From(d, kk) = 1 /\ From(c, k) = 1 /\ Knows(kk, v) /\ kk.seq = 1 /\ kk.sid = v.id
    BY <2>1, <2>3 DEF From, FrameRight, Knows
  <2>6. Messaging(d, kk, v)
    BY <1>1, <2>5 DEF Sound, Messaging
  <2>7. QED
    BY <2>1, <2>3, <2>4, <2>5, <2>6 DEF Sound
<1>2. CASE c.hand = <<>> /\ c.inbox # <<>> /\ f = Head(c.inbox) /\ d.inbox = Tail(c.inbox)
  <2>0. /\ 1 \in DOMAIN q /\ f = q[1]
        /\ \A i \in DOMAIN d.inbox : i + 1 \in DOMAIN q /\ d.inbox[i] = q[i + 1] /\ i \in Nat \ {0}
    BY <1>0, <1>2, TailIs
  <2>1. ReadyComes(c) /\ FrameRight(f, v)
    BY <2>0 DEF ReadyComes, Sound, Handshake
  <2>2. c.asked = <<>>
    BY <2>0 DEF Sound, Handshake
  <2>3. \A i \in DOMAIN q : i # 1 => q[i].op # "ready"
    <3>1. ASSUME NEW i \in DOMAIN q, q[i].op = "ready", i # 1 PROVE FALSE
      <4>1. 1 \in 1..(i - 1)
        BY <1>0, <3>1
      <4>2. q[1].op = "ack"
        BY <3>1, <4>1 DEF Sound, Handshake
      <4>3. QED
        BY <4>2, <2>0
    <3>2. QED
      BY <3>1
  <2>4. \A i \in DOMAIN q : q[i].op # "hello"
    <3>1. ASSUME NEW i \in DOMAIN q, q[i].op = "hello" PROVE FALSE
      <4>1. i # 1
        BY <3>1, <2>0
      <4>2. q[1].op = "ack"
        BY <3>1, <4>1, <2>0 DEF Sound, Handshake
      <4>3. QED
        BY <4>2, <2>0
    <3>2. QED
      BY <3>1
  <2>5. ASSUME NEW i \in DOMAIN d.inbox PROVE d.inbox[i].op \notin {"hello", "ready"}
    <3>1. i + 1 \in DOMAIN q /\ i + 1 # 1 /\ d.inbox[i] = q[i + 1]
      BY <2>0
    <3>2. QED
      BY <3>1, <2>3, <2>4
  <2>6. ~ReadyComes(d)
    BY <2>5 DEF ReadyComes
  <2>7. Handshake(d, kk, v)
    BY <2>0, <2>2, <2>5 DEF Sound, Handshake
  <2>8. From(d, kk) = 1 /\ From(c, k) = 1 /\ Knows(kk, v) /\ kk.seq = 1 /\ kk.sid = v.id
    BY <2>1, <2>6 DEF From, FrameRight, Knows
  <2>9. /\ Stream(q, 1, v.log) => Stream(Tail(q), 1, v.log)
        /\ Complete(q, 1, v.log) => Complete(Tail(q), 1, v.log)
    BY <1>0, <1>2, StreamTail
  <2>10. Messaging(d, kk, v)
    BY <1>2, <2>8, <2>9 DEF Sound, Messaging
  <2>11. QED
    BY <2>1, <2>6, <2>7, <2>8, <2>10 DEF Sound
<1>3. QED
  BY <1>1, <1>2

\* After HELLO the task asks for what the channel knows.
LEMMA HelloSound ==
  ASSUME NEW c \in Connections, NEW d \in Connections, NEW k, NEW v \in Servers, NEW kk,
         k.seq \in Nat, k.sid \in Nat, c.inbox # <<>>, Head(c.inbox).op = "hello",
         Sound(c, k, v), d.inbox = Tail(c.inbox), d.hand = c.hand,
         d.asked = <<IF k.seq # 0 THEN k.sid ELSE 0, k.seq>>,
         d.joined = c.joined, d.up = c.up, d.state = c.state,
         kk.sid = k.sid, kk.seq = k.seq
  PROVE  Sound(d, kk, v) /\ ~ReadyComes(d)
<1> DEFINE q == c.inbox
<1>0. /\ q \in Seq(Frames) /\ v.log \in Seq(Messages) /\ 1 \in DOMAIN q /\ q[1].op = "hello"
      /\ \A i \in DOMAIN d.inbox : i + 1 \in DOMAIN q /\ d.inbox[i] = q[i + 1] /\ i \in Nat \ {0}
  BY TailIs DEF Connections, Servers
<1>1. /\ c.asked = <<>> /\ ~c.joined /\ c.hand = <<>>
      /\ \A j \in DOMAIN q : j # 1 => q[j].op = "ack"
  BY <1>0 DEF Sound, Handshake
<1>2. ASSUME NEW i \in DOMAIN d.inbox
      PROVE  d.inbox[i].op = "ack" /\ FrameRight(d.inbox[i], v)
  <2>1. i + 1 \in DOMAIN q /\ i + 1 # 1 /\ d.inbox[i] = q[i + 1]
    BY <1>0
  <2>2. QED
    BY <2>1, <1>1 DEF Sound, Handshake
<1>3. ~ReadyComes(d) /\ ~HasMessage(d.inbox)
  BY <1>1, <1>2 DEF ReadyComes, HasMessage
<1>4. Handshake(d, kk, v)
  BY <1>1, <1>2 DEF Handshake
<1>5. Messaging(d, kk, v)
  BY <1>1, <1>2, <1>3 DEF Messaging, Stream
<1>6. QED
  BY <1>3, <1>4, <1>5 DEF Sound

\* A frame in hand that is not READY is handled.
LEMMA HandledSound ==
  ASSUME NEW c \in Connections, NEW d \in Connections, NEW k, NEW v \in Servers, NEW kk,
         c.hand # <<>>, c.hand[1].op # "ready",
         Sound(c, k, v), d.inbox = c.inbox, d.hand = <<>>, d.asked = c.asked,
         d.joined = c.joined, d.up = c.up, d.state = c.state,
         kk.sid = k.sid, kk.seq = k.seq
  PROVE  Sound(d, kk, v) /\ ~ReadyComes(d) /\ ~ReadyComes(c)
<1>1. c.asked = <<>> /\ \A i \in DOMAIN c.inbox : c.inbox[i].op \notin {"hello", "ready"}
  BY DEF Sound, Handshake
<1>2. ~ReadyComes(d) /\ ~ReadyComes(c)
  BY <1>1 DEF ReadyComes
<1>3. Handshake(d, kk, v)
  BY <1>1 DEF Sound, Handshake
<1>4. From(d, kk) = From(c, k)
  BY <1>2 DEF From
<1>5. Messaging(d, kk, v)
  BY <1>2, <1>4 DEF Sound, Messaging, Knows
<1>6. QED
  BY <1>2, <1>3, <1>5 DEF Sound

\* What is known of a connection whose handshake waits for its answer.
LEMMA AskingIs ==
  ASSUME NEW c \in Connections, NEW k, NEW v, c.asked # <<>>, Sound(c, k, v)
  PROVE  /\ ~c.joined /\ c.hand = <<>> /\ ~ReadyComes(c)
         /\ c.asked[1] = (IF k.seq # 0 THEN k.sid ELSE 0) /\ c.asked[2] = k.seq
         /\ \A i \in DOMAIN c.inbox : c.inbox[i].op = "ack" /\ FrameRight(c.inbox[i], v)
<1>1. c.asked = <<IF k.seq # 0 THEN k.sid ELSE 0, k.seq>>
  BY DEF Sound, Handshake
<1>2. /\ ~c.joined /\ c.hand = <<>>
      /\ \A i \in DOMAIN c.inbox : c.inbox[i].op = "ack" /\ FrameRight(c.inbox[i], v)
  BY DEF Sound, Handshake
<1>3. ~ReadyComes(c)
  BY <1>2 DEF ReadyComes
<1>4. QED
  BY <1>1, <1>2, <1>3

\* The answer to an identify: a new session, and READY.
LEMMA NewSession ==
  ASSUME NEW c \in Connections, NEW d \in Connections, NEW k, NEW v \in Servers, NEW w, NEW f \in Frames,
         c.asked # <<>>, Sound(c, k, v), f = Frame("ready", 1, w.id), w.log = <<>>,
         d.inbox = c.inbox \o <<f>>, d.hand = c.hand, d.asked = <<>>
  PROVE  Sound(d, k, w) /\ ReadyComes(d)
<1> DEFINE q == c.inbox
<1>0. /\ q \in Seq(Frames) /\ f.op = "ready" /\ f.s = 1 /\ f.of = w.id
  BY DEF Connections, Frame
<1>1. /\ DOMAIN d.inbox = 1..(Len(q) + 1) /\ DOMAIN q = 1..Len(q) /\ Len(q) \in Nat
      /\ \A i \in 1..Len(q) : d.inbox[i] = q[i]
      /\ d.inbox[Len(q) + 1] = f
  BY <1>0
<1>2. ~c.joined /\ c.hand = <<>> /\ \A i \in DOMAIN q : q[i].op = "ack" /\ FrameRight(q[i], v)
  BY AskingIs
<1>3. ASSUME NEW i \in DOMAIN d.inbox
      PROVE  \/ d.inbox[i].op = "ack" /\ FrameRight(d.inbox[i], w) /\ i \in 1..Len(q)
             \/ i = Len(q) + 1 /\ d.inbox[i].op = "ready" /\ FrameRight(d.inbox[i], w)
  <2>1. CASE i = Len(q) + 1
    BY <2>1, <1>0, <1>1 DEF FrameRight
  <2>2. CASE i # Len(q) + 1
    <3>1. i \in 1..Len(q)
      BY <2>2, <1>1
    <3>2. d.inbox[i] = q[i] /\ i \in DOMAIN q
      BY <3>1, <1>1
    <3>3. QED
      BY <3>1, <3>2, <1>2 DEF FrameRight
  <2>3. QED
    BY <2>1, <2>2
<1>4. ReadyComes(d)
  <2>1. Len(q) + 1 \in DOMAIN d.inbox
    BY <1>1
  <2>2. QED
    BY <2>1, <1>0, <1>1 DEF ReadyComes
<1>5. Handshake(d, k, w)
  <2>1. \A i \in DOMAIN d.inbox : FrameRight(d.inbox[i], w) /\ d.inbox[i].op # "hello"
    BY <1>3
  <2>2. ASSUME NEW i \in DOMAIN d.inbox, d.inbox[i].op = "ready", NEW j \in 1..(i - 1)
        PROVE  d.inbox[j].op = "ack"
    <3>1. i = Len(q) + 1
      BY <1>3, <2>2
    <3>2. j \in 1..Len(q)
      BY <1>1, <3>1
    <3>3. QED
      BY <3>2, <1>1, <1>2
  <2>3. QED
    BY <1>2, <2>1, <2>2 DEF Handshake
<1>6. Messaging(d, k, w)
  <2>1. \A i \in DOMAIN d.inbox : d.inbox[i].op # "message"
    BY <1>3
  <2>2. Len(w.log) = 0
    OBVIOUS
  <2>3. Complete(d.inbox, 1, w.log)
    BY <2>2 DEF Complete
  <2>4. QED
    BY <1>4, <2>1, <2>3 DEF Messaging, Stream, From
<1>7. QED
  BY <1>4, <1>5, <1>6 DEF Sound

LEMMA ConcatIs ==
  ASSUME NEW q \in Seq(Frames), NEW r \in Seq(Frames)
  PROVE  /\ q \o r \in Seq(Frames) /\ Len(q \o r) = Len(q) + Len(r)
         /\ \A i \in 1..Len(q) : (q \o r)[i] = q[i]
         /\ \A i \in 1..Len(r) : (q \o r)[Len(q) + i] = r[i]
         /\ DOMAIN q = 1..Len(q) /\ DOMAIN r = 1..Len(r) /\ DOMAIN (q \o r) = 1..(Len(q) + Len(r))
         /\ Len(q) \in Nat /\ Len(r) \in Nat
OBVIOUS

\* The messages of the log l after number b, one after the other.
IsRest(q, b, l) ==
  /\ Len(q) = Len(l) + 1 - b
  /\ \A i \in DOMAIN q : q[i].op = "message" /\ q[i].s = b + i /\ q[i].of = l[b + i - 1]

LEMMA RestStream ==
  ASSUME NEW q \in Seq(Frames), NEW b \in Nat, NEW l \in Seq(Messages), IsRest(q, b, l)
  PROVE  Stream(q, b, l) /\ Complete(q, b, l)
<1>1. /\ DOMAIN q = 1..Len(q) /\ Len(q) = Len(l) + 1 - b /\ Len(l) \in Nat
      /\ \A i \in DOMAIN q : q[i].op = "message" /\ q[i].s = b + i /\ q[i].of = l[b + i - 1]
  BY DEF IsRest
<1>2. ASSUME NEW i \in DOMAIN q
      PROVE  /\ b < q[i].s /\ q[i].s <= Len(l) + 1 /\ q[i].of = l[q[i].s - 1]
             /\ \A j \in 1..(i - 1) : q[j].op = "message" => q[j].s < q[i].s
             /\ \A n \in (b + 1)..(q[i].s - 1) :
                  \E j \in 1..(i - 1) : q[j].op = "message" /\ q[j].s = n
  <2>1. q[i].s = b + i /\ q[i].of = l[b + i - 1] /\ i \in Nat /\ 1 <= i /\ i <= Len(l) + 1 - b
    BY <1>1
  <2>2. ASSUME NEW j \in 1..(i - 1) PROVE q[j].op = "message" /\ q[j].s = b + j /\ j < i
    <3>1. j \in DOMAIN q /\ j < i
      BY <1>1, <2>1
    <3>2. QED
      BY <1>1, <3>1
  <2>3. ASSUME NEW n \in (b + 1)..(q[i].s - 1)
        PROVE  \E j \in 1..(i - 1) : q[j].op = "message" /\ q[j].s = n
    <3>1. n - b \in 1..(i - 1) /\ b + (n - b) = n
      BY <2>1
    <3>2. QED
      BY <3>1, <2>2
  <2>4. b < b + i /\ b + i <= Len(l) + 1
    BY <2>1, <1>1
  <2>5. \A j \in 1..(i - 1) : q[j].s < q[i].s
    BY <2>1, <2>2
  <2>6. QED
    BY <2>1, <2>3, <2>4, <2>5
<1>3. ASSUME NEW n \in (b + 1)..(Len(l) + 1)
      PROVE  \E i \in DOMAIN q : q[i].op = "message" /\ q[i].s = n
  <2>1. n - b \in DOMAIN q /\ b + (n - b) = n
    BY <1>1
  <2>2. QED
    BY <2>1, <1>1
<1>4. QED
  BY <1>2, <1>3 DEF Stream, Complete

\* Frames that are no messages may come before them.
LEMMA StreamBehind ==
  ASSUME NEW q \in Seq(Frames), NEW r \in Seq(Frames), NEW b \in Nat, NEW l \in Seq(Messages),
         ~HasMessage(q), Stream(r, b, l), Complete(r, b, l)
  PROVE  Stream(q \o r, b, l) /\ Complete(q \o r, b, l)
<1> DEFINE t == q \o r
           p == Len(q)
<1>1. /\ p \in Nat /\ Len(r) \in Nat /\ DOMAIN q = 1..p /\ DOMAIN r = 1..Len(r)
      /\ DOMAIN t = 1..(p + Len(r))
  BY ConcatIs
<1>2. /\ \A i \in 1..p : t[i] = q[i]
      /\ \A i \in 1..Len(r) : t[p + i] = r[i]
  BY ConcatIs
<1>3. ASSUME NEW i \in DOMAIN t, t[i].op = "message"
      PROVE  i - p \in DOMAIN r /\ t[i] = r[i - p] /\ i \in Nat
  <2>1. i \notin 1..p
    BY <1>1, <1>2, <1>3 DEF HasMessage
  <2>2. i - p \in 1..Len(r) /\ p + (i - p) = i
    BY <2>1, <1>1
  <2>3. t[p + (i - p)] = r[i - p]
    BY <2>2, <1>2
  <2>4. QED
    BY <2>2, <2>3, <1>1
<1>4. ASSUME NEW i \in DOMAIN t, t[i].op = "message"
      PROVE  /\ b < t[i].s /\ t[i].s <= Len(l) + 1 /\ t[i].of = l[t[i].s - 1]
             /\ \A j \in 1..(i - 1) : t[j].op = "message" => t[j].s < t[i].s
             /\ \A n \in (b + 1)..(t[i].s - 1) :
                  \E j \in 1..(i - 1) : t[j].op = "message" /\ t[j].s = n
  <2> DEFINE x == i - p
  <2>1. x \in DOMAIN r /\ t[i] = r[x] /\ r[x].op = "message" /\ i \in Nat
    BY <1>3, <1>4
  <2>2. /\ b < r[x].s /\ r[x].s <= Len(l) + 1 /\ r[x].of = l[r[x].s - 1]
        /\ \A j \in 1..(x - 1) : r[j].op = "message" => r[j].s < r[x].s
        /\ \A n \in (b + 1)..(r[x].s - 1) :
             \E j \in 1..(x - 1) : r[j].op = "message" /\ r[j].s = n
    BY <2>1 DEF Stream
  <2>3. ASSUME NEW j \in 1..(i - 1), t[j].op = "message" PROVE t[j].s < t[i].s
    <3>1. j \in DOMAIN t
      BY <2>1, <1>1
    <3>2. j - p \in DOMAIN r /\ t[j] = r[j - p]
      BY <3>1, <2>3, <1>3
    <3>3. j - p \in 1..(x - 1)
      BY <3>2, <2>1, <1>1
    <3>4. QED
      BY <3>2, <3>3, <2>1, <2>2, <2>3
  <2>4. ASSUME NEW n \in (b + 1)..(t[i].s - 1)
        PROVE  \E j \in 1..(i - 1) : t[j].op = "message" /\ t[j].s = n
    <3>1. PICK j \in 1..(x - 1) : r[j].op = "message" /\ r[j].s = n
      BY <2>1, <2>2
    <3>2. j \in 1..Len(r) /\ p + j \in 1..(i - 1)
      BY <2>1, <1>1
    <3>3. t[p + j] = r[j]
      BY <3>2, <1>2
    <3>4. QED
      BY <3>1, <3>2, <3>3
  <2>5. QED
    BY <2>1, <2>2, <2>3, <2>4
<1>5. ASSUME NEW n \in (b + 1)..(Len(l) + 1)
      PROVE  \E i \in DOMAIN t : t[i].op = "message" /\ t[i].s = n
  <2>1. PICK j \in DOMAIN r : r[j].op = "message" /\ r[j].s = n
    BY DEF Complete
  <2>2. p + j \in DOMAIN t /\ t[p + j] = r[j]
    BY <1>1, <1>2
  <2>3. QED
    BY <2>1, <2>2
<1>6. QED
  BY <1>4, <1>5 DEF Stream, Complete

\* The answer to a resume: the messages after the number of the channel, and RESUMED.
LEMMA SessionResumed ==
  ASSUME NEW c \in Connections, NEW d \in Connections, NEW k, NEW v \in Servers,
         k.seq \in Nat, c.asked # <<>>, Sound(c, k, v), Knows(k, v),
         NEW rest \in Seq(Frames), IsRest(rest, k.seq, v.log),
         NEW f \in Frames, f.op = "resumed", f.s = 0,
         d.inbox = c.inbox \o Append(rest, f), d.hand = c.hand, d.asked = <<>>
  PROVE  Sound(d, k, v) /\ ~ReadyComes(d)
<1> DEFINE q == c.inbox
           r == Append(rest, f)
<1>1. q \in Seq(Frames) /\ v.log \in Seq(Messages) /\ r \in Seq(Frames)
  BY AppendIs DEF Connections, Servers
<1>2. ~c.joined /\ c.hand = <<>> /\ \A i \in DOMAIN q : q[i].op = "ack" /\ FrameRight(q[i], v)
  BY AskingIs
<1>3. Stream(r, k.seq, v.log) /\ Complete(r, k.seq, v.log)
  BY <1>1, RestStream, StreamAppend
<1>4. Stream(d.inbox, k.seq, v.log) /\ Complete(d.inbox, k.seq, v.log)
  <2>1. ~HasMessage(q)
    BY <1>2 DEF HasMessage
  <2>2. QED
    BY <1>1, <1>3, <2>1, StreamBehind
<1>5. \A i \in DOMAIN r : FrameRight(r[i], v) /\ r[i].op \notin {"hello", "ready"}
  <2>1. \A i \in DOMAIN rest : FrameRight(rest[i], v) /\ rest[i].op \notin {"hello", "ready"}
    BY DEF IsRest, FrameRight
  <2>2. FrameRight(f, v)
    BY DEF FrameRight
  <2>3. QED
    BY <2>1, <2>2, AppendIs
<1> HIDE DEF r
<1>6. ASSUME NEW i \in DOMAIN d.inbox
      PROVE  FrameRight(d.inbox[i], v) /\ d.inbox[i].op \notin {"hello", "ready"}
  <2>1. /\ DOMAIN d.inbox = 1..(Len(q) + Len(r)) /\ DOMAIN r = 1..Len(r) /\ DOMAIN q = 1..Len(q)
        /\ Len(q) \in Nat /\ Len(r) \in Nat
        /\ \A j \in 1..Len(q) : d.inbox[j] = q[j]
        /\ \A j \in 1..Len(r) : d.inbox[Len(q) + j] = r[j]
    <3>1. d.inbox = q \o r
      BY DEF r
    <3>2. QED
      BY <1>1, <3>1, ConcatIs
  <2>2. CASE i \in 1..Len(q)
    <3>1. i \in DOMAIN q /\ d.inbox[i] = q[i]
      BY <2>1, <2>2
    <3>2. QED
      BY <3>1, <1>2
  <2>3. CASE i \notin 1..Len(q)
    <3>1. i - Len(q) \in 1..Len(r) /\ Len(q) + (i - Len(q)) = i
      BY <2>1, <2>3
    <3>2. d.inbox[Len(q) + (i - Len(q))] = r[i - Len(q)]
      BY <2>1, <3>1
    <3>3. QED
      BY <2>1, <3>1, <3>2, <1>5
  <2>4. QED
    BY <2>2, <2>3
<1>7. ~ReadyComes(d)
  BY <1>2, <1>6 DEF ReadyComes
<1>8. Handshake(d, k, v)
  BY <1>2, <1>6 DEF Handshake
<1>9. Messaging(d, k, v)
  BY <1>4, <1>7 DEF Messaging, From
<1>10. QED
  BY <1>7, <1>8, <1>9 DEF Sound

\* A message is written: a sound connection of the session gets it.
LEMMA WrittenSound ==
  ASSUME NEW c \in Connections, NEW d \in Connections, NEW k, NEW v \in Servers, NEW w \in Servers,
         NEW m \in Messages, k.seq \in Nat, Sound(c, k, v), Knows(k, v) => k.seq \in 1..(Len(v.log) + 1),
         w.id = v.id, w.log = Append(v.log, m),
         d.hand = c.hand, d.asked = c.asked, d.joined = c.joined, d.up = c.up, d.state = c.state,
         d.inbox = IF c.joined /\ c.up /\ c.state = "well"
                   THEN Append(c.inbox, Frame("message", Len(v.log) + 2, m)) ELSE c.inbox
  PROVE  Sound(d, k, w) /\ (ReadyComes(d) <=> ReadyComes(c))
<1> DEFINE q == c.inbox
           l == v.log
           b == From(c, k)
           f == Frame("message", Len(l) + 2, m)
<1>0. /\ q \in Seq(Frames) /\ l \in Seq(Messages) /\ Len(l) \in Nat /\ b \in Nat
      /\ Len(w.log) = Len(l) + 1 /\ \A i \in 1..Len(l) : w.log[i] = l[i]
  BY DEF Connections, Servers, From
<1>1. f \in Frames /\ f.op = "message" /\ f.s = Len(l) + 2 /\ f.of = m
  BY <1>0 DEF Frames, Frame, FrameKinds, Messages
<1>2. ReadyComes(c) \/ Knows(k, v) => b \in Nat \ {0} /\ b <= Len(l) + 1
  BY <1>0 DEF From
<1>3. CASE c.joined /\ c.up /\ c.state = "well"
  <2>0. c.asked = <<>> /\ \A i \in DOMAIN q : q[i].op # "hello"
    BY <1>3 DEF Sound, Handshake
  <2>1. /\ DOMAIN d.inbox = 1..(Len(q) + 1) /\ DOMAIN q = 1..Len(q) /\ Len(q) \in Nat
        /\ \A i \in DOMAIN q : d.inbox[i] = q[i]
        /\ d.inbox[Len(q) + 1] = f
    BY <1>0, <1>1, <1>3, AppendIs
  <2>2. ReadyComes(d) <=> ReadyComes(c)
    BY <1>1, <2>1 DEF ReadyComes
  <2>3. Stream(d.inbox, b, w.log) /\ Complete(d.inbox, b, w.log)
    <3>1. b \in Nat \ {0} /\ b <= Len(l) + 1 /\ Stream(q, b, l) /\ Complete(q, b, l)
      BY <1>2, <1>3 DEF Sound, Messaging
    <3>2. QED
      BY <3>1, <1>0, <1>1, <1>3, StreamNext
  <2>4. From(d, k) = b /\ (ReadyComes(d) \/ Knows(k, w))
    BY <2>2, <1>3 DEF From, Sound, Messaging, Knows
  <2>5. Handshake(d, k, w)
    <3>1. \A i \in DOMAIN d.inbox : i \in DOMAIN q \/ (i = Len(q) + 1 /\ d.inbox[i] = f)
      BY <2>1
    <3>2. \A i \in DOMAIN d.inbox : FrameRight(d.inbox[i], w) /\ d.inbox[i].op # "hello"
      BY <3>1, <2>0, <2>1, <1>1 DEF Sound, Handshake, FrameRight
    <3>3. ASSUME NEW i \in DOMAIN d.inbox, d.inbox[i].op = "ready"
          PROVE  d.hand = <<>> /\ \A j \in 1..(i - 1) : d.inbox[j].op = "ack"
      <4>1. i \in DOMAIN q /\ q[i].op = "ready"
        BY <3>1, <3>3, <2>1, <1>1
      <4>2. c.hand = <<>> /\ \A j \in 1..(i - 1) : q[j].op = "ack"
        BY <4>1 DEF Sound, Handshake
      <4>3. QED
        BY <4>1, <4>2, <2>1
    <3>4. c.hand # <<>> => FrameRight(c.hand[1], w) /\ c.hand[1].op \in SessionFrames
      BY DEF Sound, Handshake, FrameRight
    <3>5. QED
      BY <2>0, <3>2, <3>3, <3>4 DEF Handshake
  <2>6. QED
    BY <2>2, <2>3, <2>4, <2>5 DEF Sound, Messaging
<1>4. CASE ~(c.joined /\ c.up /\ c.state = "well")
  <2>1. ReadyComes(d) <=> ReadyComes(c)
    BY <1>4 DEF ReadyComes
  <2>2. Handshake(d, k, w)
    BY <1>4 DEF Sound, Handshake, FrameRight
  <2>3. Stream(q, b, w.log)
    <3> SUFFICES ASSUME NEW i \in DOMAIN q, q[i].op = "message"
                 PROVE  q[i].s <= Len(w.log) + 1 /\ q[i].of = w.log[q[i].s - 1]
      BY DEF Sound, Messaging, Stream
    <3>1. b \in Nat \ {0}
      <4>1. HasMessage(q)
        BY DEF HasMessage
      <4>2. ReadyComes(c) \/ Knows(k, v)
        BY <4>1 DEF Sound, Messaging
      <4>3. QED
        BY <4>2, <1>2
    <3>2. b < q[i].s /\ q[i].s <= Len(l) + 1 /\ q[i].of = l[q[i].s - 1]
      BY DEF Sound, Messaging, Stream
    <3>3. q[i].s - 1 \in 1..Len(l) /\ q[i].s <= Len(l) + 2
      <4>1. q[i] \in Frames
        BY <1>0
      <4>2. q[i].s \in Nat
        BY <4>1 DEF Frames
      <4>3. QED
        BY <1>0, <3>1, <3>2, <4>2
    <3>4. QED
      BY <1>0, <3>2, <3>3
  <2>4. QED
    BY <1>4, <2>1, <2>2, <2>3 DEF Sound, Messaging, From, Knows
<1>5. QED
  BY <1>3, <1>4

-------------------------------------------------------------------------------
(* The steps.                                                                  *)

\* Only the connection of t changes.
Others(t) == \A r \in Runners : r # t => conn'[r] = conn[r] /\ at'[r] = at[r]

LEMMA DroppedIs ==
  ASSUME conn \in [Runners -> Connections], NEW r \in Runners
  PROVE  /\ Dropped(r) \in [Runners -> Connections]
         /\ \A q \in Runners : q # r => Dropped(r)[q] = conn[q]
         /\ Dropped(r)[r].inbox = <<>> /\ Dropped(r)[r].hand = <<>> /\ ~Dropped(r)[r].up
         /\ Dropped(r)[r].asked = conn[r].asked /\ Dropped(r)[r].joined = conn[r].joined
<1> DEFINE d == [conn[r] EXCEPT !.up = FALSE, !.inbox = <<>>, !.hand = <<>>]
<1>0. conn[r] \in Connections /\ <<>> \in Seq(Frames)
  OBVIOUS
<1>1. d \in Connections
  BY <1>0 DEF Connections
<1>2. Dropped(r) = [conn EXCEPT ![r] = d]
  BY DEF Dropped
<1>3. d.inbox = <<>> /\ d.hand = <<>> /\ ~d.up /\ d.asked = conn[r].asked /\ d.joined = conn[r].joined
  BY DEF Connections
<1> HIDE DEF d
<1>4. QED
  BY <1>1, <1>2, <1>3

LEMMA PoppedIs ==
  ASSUME conn \in [Runners -> Connections], NEW r \in Runners, conn[r].inbox # <<>>
  PROVE  /\ Popped(r) \in [Runners -> Connections]
         /\ \A q \in Runners : q # r => Popped(r)[q] = conn[q]
         /\ Popped(r)[r].inbox = Tail(conn[r].inbox) /\ Popped(r)[r].hand = conn[r].hand
         /\ Popped(r)[r].asked = conn[r].asked /\ Popped(r)[r].joined = conn[r].joined
         /\ Popped(r)[r].up = conn[r].up /\ Popped(r)[r].state = conn[r].state
<1> DEFINE d == [conn[r] EXCEPT !.inbox = Tail(conn[r].inbox)]
<1>0. conn[r] \in Connections /\ conn[r].inbox \in Seq(Frames)
  BY DEF Connections
<1>a. Tail(conn[r].inbox) \in Seq(Frames)
  BY <1>0, TailIs
<1>1. d \in Connections
  BY <1>0, <1>a DEF Connections
<1>2. Popped(r) = [conn EXCEPT ![r] = d]
  BY DEF Popped
<1>3. /\ d.inbox = Tail(conn[r].inbox) /\ d.hand = conn[r].hand /\ d.asked = conn[r].asked
      /\ d.joined = conn[r].joined /\ d.up = conn[r].up /\ d.state = conn[r].state
  BY DEF Connections
<1> HIDE DEF d
<1>4. QED
  BY <1>1, <1>2, <1>3

\* What ReadInv says of the task the channel holds.
LEMMA TaskIs ==
  ASSUME ReadInv, NEW r \in Runners, Runs(r)
  PROVE  /\ r = ch.task /\ conn[r] \in Connections /\ Sound(conn[r], ch, srv)
         /\ ch.ws \in {0, r} /\ ch.watch \in {0, ch.ws} /\ (ch.ws # 0 => at[r] \notin Apart)
         /\ (at[r] = "settling" <=> conn[r].hand # <<>>) /\ (at[r] \in Apart => conn[r] = Closed)
         /\ ch.sid \in Nat /\ ch.seq \in Nat /\ srv \in Servers /\ begun \in [Messages -> Nat]
         /\ conn \in [Runners -> Connections] /\ at = [q \in Runners |-> at[q]] /\ DOMAIN ch = Fields
         /\ 0 \notin Runners
BY DEF ReadInv, HeldRuns, GatewayTyped, HeldConnection, Runners

\* The invariant, but for ReadSoFar, after a step of the task or of its connection.
LEMMA TaskStep ==
  ASSUME ReadInv, HeldRuns', NEW t \in Runners, t = ch.task, ch'.task = t, Others(t),
         conn' \in [Runners -> Connections], ch'.sid \in Nat, ch'.seq \in Nat,
         srv' \in Servers, begun' \in [Messages -> Nat],
         ch'.ws \in {0, t}, ch'.watch \in {0, ch'.ws}, ch'.ws # 0 => at'[t] \notin Apart,
         at'[t] \in Apart => conn'[t] = Closed, at'[t] = "settling" <=> conn'[t].hand # <<>>,
         Sound(conn'[t], ch', srv')
  PROVE  /\ HeldRuns' /\ GatewayTyped' /\ HeldConnection'
         /\ \A r \in Runners : Sound(conn'[r], ch', srv')
         /\ \A r \in Runners : ReadyComes(conn'[r]) => r = t
<1>1. \A r \in Runners : r # t => conn'[r] = Closed /\ at'[r] # "settling" /\ Closed.hand = <<>>
  BY DEF ReadInv, HeldConnection, Others, Closed
<1>2. GatewayTyped'
  BY DEF GatewayTyped
<1>3. HeldConnection'
  BY <1>1 DEF HeldConnection
<1>4. QED
  BY <1>1, <1>2, <1>3, ClosedSound

\* A step that reads nothing and starts no session.
LEMMA SoFarKept ==
  ASSUME ReadSoFar, begun' = begun, srv'.id = srv.id, srv'.log = srv.log,
         ch'.sid = ch.sid, ch'.seq = ch.seq,
         \A r \in Runners : ReadyComes(conn'[r]) => ReadyComes(conn[r])
  PROVE  ReadSoFar'
BY DEF ReadSoFar, ReadOnce, Knows

LEMMA QuietStep ==
  ASSUME ReadInv, HeldRuns', NEW t \in Runners, t = ch.task, ch'.task = t, Others(t),
         conn' \in [Runners -> Connections], ch'.sid = ch.sid, ch'.seq = ch.seq,
         srv' \in Servers, srv'.id = srv.id, srv'.log = srv.log, begun' = begun,
         ch'.ws \in {0, t}, ch'.watch \in {0, ch'.ws}, ch'.ws # 0 => at'[t] \notin Apart,
         at'[t] \in Apart => conn'[t] = Closed, at'[t] = "settling" <=> conn'[t].hand # <<>>,
         Sound(conn'[t], ch', srv'), ReadyComes(conn'[t]) => ReadyComes(conn[t])
  PROVE  ReadInv'
<1>1. ch'.sid \in Nat /\ ch'.seq \in Nat /\ begun' \in [Messages -> Nat]
  BY DEF ReadInv, GatewayTyped
<1>2. /\ HeldRuns' /\ GatewayTyped' /\ HeldConnection'
      /\ \A r \in Runners : Sound(conn'[r], ch', srv')
      /\ \A r \in Runners : ReadyComes(conn'[r]) => r = t
  BY <1>1, TaskStep
<1>3. ReadSoFar'
  BY <1>2, SoFarKept DEF ReadInv
<1>4. QED
  BY <1>2, <1>3 DEF ReadInv

LEMMA GotoIs ==
  ASSUME HeldRuns, NEW r \in Runners, NEW p, Goto(r, p)
  PROVE  at'[r] = p /\ \A q \in Runners : q # r => at'[q] = at[q]
<1>1. at = [q \in Runners |-> at[q]]
  BY DEF HeldRuns
<1>2. QED
  BY <1>1 DEF Goto

\* A new connection has HELLO, and nothing else is known of it.
LEMMA FreshSound ==
  ASSUME NEW k, NEW v
  PROVE  LET d == [Closed EXCEPT !.up = TRUE, !.inbox = <<Frame("hello", 0, 0)>>]
         IN d \in Connections /\ Sound(d, k, v) /\ ~ReadyComes(d) /\ d.hand = <<>>
<1> DEFINE f == Frame("hello", 0, 0)
           d == [Closed EXCEPT !.up = TRUE, !.inbox = <<f>>]
<1>1. f \in Frames /\ f.op = "hello" /\ f.s = 0
  BY DEF Frame, Frames, FrameKinds
<1>2. /\ d.inbox = <<f>> /\ d.hand = <<>> /\ d.asked = <<>> /\ ~d.joined /\ d.up
      /\ d \in Connections
  <2>1. Closed \in Connections /\ <<f>> \in Seq(Frames)
    BY <1>1, ClosedSound
  <2>2. d.hand = Closed.hand /\ d.asked = Closed.asked /\ d.joined = Closed.joined
    BY <2>1 DEF Connections
  <2>3. d \in Connections /\ d.inbox = <<f>> /\ d.up
    BY <2>1 DEF Connections
  <2>4. QED
    BY <2>2, <2>3 DEF Closed
<1> HIDE DEF f, d
<1>3. DOMAIN d.inbox = {1} /\ d.inbox[1] = f
  BY <1>2
<1>4. Handshake(d, k, v)
  BY <1>1, <1>2, <1>3 DEF Handshake, FrameRight
<1>5. ~ReadyComes(d) /\ ~HasMessage(d.inbox)
  BY <1>1, <1>2, <1>3 DEF ReadyComes, HasMessage
<1>6. Messaging(d, k, v)
  BY <1>2, <1>5 DEF Messaging, Stream, HasMessage
<1>7. QED
  BY <1>2, <1>4, <1>5, <1>6 DEF Sound, d, f

LEMMA ConnectReads ==
  ASSUME ReadInv, HeldRuns', NEW r \in Runners, Connect(r)
  PROVE  ReadInv'
<1> DEFINE d == [Closed EXCEPT !.up = TRUE, !.inbox = <<Frame("hello", 0, 0)>>]
<1>0. HeldRuns /\ Runs(r)
  BY DEF ReadInv, Connect, Runs
<1>1. conn' = [conn EXCEPT ![r] = d] /\ Goto(r, "reading") /\ ch' = [ch EXCEPT !.ws = r]
  BY DEF Connect
<1>2. at'[r] = "reading" /\ \A q \in Runners : q # r => at'[q] = at[q]
  BY <1>0, <1>1, GotoIs
<1>3. d \in Connections /\ Sound(d, ch', srv') /\ ~ReadyComes(d) /\ d.hand = <<>>
  BY FreshSound
<1> HIDE DEF d
<1>4. conn' \in [Runners -> Connections] /\ conn'[r] = d /\ Others(r)
  BY <1>0, <1>1, <1>2, <1>3, TaskIs DEF Others
<1>5. /\ ch'.task = ch.task /\ ch'.sid = ch.sid /\ ch'.seq = ch.seq /\ ch'.ws = r
      /\ ch'.watch = ch.watch
  BY <1>0, <1>1, TaskIs DEF Fields
<1>6. ch.watch = 0
  BY <1>0, TaskIs DEF Connect, Apart
<1>7. QED
  BY <1>0, <1>2, <1>3, <1>4, <1>5, <1>6, TaskIs, QuietStep DEF Connect, Apart

LEMMA FailsReads ==
  ASSUME ReadInv, HeldRuns', NEW r \in Runners, ConnectFails(r)
  PROVE  ReadInv'
<1>0. HeldRuns /\ Runs(r)
  BY DEF ReadInv, ConnectFails, Runs
<1>1. UNCHANGED <<ch, conn, srv, begun>> /\ Goto(r, "backoff") /\ at[r] = "connecting"
  BY DEF ConnectFails
<1>2. at'[r] = "backoff" /\ \A q \in Runners : q # r => at'[q] = at[q]
  BY <1>0, <1>1, GotoIs
<1>3. Others(r) /\ ch.ws = 0 /\ conn[r].hand = <<>>
  BY <1>0, <1>1, <1>2, TaskIs DEF Others, Apart
<1>4. QED
  BY <1>0, <1>1, <1>2, <1>3, TaskIs, QuietStep DEF Apart

\* What all steps of a task that reads a frame start from.
LEMMA ReadsIs ==
  ASSUME ReadInv, NEW r \in Runners, NEW kinds, Reads(r, kinds)
  PROVE  /\ HeldRuns /\ Runs(r) /\ at[r] = "reading" /\ at[r] \notin Apart /\ conn[r].hand = <<>>
         /\ conn[r].inbox # <<>> /\ Head(conn[r].inbox).op \in kinds
         /\ conn[r].inbox \in Seq(Frames) /\ Head(conn[r].inbox) \in Frames
<1>1. HeldRuns /\ Runs(r) /\ at[r] = "reading" /\ at[r] \notin Apart
  BY DEF ReadInv, Reads, Runs, Apart
<1>2. conn[r] \in Connections /\ conn[r].hand = <<>>
  BY <1>1, TaskIs
<1>3. conn[r].inbox # <<>> /\ Head(conn[r].inbox).op \in kinds
  BY DEF Reads, Head1
<1>4. conn[r].inbox \in Seq(Frames)
  BY <1>2 DEF Connections
<1>5. QED
  BY <1>1, <1>2, <1>3, <1>4, TailIs

LEMMA HelloReads ==
  ASSUME ReadInv, HeldRuns', NEW r \in Runners, Hello(r)
  PROVE  ReadInv'
<1>0. /\ HeldRuns /\ Runs(r) /\ at[r] = "reading" /\ at[r] \notin Apart /\ conn[r].hand = <<>>
      /\ conn[r].inbox # <<>> /\ Head(conn[r].inbox).op = "hello"
      /\ srv' = srv /\ begun' = begun
  BY ReadsIs DEF Hello
<1>1. /\ ch'.task = ch.task /\ ch'.sid = ch.sid /\ ch'.seq = ch.seq /\ ch'.ws = ch.ws
      /\ ch'.watch = ch.ws
  BY <1>0, TaskIs DEF Hello, Watched, Fields
<1>2. CASE ch.ws # 0 /\ ~conn[ch.ws].up
  <2>1. conn' = Dropped(r) /\ Goto(r, "backoff")
    BY <1>2 DEF Hello
  <2>2. at'[r] = "backoff" /\ \A q \in Runners : q # r => at'[q] = at[q]
    BY <1>0, <2>1, GotoIs
  <2>3. /\ conn' \in [Runners -> Connections] /\ Others(r)
        /\ conn'[r].inbox = <<>> /\ conn'[r].hand = <<>> /\ ~conn'[r].up
        /\ conn'[r].asked = conn[r].asked /\ conn'[r].joined = conn[r].joined
    BY <1>0, <2>1, <2>2, TaskIs, DroppedIs DEF Others
  <2>4. Sound(conn'[r], ch', srv') /\ ~ReadyComes(conn'[r])
    BY <1>0, <1>1, <2>3, TaskIs, DroppedSound
  <2>5. QED
    BY <1>0, <1>1, <2>2, <2>3, <2>4, TaskIs, QuietStep DEF Apart
<1>3. CASE ch.ws = 0
  <2>1. conn' = Popped(r) /\ at' = at
    BY <1>3 DEF Hello
  <2>2. /\ conn' \in [Runners -> Connections] /\ Others(r)
        /\ conn'[r].inbox = Tail(conn[r].inbox) /\ conn'[r].hand = conn[r].hand
        /\ conn'[r].asked = conn[r].asked /\ conn'[r].joined = conn[r].joined
        /\ conn'[r].up = conn[r].up /\ conn'[r].state = conn[r].state
    BY <1>0, <2>1, TaskIs, PoppedIs DEF Others
  <2>3. Sound(conn'[r], ch', srv') /\ (ReadyComes(conn'[r]) <=> ReadyComes(conn[r]))
    BY <1>0, <1>1, <2>2, TaskIs, PoppedSound
  <2>4. QED
    BY <1>0, <1>1, <2>1, <2>2, <2>3, TaskIs, QuietStep
<1>4. CASE ch.ws = r /\ conn[ch.ws].up
  <2> DEFINE p == Popped(r)
             a == <<IF ch.seq # 0 THEN ch.sid ELSE 0, ch.seq>>
             d == [p[r] EXCEPT !.asked = a]
  <2>1. conn' = [p EXCEPT ![r] = d] /\ at' = at
    BY <1>0, <1>4, TaskIs DEF Hello
  <2>2. /\ p \in [Runners -> Connections] /\ \A q \in Runners : q # r => p[q] = conn[q]
        /\ p[r].inbox = Tail(conn[r].inbox) /\ p[r].hand = conn[r].hand
        /\ p[r].joined = conn[r].joined /\ p[r].up = conn[r].up /\ p[r].state = conn[r].state
    BY <1>0, TaskIs, PoppedIs
  <2> HIDE DEF p
  <2>3. a \in Seq(Nat) /\ p[r] \in Connections
    BY <1>0, <2>2, TaskIs
  <2>4. /\ d \in Connections /\ d.asked = a /\ d.inbox = p[r].inbox /\ d.hand = p[r].hand
        /\ d.joined = p[r].joined /\ d.up = p[r].up /\ d.state = p[r].state
    BY <2>3 DEF Connections
  <2> HIDE DEF d
  <2>5. conn' \in [Runners -> Connections] /\ Others(r) /\ conn'[r] = d
    BY <2>1, <2>2, <2>4 DEF Others
  <2>6. Sound(d, ch', srv') /\ ~ReadyComes(d)
    BY <1>0, <1>1, <2>2, <2>4, TaskIs, HelloSound
  <2>7. QED
    BY <1>0, <1>1, <2>1, <2>2, <2>4, <2>5, <2>6, TaskIs, QuietStep
<1>5. QED
  BY <1>0, <1>2, <1>3, <1>4, TaskIs

LEMMA AckReads ==
  ASSUME ReadInv, HeldRuns', NEW r \in Runners, Ack(r)
  PROVE  ReadInv'
<1>0. /\ HeldRuns /\ Runs(r) /\ at[r] \notin Apart
      /\ conn[r].inbox # <<>> /\ Head(conn[r].inbox).op = "ack"
      /\ srv' = srv /\ begun' = begun /\ conn' = Popped(r) /\ at' = at
  BY ReadsIs DEF Ack
<1>1. /\ ch'.task = ch.task /\ ch'.sid = ch.sid /\ ch'.seq = ch.seq /\ ch'.ws = ch.ws
      /\ ch'.watch = ch.watch
  BY <1>0, TaskIs DEF Ack, Fields
<1>2. /\ conn' \in [Runners -> Connections] /\ Others(r)
      /\ conn'[r].inbox = Tail(conn[r].inbox) /\ conn'[r].hand = conn[r].hand
      /\ conn'[r].asked = conn[r].asked /\ conn'[r].joined = conn[r].joined
      /\ conn'[r].up = conn[r].up /\ conn'[r].state = conn[r].state
  BY <1>0, TaskIs, PoppedIs DEF Others
<1>3. Sound(conn'[r], ch', srv') /\ (ReadyComes(conn'[r]) <=> ReadyComes(conn[r]))
  BY <1>0, <1>1, <1>2, TaskIs, PoppedSound
<1>4. QED
  BY <1>0, <1>1, <1>2, <1>3, TaskIs, QuietStep

AckFrame == Frame("ack", 0, 0)

LEMMA BeatNowReads ==
  ASSUME ReadInv, HeldRuns', NEW r \in Runners, BeatNow(r)
  PROVE  ReadInv'
<1>0. /\ HeldRuns /\ Runs(r) /\ at[r] = "reading" /\ at[r] \notin Apart /\ conn[r].hand = <<>>
      /\ conn[r].inbox # <<>> /\ Head(conn[r].inbox).op = "beat"
      /\ srv' = srv /\ begun' = begun
  BY ReadsIs DEF BeatNow
<1>1. /\ ch'.task = ch.task /\ ch'.sid = ch.sid /\ ch'.seq = ch.seq /\ ch'.ws = ch.ws
      /\ ch'.watch = ch.watch
  BY <1>0, TaskIs DEF BeatNow, Fields
<1>2. CASE ch.ws # 0 /\ ~conn[ch.ws].up
  <2>1. conn' = Dropped(r) /\ Goto(r, "backoff")
    BY <1>2 DEF BeatNow
  <2>2. at'[r] = "backoff" /\ \A q \in Runners : q # r => at'[q] = at[q]
    BY <1>0, <2>1, GotoIs
  <2>3. /\ conn' \in [Runners -> Connections] /\ Others(r)
        /\ conn'[r].inbox = <<>> /\ conn'[r].hand = <<>> /\ ~conn'[r].up
        /\ conn'[r].asked = conn[r].asked /\ conn'[r].joined = conn[r].joined
    BY <1>0, <2>1, <2>2, TaskIs, DroppedIs DEF Others
  <2>4. Sound(conn'[r], ch', srv') /\ ~ReadyComes(conn'[r])
    BY <1>0, <1>1, <2>3, TaskIs, DroppedSound
  <2>5. QED
    BY <1>0, <1>1, <2>2, <2>3, <2>4, TaskIs, QuietStep DEF Apart
<1>3. /\ Popped(r) \in [Runners -> Connections]
      /\ \A q \in Runners : q # r => Popped(r)[q] = conn[q]
      /\ Popped(r)[r].inbox = Tail(conn[r].inbox) /\ Popped(r)[r].hand = conn[r].hand
      /\ Popped(r)[r].asked = conn[r].asked /\ Popped(r)[r].joined = conn[r].joined
      /\ Popped(r)[r].up = conn[r].up /\ Popped(r)[r].state = conn[r].state
  BY <1>0, TaskIs, PoppedIs
<1>4. Sound(Popped(r)[r], ch', srv) /\ (ReadyComes(Popped(r)[r]) <=> ReadyComes(conn[r]))
  BY <1>0, <1>1, <1>3, TaskIs, PoppedSound
<1>5. CASE ~(ch.ws # 0 /\ ~conn[ch.ws].up) /\ (ch.ws = 0 \/ conn[ch.ws].state = "mute")
  <2>1. conn' = Popped(r) /\ at' = at
    BY <1>5 DEF BeatNow
  <2>2. Others(r)
    BY <1>3, <2>1 DEF Others
  <2>3. QED
    BY <1>0, <1>1, <1>3, <1>4, <2>1, <2>2, TaskIs, QuietStep
<1>6. CASE ~(ch.ws # 0 /\ ~conn[ch.ws].up) /\ ~(ch.ws = 0 \/ conn[ch.ws].state = "mute")
  <2> DEFINE p == Popped(r)
             d == [p[r] EXCEPT !.inbox = Append(p[r].inbox, AckFrame)]
  <2>1. conn' = [p EXCEPT ![r] = d] /\ at' = at
    BY <1>0, <1>6, TaskIs DEF BeatNow, AckFrame
  <2>2. AckFrame \in Frames /\ AckFrame.op = "ack" /\ AckFrame.s = 0
    BY DEF AckFrame, Frame, Frames, FrameKinds
  <2> HIDE DEF p
  <2>3. p[r] \in Connections /\ p[r].inbox \in Seq(Frames)
    BY <1>3 DEF p, Connections
  <2>4. Append(p[r].inbox, AckFrame) \in Seq(Frames)
    BY <2>2, <2>3, AppendIs
  <2>5. /\ d \in Connections /\ d.asked = p[r].asked /\ d.inbox = Append(p[r].inbox, AckFrame)
        /\ d.hand = p[r].hand /\ d.joined = p[r].joined /\ d.up = p[r].up /\ d.state = p[r].state
    BY <2>3, <2>4 DEF Connections
  <2> HIDE DEF d
  <2>6. conn' \in [Runners -> Connections] /\ Others(r) /\ conn'[r] = d
    BY <1>3, <2>1, <2>5 DEF Others, p
  <2>7. Sound(d, ch', srv) /\ (ReadyComes(d) <=> ReadyComes(p[r]))
    <3>1. Sound(p[r], ch', srv) /\ ch'.seq \in Nat /\ srv \in Servers
      BY <1>0, <1>1, <1>4, TaskIs DEF p
    <3>2. QED
      BY <3>1, <2>2, <2>3, <2>5, AppendedSound
  <2>8. d.hand = <<>> /\ (ReadyComes(d) => ReadyComes(conn[r]))
    BY <1>0, <1>3, <1>4, <2>5, <2>7 DEF p
  <2>9. QED
    BY <1>0, <1>1, <2>1, <2>5, <2>6, <2>7, <2>8, TaskIs, QuietStep
<1>7. QED
  BY <1>2, <1>5, <1>6

\* The connection is given up: frames, and the frame in hand, are dropped.
LEMMA DropReads ==
  ASSUME ReadInv, HeldRuns', NEW r \in Runners, Runs(r), HeldRuns, conn' = Dropped(r),
         NEW place \in {"backoff", "closing"}, Goto(r, place),
         ch' = ch, srv' = srv, begun' = begun, at[r] \notin Apart
  PROVE  ReadInv'
<1>1. at'[r] = place /\ \A q \in Runners : q # r => at'[q] = at[q]
  BY GotoIs
<1>2. /\ conn' \in [Runners -> Connections] /\ Others(r)
      /\ conn'[r].inbox = <<>> /\ conn'[r].hand = <<>> /\ ~conn'[r].up
      /\ conn'[r].asked = conn[r].asked /\ conn'[r].joined = conn[r].joined
  BY <1>1, TaskIs, DroppedIs DEF Others
<1>3. Sound(conn'[r], ch', srv') /\ ~ReadyComes(conn'[r])
  BY <1>2, TaskIs, DroppedSound
<1>4. QED
  BY <1>1, <1>2, <1>3, TaskIs, QuietStep DEF Apart

LEMMA ReconnectReads ==
  ASSUME ReadInv, HeldRuns', NEW r \in Runners, Reconnect(r)
  PROVE  ReadInv'
BY ReadsIs, DropReads DEF Reconnect

LEMMA RaisesReads ==
  ASSUME ReadInv, HeldRuns', NEW r \in Runners, HandlerRaises(r)
  PROVE  ReadInv'
<1>1. Runs(r) /\ HeldRuns /\ at[r] \notin Apart
  BY DEF HandlerRaises, Runs, ReadInv, Apart
<1>2. QED
  BY <1>1, DropReads DEF HandlerRaises

\* The task moves on, its connection as it is.
LEMMA MovesOn ==
  ASSUME ReadInv, HeldRuns', NEW r \in Runners, Runs(r), HeldRuns,
         NEW place \in {"untyping", "reading", "backoff", "closing"}, Goto(r, place),
         ch' = ch, conn' = conn, srv' = srv, begun' = begun, at[r] \notin Apart, at[r] # "settling"
  PROVE  ReadInv'
<1>1. at'[r] = place /\ \A q \in Runners : q # r => at'[q] = at[q]
  BY GotoIs
<1>2. Others(r) /\ conn'[r].hand = <<>>
  BY <1>1, TaskIs DEF Others
<1>3. QED
  BY <1>1, <1>2, TaskIs, QuietStep DEF Apart

LEMMA HandledReads ==
  ASSUME ReadInv, HeldRuns', NEW r \in Runners, Handled(r)
  PROVE  ReadInv'
<1>1. Runs(r) /\ HeldRuns /\ at[r] \notin Apart /\ at[r] # "settling"
  BY DEF Handled, Runs, ReadInv, Apart
<1>2. QED
  BY <1>1, MovesOn DEF Handled

LEMMA EndReads ==
  ASSUME ReadInv, HeldRuns', NEW r \in Runners, ReadEnds(r)
  PROVE  ReadInv'
<1>1. Runs(r) /\ HeldRuns /\ at[r] \notin Apart /\ at[r] # "settling"
  BY DEF ReadEnds, Runs, ReadInv, Apart
<1>2. QED
  BY <1>1, MovesOn DEF ReadEnds

\* The task ends its connection, or is cancelled, and waits for heartbeat and watchdog,
\* ends or connects again.
LEMMA ClosedReads ==
  ASSUME ReadInv, HeldRuns', NEW r \in Runners, r = ch.task, HeldRuns,
         NEW place \in Apart, Goto(r, place), conn' = [conn EXCEPT ![r] = Closed],
         ch'.task = ch.task, ch'.sid = ch.sid, ch'.seq = ch.seq, ch'.ws = 0, ch'.watch = 0,
         srv' = srv, begun' = begun
  PROVE  ReadInv'
<1>1. at'[r] = place /\ \A q \in Runners : q # r => at'[q] = at[q]
  BY GotoIs
<1>2. /\ Closed \in Connections /\ Sound(Closed, ch', srv') /\ ~ReadyComes(Closed)
      /\ Closed.hand = <<>>
  BY ClosedSound DEF Closed
<1>3. conn \in [Runners -> Connections] /\ srv \in Servers
  BY DEF ReadInv, GatewayTyped
<1>4. Others(r) /\ conn' \in [Runners -> Connections] /\ conn'[r] = Closed
  BY <1>1, <1>2, <1>3 DEF Others
<1>5. QED
  BY <1>1, <1>2, <1>3, <1>4, QuietStep DEF Apart

LEMMA CleanedIs ==
  ASSUME DOMAIN ch = Fields
  PROVE  /\ Cleaned(ch).task = ch.task /\ Cleaned(ch).sid = ch.sid /\ Cleaned(ch).seq = ch.seq
         /\ Cleaned(ch).ws = 0 /\ Cleaned(ch).watch = 0 /\ DOMAIN Cleaned(ch) = Fields
BY DEF Cleaned, Fields

LEMMA CleanUpReads ==
  ASSUME ReadInv, HeldRuns', NEW r \in Runners, CleanUp(r)
  PROVE  ReadInv'
<1>1. Runs(r) /\ HeldRuns
  BY DEF CleanUp, Runs, ReadInv
<1>2. PICK place \in Apart : Goto(r, place)
  BY DEF CleanUp, Onward, Apart
<1>3. QED
  BY <1>1, <1>2, TaskIs, CleanedIs, ClosedReads DEF CleanUp

LEMMA AgainReads ==
  ASSUME ReadInv, HeldRuns', NEW r \in Runners, Again(r)
  PROVE  ReadInv'
<1>1. Runs(r) /\ HeldRuns /\ at[r] \in Apart
  BY DEF Again, Runs, ReadInv, Apart
<1>2. PICK place \in Apart : Goto(r, place)
  BY DEF Again, Onward, Apart
<1>3. conn[r] = Closed /\ ch.ws = 0 /\ ch.watch = 0 /\ r = ch.task
  BY <1>1, TaskIs
<1>4. conn' = [conn EXCEPT ![r] = Closed]
  BY <1>1, <1>3, TaskIs DEF Again
<1>5. QED
  BY <1>1, <1>2, <1>3, <1>4, ClosedReads DEF Again

\* A session frame is taken in hand.
LEMMA SettleReads ==
  ASSUME ReadInv, HeldRuns', NEW r \in Runners, Settle(r)
  PROVE  ReadInv'
<1> DEFINE h == Head(conn[r].inbox)
           p == Popped(r)
           d == [p[r] EXCEPT !.hand = <<h>>]
<1>0. /\ HeldRuns /\ Runs(r) /\ at[r] \notin Apart /\ conn[r].hand = <<>>
      /\ conn[r].inbox # <<>> /\ h.op \in SessionFrames /\ h \in Frames
      /\ srv' = srv /\ begun' = begun
  BY ReadsIs DEF Settle
<1>1. /\ ch'.task = ch.task /\ ch'.sid = ch.sid /\ ch'.ws = ch.ws /\ ch'.watch = 0
      /\ ch'.seq = IF h.s > 0 THEN h.s ELSE ch.seq
  BY <1>0, TaskIs DEF Settle, Numbered, Head1, Fields
<1>2. conn' = [p EXCEPT ![r] = d] /\ Goto(r, "settling")
  BY DEF Settle, Head1
<1>3. at'[r] = "settling" /\ \A q \in Runners : q # r => at'[q] = at[q]
  BY <1>0, <1>2, GotoIs
<1>4. /\ p \in [Runners -> Connections] /\ \A q \in Runners : q # r => p[q] = conn[q]
      /\ p[r].inbox = Tail(conn[r].inbox) /\ p[r].asked = conn[r].asked
      /\ p[r].joined = conn[r].joined /\ p[r].up = conn[r].up /\ p[r].state = conn[r].state
  BY <1>0, TaskIs, PoppedIs
<1> HIDE DEF p
<1>5. p[r] \in Connections /\ <<h>> \in Seq(Frames) /\ <<h>> # <<>>
  BY <1>0, <1>4
<1>6. /\ d \in Connections /\ d.asked = p[r].asked /\ d.inbox = p[r].inbox
      /\ d.hand = <<h>> /\ d.joined = p[r].joined /\ d.up = p[r].up /\ d.state = p[r].state
  BY <1>5 DEF Connections
<1> HIDE DEF d
<1>7. conn' \in [Runners -> Connections] /\ Others(r) /\ conn'[r] = d
  BY <1>2, <1>3, <1>4, <1>6 DEF Others
<1>8. /\ Sound(d, ch', srv) /\ (ReadyComes(d) <=> ReadyComes(conn[r]))
      /\ ~ReadyComes(conn[r]) => ch'.seq = ch.seq
  BY <1>0, <1>1, <1>4, <1>6, TaskIs, HandSound
<1>9. ch'.sid \in Nat /\ ch'.seq \in Nat
  BY <1>0, <1>1, TaskIs DEF Frames
<1>10. /\ HeldRuns' /\ GatewayTyped' /\ HeldConnection'
       /\ \A q \in Runners : Sound(conn'[q], ch', srv')
       /\ \A q \in Runners : ReadyComes(conn'[q]) => q = r
  BY <1>0, <1>1, <1>3, <1>5, <1>6, <1>7, <1>8, <1>9, TaskIs, TaskStep DEF Apart
<1>11. ReadSoFar'
  <2>1. ReadSoFar
    BY DEF ReadInv
  <2>2. \A q \in Runners : ReadyComes(conn'[q]) => ReadyComes(conn[q])
    BY <1>7, <1>8, <1>10
  <2>3. CASE ReadyComes(conn[r])
    <3>1. ~Knows(ch, srv) /\ ~Knows(ch', srv')
      BY <2>1, <2>3, <1>0, <1>1 DEF ReadSoFar, Knows
    <3>2. QED
      BY <2>1, <2>2, <3>1, <1>0, <1>1 DEF ReadSoFar, ReadOnce, Knows
  <2>4. CASE ~ReadyComes(conn[r])
    BY <2>1, <2>2, <2>4, <1>0, <1>1, <1>8, SoFarKept
  <2>5. QED
    BY <2>3, <2>4
<1>12. QED
  BY <1>10, <1>11 DEF ReadInv

\* The next message of the session is read: its handling begins, and _sequence follows.
LEMMA MessageReads ==
  ASSUME ReadInv, HeldRuns', NEW r \in Runners, Message(r)
  PROVE  ReadInv'
<1> DEFINE h == Head(conn[r].inbox)
           b == ch.seq
<1>0. /\ HeldRuns /\ Runs(r) /\ at[r] \notin Apart /\ conn[r].hand = <<>>
      /\ conn[r].inbox # <<>> /\ h.op = "message" /\ h \in Frames
      /\ srv' = srv /\ conn' = Popped(r) /\ Goto(r, "handling")
      /\ begun' = [begun EXCEPT ![h.of] = @ + 1]
  BY ReadsIs DEF Message, Head1
<1>1. at'[r] = "handling" /\ \A q \in Runners : q # r => at'[q] = at[q]
  BY <1>0, GotoIs
<1>2. /\ conn' \in [Runners -> Connections] /\ Others(r)
      /\ conn'[r].inbox = Tail(conn[r].inbox) /\ conn'[r].hand = conn[r].hand
      /\ conn'[r].asked = conn[r].asked /\ conn'[r].joined = conn[r].joined
      /\ conn'[r].up = conn[r].up /\ conn'[r].state = conn[r].state
  BY <1>0, <1>1, TaskIs, PoppedIs DEF Others
<1>3. h.s > 0
  <2>1. Stream(conn[r].inbox, From(conn[r], ch), srv.log) /\ conn[r].inbox \in Seq(Frames)
    BY <1>0, TaskIs DEF Sound, Messaging, Connections
  <2>2. 1 \in DOMAIN conn[r].inbox /\ h = conn[r].inbox[1]
    BY <1>0, <2>1, TailIs
  <2>3. From(conn[r], ch) \in Nat
    BY <1>0, TaskIs DEF From
  <2>4. From(conn[r], ch) < h.s
    BY <1>0, <2>1, <2>2 DEF Stream
  <2>5. QED
    BY <1>0, <2>3, <2>4 DEF Frames
<1>4. /\ ch'.task = ch.task /\ ch'.sid = ch.sid /\ ch'.ws = ch.ws /\ ch'.watch = ch.watch
      /\ ch'.seq = h.s
  BY <1>0, <1>3, TaskIs DEF Message, Numbered, Head1, Fields
<1>5. /\ Sound(conn'[r], ch', srv) /\ ~ReadyComes(conn[r]) /\ ~ReadyComes(conn'[r]) /\ Knows(ch, srv)
      /\ ch'.seq = b + 1 /\ b + 1 <= Len(srv.log) + 1 /\ h.of = srv.log[b]
  BY <1>0, <1>2, <1>4, TaskIs, MessageSound
<1>6. /\ b \in DOMAIN srv.log /\ srv.log[b] \in Messages /\ srv.log \in Seq(Messages)
      /\ b \in Nat \ {0} /\ Len(srv.log) \in Nat
  <2>1. srv.log \in Seq(Messages) /\ b \in Nat /\ 1 <= b
    BY <1>0, <1>5, TaskIs DEF Servers, ReadInv, ReadSoFar
  <2>2. QED
    BY <2>1, <1>5
<1>7. begun' \in [Messages -> Nat] /\ ch'.seq \in Nat /\ ch'.sid \in Nat
  <2>1. begun \in [Messages -> Nat] /\ ch.sid \in Nat
    BY <1>0, TaskIs
  <2>2. h.of \in Messages /\ begun' = [begun EXCEPT ![h.of] = @ + 1]
    BY <1>0, <1>5, <1>6
  <2>3. begun' \in [Messages -> Nat]
    BY <2>1, <2>2
  <2>4. ch'.seq \in Nat /\ ch'.sid \in Nat
    BY <1>4, <1>5, <1>6, <2>1
  <2>5. QED
    BY <2>3, <2>4
<1>8. /\ HeldRuns' /\ GatewayTyped' /\ HeldConnection'
      /\ \A q \in Runners : Sound(conn'[q], ch', srv')
      /\ \A q \in Runners : ReadyComes(conn'[q]) => q = r
  BY <1>0, <1>1, <1>2, <1>4, <1>5, <1>7, TaskIs, TaskStep DEF Apart
<1>9. ReadSoFar'
  <2>1. /\ \A i, j \in DOMAIN srv.log : srv.log[i] = srv.log[j] => i = j
        /\ ch.sid <= srv.id
        /\ \A i \in DOMAIN srv.log : begun[srv.log[i]] = IF i < b THEN 1 ELSE 0
    BY <1>5 DEF ReadInv, ReadSoFar, ReadOnce, Knows
  <2>2. ASSUME NEW i \in DOMAIN srv.log
        PROVE  begun'[srv.log[i]] = IF i < b + 1 THEN 1 ELSE 0
    <3>1. srv.log[i] \in Messages /\ i \in Nat
      BY <1>6
    <3>2. CASE i = b
      BY <3>1, <3>2, <2>1, <1>0, <1>5, <1>6, TaskIs
    <3>3. CASE i # b
      <4>1. srv.log[i] # srv.log[b]
        BY <3>3, <2>1, <1>6
      <4>2. begun'[srv.log[i]] = begun[srv.log[i]]
        BY <4>1, <3>1, <1>0, <1>5, TaskIs
      <4>3. i < b + 1 <=> i < b
        BY <3>1, <3>3, <1>6
      <4>4. QED
        BY <4>2, <4>3, <2>1
    <3>4. QED
      BY <3>2, <3>3
  <2>3. ReadOnce'
    BY <1>0, <1>5, <2>2 DEF ReadOnce
  <2>4. ch'.seq \in 1..(Len(srv'.log) + 1)
    BY <1>0, <1>5, <1>6
  <2>5. \A q \in Runners : ~ReadyComes(conn'[q])
    BY <1>5, <1>8
  <2>6. QED
    BY <1>0, <1>4, <2>1, <2>3, <2>4, <2>5 DEF ReadSoFar
<1>10. QED
  BY <1>8, <1>9 DEF ReadInv

LEMMA SettledIs ==
  ASSUME DOMAIN ch = Fields, NEW f
  PROVE  /\ Settled(f).task = ch.task /\ Settled(f).ws = ch.ws /\ Settled(f).watch = ch.watch
         /\ f.op = "ready" => Settled(f).sid = f.of
         /\ f.op = "invalid" => Settled(f).sid = 0 /\ Settled(f).seq = 0
         /\ f.op \notin {"ready", "invalid"} => Settled(f).sid = ch.sid
         /\ f.op # "invalid" => Settled(f).seq = IF f.s > 0 THEN f.s ELSE ch.seq
BY DEF Settled, Numbered, Fields

\* The session frame, in hand or the first, and what becomes of its connection.
LEMMA SessionFrame ==
  ASSUME ReadInv, NEW r \in Runners, Session(r)
  PROVE  /\ HeldRuns /\ Runs(r) /\ at[r] \notin Apart /\ conn[r].asked = <<>>
         /\ srv' = srv /\ begun' = begun
         /\ \E f \in Frames :
              /\ f.op \in SessionFrames /\ FrameRight(f, srv) /\ ch' = Settled(f)
              /\ \/ conn[r].hand # <<>> /\ f = conn[r].hand[1]
                 \/ conn[r].hand = <<>> /\ conn[r].inbox # <<>> /\ f = Head(conn[r].inbox)
              /\ f.op \in {"ready", "resumed"} =>
                   /\ Goto(r, "reading")
                   /\ conn' = IF conn[r].hand # <<>> THEN [conn EXCEPT ![r].hand = <<>>] ELSE Popped(r)
              /\ f.op \notin {"ready", "resumed"} => conn' = Dropped(r) /\ Goto(r, "closing")
<1>1. CASE at[r] = "settling"
  <2> DEFINE f == conn[r].hand[1]
  <2>1. HeldRuns /\ Runs(r) /\ at[r] \notin Apart
    BY <1>1 DEF ReadInv, Runs, Apart
  <2>2. conn[r].hand # <<>> /\ conn[r] \in Connections /\ Sound(conn[r], ch, srv)
    BY <1>1, <2>1, TaskIs
  <2>3. conn[r].hand \in Seq(Frames)
    BY <2>2 DEF Connections
  <2>4. f \in Frames
    BY <2>2, <2>3
  <2>5. f.op \in SessionFrames /\ FrameRight(f, srv) /\ conn[r].asked = <<>>
    BY <2>2 DEF Sound, Handshake
  <2>6. /\ ch' = Settled(f) /\ srv' = srv /\ begun' = begun
        /\ f.op \in {"ready", "resumed"} => conn' = [conn EXCEPT ![r].hand = <<>>] /\ Goto(r, "reading")
        /\ f.op \notin {"ready", "resumed"} => conn' = Dropped(r) /\ Goto(r, "closing")
    BY <1>1 DEF Session
  <2> HIDE DEF f
  <2>7. QED
    BY <2>1, <2>2, <2>4, <2>5, <2>6 DEF f
<1>2. CASE at[r] # "settling"
  <2> DEFINE f == Head(conn[r].inbox)
  <2>1. Reads(r, SessionFrames)
    BY <1>2 DEF Session
  <2>2. /\ HeldRuns /\ Runs(r) /\ at[r] \notin Apart /\ conn[r].hand = <<>>
        /\ conn[r].inbox # <<>> /\ f.op \in SessionFrames /\ conn[r].inbox \in Seq(Frames) /\ f \in Frames
    BY <2>1, ReadsIs
  <2>3. 1 \in DOMAIN conn[r].inbox /\ f = conn[r].inbox[1]
    BY <2>2, TailIs
  <2>4. Sound(conn[r], ch, srv)
    BY <2>2, TaskIs
  <2>5. FrameRight(f, srv) /\ conn[r].asked = <<>>
    BY <2>2, <2>3, <2>4 DEF Sound, Handshake, SessionFrames
  <2>6. /\ ch' = Settled(f) /\ srv' = srv /\ begun' = begun
        /\ f.op \in {"ready", "resumed"} => conn' = Popped(r) /\ Goto(r, "reading")
        /\ f.op \notin {"ready", "resumed"} => conn' = Dropped(r) /\ Goto(r, "closing")
    BY <1>2 DEF Session, Head1
  <2> HIDE DEF f
  <2>7. QED
    BY <2>2, <2>5, <2>6 DEF f
<1>3. QED
  BY <1>1, <1>2

\* READY, RESUMED, INVALID SESSION or a refusal is handled.
LEMMA SessionReads ==
  ASSUME ReadInv, HeldRuns', NEW r \in Runners, Session(r)
  PROVE  ReadInv'
<1>0. /\ HeldRuns /\ Runs(r) /\ at[r] \notin Apart /\ conn[r].asked = <<>>
      /\ srv' = srv /\ begun' = begun
  BY SessionFrame
<1>1. PICK f \in Frames :
        /\ f.op \in SessionFrames /\ FrameRight(f, srv) /\ ch' = Settled(f)
        /\ \/ conn[r].hand # <<>> /\ f = conn[r].hand[1]
           \/ conn[r].hand = <<>> /\ conn[r].inbox # <<>> /\ f = Head(conn[r].inbox)
        /\ f.op \in {"ready", "resumed"} =>
             /\ Goto(r, "reading")
             /\ conn' = IF conn[r].hand # <<>> THEN [conn EXCEPT ![r].hand = <<>>] ELSE Popped(r)
        /\ f.op \notin {"ready", "resumed"} => conn' = Dropped(r) /\ Goto(r, "closing")
  BY SessionFrame
<1>2. /\ ch'.task = ch.task /\ ch'.ws = ch.ws /\ ch'.watch = ch.watch
      /\ f.op = "ready" => ch'.sid = f.of
      /\ f.op = "invalid" => ch'.sid = 0 /\ ch'.seq = 0
      /\ f.op \notin {"ready", "invalid"} => ch'.sid = ch.sid
      /\ f.op # "invalid" => ch'.seq = IF f.s > 0 THEN f.s ELSE ch.seq
  BY <1>0, <1>1, TaskIs, SettledIs
<1>3. f.of \in Nat /\ f.s \in Nat
  BY <1>1 DEF Frames
<1>4. CASE f.op \notin {"ready", "resumed"}
  <2>1. at'[r] = "closing" /\ \A q \in Runners : q # r => at'[q] = at[q]
    BY <1>0, <1>1, <1>4, GotoIs
  <2>2. /\ conn' \in [Runners -> Connections] /\ Others(r)
        /\ conn'[r].inbox = <<>> /\ conn'[r].hand = <<>> /\ ~conn'[r].up
        /\ conn'[r].asked = <<>> /\ conn'[r].joined = conn[r].joined
    BY <1>0, <1>1, <1>4, <2>1, TaskIs, DroppedIs DEF Others
  <2>3. Sound(conn'[r], ch', srv') /\ ~ReadyComes(conn'[r])
    BY <1>0, <2>2, TaskIs, DroppedSound
  <2>4. CASE f.op = "invalid"
    <3>1. /\ HeldRuns' /\ GatewayTyped' /\ HeldConnection'
          /\ \A q \in Runners : Sound(conn'[q], ch', srv')
          /\ \A q \in Runners : ReadyComes(conn'[q]) => q = r
      BY <1>0, <1>2, <2>1, <2>2, <2>3, <2>4, TaskIs, TaskStep DEF Apart
    <3>2. srv.id \in Nat
      BY <1>0, TaskIs DEF Servers
    <3>3. ReadSoFar'
      BY <1>0, <1>2, <2>3, <2>4, <3>1, <3>2 DEF ReadInv, ReadSoFar, ReadOnce, Knows
    <3>4. QED
      BY <3>1, <3>3 DEF ReadInv
  <2>5. CASE f.op # "invalid"
    <3>1. ch'.sid = ch.sid /\ ch'.seq = ch.seq
      BY <1>1, <1>2, <1>4, <2>5 DEF FrameRight, SessionFrames
    <3>2. QED
      BY <1>0, <1>2, <2>1, <2>2, <2>3, <3>1, TaskIs, QuietStep DEF Apart
  <2>6. QED
    BY <2>4, <2>5
<1>5. CASE f.op \in {"ready", "resumed"}
  <2>1. at'[r] = "reading" /\ \A q \in Runners : q # r => at'[q] = at[q]
    BY <1>0, <1>1, <1>5, GotoIs
  <2>2. /\ conn' \in [Runners -> Connections] /\ Others(r) /\ conn'[r].hand = <<>>
        /\ conn'[r].asked = conn[r].asked /\ conn'[r].joined = conn[r].joined
        /\ conn'[r].up = conn[r].up /\ conn'[r].state = conn[r].state
        /\ \/ conn[r].hand # <<>> /\ f = conn[r].hand[1] /\ conn'[r].inbox = conn[r].inbox
           \/ conn[r].hand = <<>> /\ conn[r].inbox # <<>> /\ f = Head(conn[r].inbox)
                /\ conn'[r].inbox = Tail(conn[r].inbox)
    <3>1. CASE conn[r].hand # <<>>
      <4> DEFINE d == [conn[r] EXCEPT !.hand = <<>>]
      <4>1. conn' = [conn EXCEPT ![r] = d]
        BY <1>1, <1>5, <3>1
      <4>2. conn[r] \in Connections /\ <<>> \in Seq(Frames)
        BY <1>0, TaskIs
      <4>3. /\ d \in Connections /\ d.asked = conn[r].asked /\ d.inbox = conn[r].inbox
            /\ d.hand = <<>> /\ d.joined = conn[r].joined /\ d.up = conn[r].up /\ d.state = conn[r].state
        BY <4>2 DEF Connections
      <4> HIDE DEF d
      <4>4. conn' \in [Runners -> Connections] /\ Others(r) /\ conn'[r] = d
        BY <1>0, <2>1, <4>1, <4>3, TaskIs DEF Others
      <4>5. QED
        BY <1>1, <3>1, <4>3, <4>4
    <3>2. CASE conn[r].hand = <<>>
      BY <1>0, <1>1, <1>5, <2>1, <3>2, TaskIs, PoppedIs DEF Others
    <3>3. QED
      BY <3>1, <3>2
  <2>3. CASE f.op = "ready"
    <3>1. ReadyComes(conn[r])
      <4>1. CASE conn[r].hand # <<>>
        BY <2>2, <2>3, <4>1 DEF ReadyComes
      <4>2. CASE conn[r].hand = <<>>
        <5>1. conn[r].inbox \in Seq(Frames) /\ conn[r].inbox # <<>> /\ f = Head(conn[r].inbox)
          BY <1>0, <2>2, <4>2, TaskIs DEF Connections
        <5>2. 1 \in DOMAIN conn[r].inbox /\ f = conn[r].inbox[1]
          BY <5>1, TailIs
        <5>3. QED
          BY <2>3, <5>2 DEF ReadyComes
      <4>3. QED
        BY <4>1, <4>2
    <3>2. /\ srv.id # 0 /\ \A i \in DOMAIN srv.log : begun[srv.log[i]] = 0
          /\ \A i, j \in DOMAIN srv.log : srv.log[i] = srv.log[j] => i = j
      BY <3>1 DEF ReadInv, ReadSoFar
    <3>3. /\ Sound(conn'[r], ch', srv) /\ ~ReadyComes(conn'[r])
          /\ Knows(ch', srv) /\ ch'.seq = 1 /\ ch'.sid = srv.id
      BY <1>0, <1>2, <2>2, <2>3, <3>2, TaskIs, ReadySound
    <3>4. /\ HeldRuns' /\ GatewayTyped' /\ HeldConnection'
          /\ \A q \in Runners : Sound(conn'[q], ch', srv')
          /\ \A q \in Runners : ReadyComes(conn'[q]) => q = r
      BY <1>0, <1>2, <1>3, <2>1, <2>2, <2>3, <3>3, TaskIs, TaskStep DEF Apart
    <3>5. srv.log \in Seq(Messages) /\ Len(srv.log) \in Nat /\ srv.id \in Nat
      BY <1>0, TaskIs DEF Servers
    <3>6. ReadSoFar'
      <4>1. ch'.seq \in 1..(Len(srv'.log) + 1)
        BY <1>0, <3>3, <3>5
      <4>2. ReadOnce'
        BY <1>0, <3>2, <3>3, <3>5 DEF ReadOnce
      <4>3. QED
        BY <1>0, <3>2, <3>3, <3>4, <3>5, <4>1, <4>2 DEF ReadSoFar
    <3>7. QED
      BY <3>4, <3>6 DEF ReadInv
  <2>4. CASE f.op # "ready"
    <3>1. f.op = "resumed" /\ ch'.sid = ch.sid /\ ch'.seq = ch.seq
      BY <1>1, <1>2, <1>5, <2>4 DEF FrameRight
    <3>2. Sound(conn'[r], ch', srv) /\ (ReadyComes(conn'[r]) => ReadyComes(conn[r]))
      <4>1. CASE conn[r].hand # <<>>
        BY <1>0, <2>2, <3>1, <4>1, TaskIs, HandledSound
      <4>2. CASE conn[r].hand = <<>>
        BY <1>0, <2>2, <3>1, <4>2, TaskIs, PoppedSound
      <4>3. QED
        BY <4>1, <4>2
    <3>3. QED
      BY <1>0, <1>2, <2>1, <2>2, <3>1, <3>2, TaskIs, QuietStep DEF Apart
  <2>5. QED
    BY <2>3, <2>4
<1>6. QED
  BY <1>4, <1>5

-------------------------------------------------------------------------------
(* Heartbeat, watchdog, Discord and the network.                               *)

\* An open connection is that of the task the channel holds.
LEMMA OpenIs ==
  ASSUME ReadInv, NEW r \in Runners, conn[r] # Closed
  PROVE  r = ch.task /\ at[r] \notin Apart /\ Runs(r) /\ HeldRuns
BY DEF ReadInv, HeldConnection, Runs, Apart

\* Tasks and connections stay as they are, and so does what the channel knows.
LEMMA SameStep ==
  ASSUME ReadInv, HeldRuns', at' = at, conn' = conn, begun' = begun,
         ch'.task = ch.task, ch'.sid = ch.sid, ch'.seq = ch.seq,
         ch'.ws \in {0, ch.ws}, ch'.watch \in {0, ch'.ws},
         srv' \in Servers, srv'.id = srv.id, srv'.log = srv.log
  PROVE  ReadInv'
<1>1. \A r \in Runners : Sound(conn[r], ch', srv')
  <2> SUFFICES ASSUME NEW r \in Runners PROVE Sound(conn[r], ch', srv')
    OBVIOUS
  <2>1. conn[r] \in Connections /\ Sound(conn[r], ch, srv)
    BY DEF ReadInv, GatewayTyped
  <2>2. QED
    BY <2>1, KeptSound
<1>2. GatewayTyped'
  BY DEF ReadInv, GatewayTyped
<1>3. HeldConnection'
  BY DEF ReadInv, HeldConnection
<1>4. ReadSoFar'
  BY SoFarKept DEF ReadInv
<1>5. QED
  BY <1>1, <1>2, <1>3, <1>4 DEF ReadInv

\* Only the connection of t changes, what the channel knows does not.
LEMMA ConnectionStep ==
  ASSUME ReadInv, HeldRuns', NEW t \in Runners, Runs(t), at[t] \notin Apart,
         at' = at, begun' = begun, NEW d \in Connections, conn' = [conn EXCEPT ![t] = d],
         d.hand = conn[t].hand, ReadyComes(d) => ReadyComes(conn[t]),
         ch'.task = ch.task, ch'.sid = ch.sid, ch'.seq = ch.seq,
         ch'.ws = ch.ws, ch'.watch \in {0, ch.ws},
         srv' \in Servers, srv'.id = srv.id, srv'.log = srv.log, Sound(d, ch', srv')
  PROVE  ReadInv'
<1>1. conn' \in [Runners -> Connections] /\ Others(t) /\ conn'[t] = d
  BY TaskIs DEF Others
<1>2. QED
  BY <1>1, TaskIs, QuietStep

\* The connection goes down, by whoever closed it.
LEMMA DownStep ==
  ASSUME ReadInv, HeldRuns', NEW t \in Runners, Runs(t), at[t] \notin Apart,
         at' = at, begun' = begun, srv' = srv, conn' = [conn EXCEPT ![t].up = FALSE],
         ch'.task = ch.task, ch'.sid = ch.sid, ch'.seq = ch.seq,
         ch'.ws = ch.ws, ch'.watch \in {0, ch.ws}
  PROVE  ReadInv'
<1> DEFINE d == [conn[t] EXCEPT !.up = FALSE]
<1>1. conn[t] \in Connections /\ Sound(conn[t], ch, srv) /\ srv \in Servers
  BY TaskIs
<1>2. conn' = [conn EXCEPT ![t] = d]
  OBVIOUS
<1>3. /\ d \in Connections /\ d.asked = conn[t].asked /\ d.inbox = conn[t].inbox
      /\ d.hand = conn[t].hand /\ d.joined = conn[t].joined /\ ~d.up /\ d.state = conn[t].state
  BY <1>1 DEF Connections
<1> HIDE DEF d
<1>4. Sound(d, ch', srv') /\ (ReadyComes(d) => ReadyComes(conn[t]))
  BY <1>1, <1>3, KeptSound
<1>5. QED
  BY <1>1, <1>2, <1>3, <1>4, ConnectionStep

\* A frame that is neither HELLO nor READY nor a message comes.
LEMMA FrameStep ==
  ASSUME ReadInv, HeldRuns', NEW t \in Runners, Runs(t), at[t] \notin Apart,
         at' = at, begun' = begun, srv' \in Servers, srv'.id = srv.id, srv'.log = srv.log,
         NEW f \in Frames, f.op \notin {"hello", "ready", "message"}, f.s = 0,
         NEW d \in Connections, conn' = [conn EXCEPT ![t] = d],
         d.inbox = Append(conn[t].inbox, f), d.hand = conn[t].hand,
         \/ f.op = "ack" /\ d.asked = conn[t].asked
         \/ (conn[t].joined \/ conn[t].asked # <<>>) /\ d.asked = <<>>,
         d.joined => conn[t].joined, d.up = conn[t].up, d.state = conn[t].state,
         ch'.task = ch.task, ch'.sid = ch.sid, ch'.seq = ch.seq,
         ch'.ws = ch.ws, ch'.watch \in {0, ch.ws}
  PROVE  ReadInv'
<1>1. conn[t] \in Connections /\ Sound(conn[t], ch, srv) /\ srv \in Servers /\ ch.seq \in Nat
  BY TaskIs
<1>2. Sound(d, ch', srv') /\ (ReadyComes(d) <=> ReadyComes(conn[t]))
  BY <1>1, AppendedSound
<1>3. QED
  BY <1>2, ConnectionStep

\* The websocket the channel holds is that of its task.
LEMMA HeldIs ==
  ASSUME ReadInv, ch.ws # 0
  PROVE  ch.ws \in Runners /\ ch.ws = ch.task /\ at[ch.ws] \notin Apart /\ Runs(ch.ws) /\ HeldRuns
BY DEF ReadInv, HeldConnection, Runs, Apart

LEMMA BeatReads ==
  ASSUME ReadInv, HeldRuns', Beat
  PROVE  ReadInv'
<1>1. /\ at' = at /\ begun' = begun /\ srv' = srv /\ DOMAIN ch = Fields /\ srv \in Servers
      /\ ch.watch \in {0, ch.ws}
  BY DEF Beat, ReadInv, HeldRuns, GatewayTyped, HeldConnection
<1>2. /\ ch'.task = ch.task /\ ch'.sid = ch.sid /\ ch'.seq = ch.seq
      /\ ch'.ws = ch.ws /\ ch'.watch = ch.watch
  BY <1>1 DEF Beat, Fields
<1>3. CASE conn' = conn
  BY <1>1, <1>2, <1>3, SameStep
<1>4. CASE conn' # conn
  <2>1. ch.ws # 0
    BY <1>4 DEF Beat
  <2> DEFINE w == ch.ws
  <2>2. w \in Runners /\ at[w] \notin Apart /\ Runs(w)
    BY <2>1, HeldIs
  <2>3. conn' = [conn EXCEPT ![w].up = FALSE] \/ Says(w, Frame("ack", 0, 0))
    BY <1>4 DEF Beat
  <2> HIDE DEF w
  <2>4. CASE conn' = [conn EXCEPT ![w].up = FALSE]
    BY <1>1, <1>2, <2>2, <2>4, DownStep
  <2>5. CASE Says(w, AckFrame)
    <3> DEFINE d == [conn[w] EXCEPT !.inbox = Append(conn[w].inbox, AckFrame)]
    <3>1. AckFrame \in Frames /\ AckFrame.op = "ack" /\ AckFrame.s = 0
      BY DEF AckFrame, Frame, Frames, FrameKinds
    <3>2. conn \in [Runners -> Connections] /\ conn[w] \in Connections
      BY <2>2, TaskIs
    <3>3. conn[w].inbox \in Seq(Frames)
      BY <3>2 DEF Connections
    <3>4. conn[w].state # "mute"
      <4>1. ASSUME conn[w].state = "mute" PROVE conn' = conn
        <5>1. conn' = [conn EXCEPT ![w].inbox = conn[w].inbox]
          BY <2>5, <4>1 DEF Says
        <5>2. [conn[w] EXCEPT !.inbox = conn[w].inbox] = conn[w]
          BY <3>2 DEF Connections
        <5>3. QED
          BY <5>1, <5>2, <2>2, <3>2
      <4>2. QED
        BY <4>1, <1>4
    <3>5. conn' = [conn EXCEPT ![w] = d]
      BY <2>5, <3>4 DEF Says
    <3>6. Append(conn[w].inbox, AckFrame) \in Seq(Frames)
      BY <3>1, <3>3, AppendIs
    <3>7. /\ d \in Connections /\ d.asked = conn[w].asked /\ d.inbox = Append(conn[w].inbox, AckFrame)
          /\ d.hand = conn[w].hand /\ d.joined = conn[w].joined /\ d.up = conn[w].up
          /\ d.state = conn[w].state
      BY <3>2, <3>6 DEF Connections
    <3> HIDE DEF d
    <3>8. QED
      BY <1>1, <1>2, <2>2, <3>1, <3>5, <3>7, FrameStep
  <2>6. QED
    BY <2>3, <2>4, <2>5 DEF AckFrame
<1>5. QED
  BY <1>3, <1>4

LEMMA IntervalReads ==
  ASSUME ReadInv, HeldRuns', Interval
  PROVE  ReadInv'
<1>1. /\ at' = at /\ conn' = conn /\ begun' = begun /\ srv' = srv /\ DOMAIN ch = Fields
      /\ srv \in Servers /\ ch.watch \in {0, ch.ws}
  BY DEF Interval, ReadInv, HeldRuns, GatewayTyped, HeldConnection
<1>2. /\ ch'.task = ch.task /\ ch'.sid = ch.sid /\ ch'.seq = ch.seq
      /\ ch'.ws = ch.ws /\ ch'.watch = ch.watch
  BY <1>1 DEF Interval, Fields
<1>3. QED
  BY <1>1, <1>2, SameStep

LEMMA WatchdogReads ==
  ASSUME ReadInv, HeldRuns', Watchdog
  PROVE  ReadInv'
<1>1. /\ at' = at /\ begun' = begun /\ srv' = srv /\ DOMAIN ch = Fields /\ srv \in Servers
      /\ ch.watch = ch.ws /\ ch.ws # 0
  BY DEF Watchdog, ReadInv, HeldRuns, GatewayTyped, HeldConnection
<1>2. /\ ch'.task = ch.task /\ ch'.sid = ch.sid /\ ch'.seq = ch.seq
      /\ ch'.ws = ch.ws /\ ch'.watch = 0
  BY <1>1 DEF Watchdog, Fields
<1>3. conn' = conn \/ conn' = [conn EXCEPT ![ch.ws].up = FALSE]
  BY <1>1 DEF Watchdog
<1>4. QED
  BY <1>1, <1>2, <1>3, HeldIs, SameStep, DownStep

LEMMA NoBeatsReads ==
  ASSUME ReadInv, HeldRuns', NEW r \in Runners, NoBeats(r)
  PROVE  ReadInv'
<1>1. conn[r] # Closed /\ UNCHANGED <<ch, at, srv, begun>> /\ conn' = [conn EXCEPT ![r].up = FALSE]
  BY DEF NoBeats, Closed
<1>2. Runs(r) /\ at[r] \notin Apart
  BY <1>1, OpenIs
<1>3. QED
  BY <1>1, <1>2, TaskIs, DownStep

\* What Discord sends a session of its own accord, or refuses a handshake with.
LEMMA InterruptReads ==
  ASSUME ReadInv, HeldRuns', NEW r \in Runners, Interrupt(r)
  PROVE  ReadInv'
<1>1. conn[r] # Closed /\ ch' = ch /\ at' = at /\ begun' = begun
  BY DEF Interrupt, Closed
<1>2. Runs(r) /\ at[r] \notin Apart
  BY <1>1, OpenIs
<1>3. /\ conn[r] \in Connections /\ srv \in Servers /\ Sound(conn[r], ch, srv)
      /\ ch.watch \in {0, ch.ws} /\ ch.seq \in Nat
  BY <1>2, TaskIs
<1>4. conn[r].inbox \in Seq(Frames) /\ <<>> \in Seq(Nat)
  BY <1>3 DEF Connections
<1>5. PICK what \in {"reconnect", "beat", "rejected", "invalid"} :
        \/ /\ conn[r].joined /\ conn' = [conn EXCEPT ![r].inbox = Append(@, Frame(what, 0, 0))]
           /\ srv' = [srv EXCEPT !.alive = @ /\ what # "invalid"]
        \/ /\ conn[r].asked # <<>> /\ srv' = srv
           /\ conn' = [conn EXCEPT ![r].asked = <<>>, ![r].inbox = Append(@, Frame(what, 0, 0))]
  BY DEF Interrupt
<1> DEFINE f == Frame(what, 0, 0)
<1>6. f \in Frames /\ f.op \notin {"hello", "ready", "message"} /\ f.s = 0
  BY DEF Frame, Frames, FrameKinds, SessionFrames
<1>7. srv' \in Servers /\ srv'.id = srv.id /\ srv'.log = srv.log
  BY <1>3, <1>5 DEF Servers
<1> HIDE DEF f
<1>8. Append(conn[r].inbox, f) \in Seq(Frames)
  BY <1>4, <1>6, AppendIs
<1>9. CASE conn[r].joined /\ conn' = [conn EXCEPT ![r].inbox = Append(@, Frame(what, 0, 0))]
  <2> DEFINE d == [conn[r] EXCEPT !.inbox = Append(conn[r].inbox, f)]
  <2>1. conn' = [conn EXCEPT ![r] = d]
    BY <1>9 DEF f
  <2>2. /\ d \in Connections /\ d.asked = conn[r].asked /\ d.inbox = Append(conn[r].inbox, f)
        /\ d.hand = conn[r].hand /\ d.joined = conn[r].joined /\ d.up = conn[r].up
        /\ d.state = conn[r].state
    BY <1>3, <1>8 DEF Connections
  <2> HIDE DEF d
  <2>3. d.asked = <<>> /\ conn[r].joined
    BY <1>3, <1>9, <2>2, AskingIs
  <2>4. Sound(d, ch', srv') /\ (ReadyComes(d) => ReadyComes(conn[r]))
    BY <1>1, <1>3, <1>6, <1>7, <2>2, <2>3, AppendedSound
  <2>5. QED
    BY <1>1, <1>2, <1>3, <1>7, <2>1, <2>2, <2>4, ConnectionStep
<1>10. CASE /\ conn[r].asked # <<>>
            /\ conn' = [conn EXCEPT ![r].asked = <<>>, ![r].inbox = Append(@, Frame(what, 0, 0))]
  <2> DEFINE d == [conn[r] EXCEPT !.asked = <<>>, !.inbox = Append(conn[r].inbox, f)]
  <2>1. conn' = [conn EXCEPT ![r] = d]
    BY <1>2, <1>3, <1>10, TaskIs DEF f, Connections
  <2>2. /\ d \in Connections /\ d.asked = <<>> /\ d.inbox = Append(conn[r].inbox, f)
        /\ d.hand = conn[r].hand /\ d.joined = conn[r].joined /\ d.up = conn[r].up
        /\ d.state = conn[r].state
    BY <1>3, <1>4, <1>8 DEF Connections
  <2> HIDE DEF d
  <2>3. Sound(d, ch', srv') /\ (ReadyComes(d) => ReadyComes(conn[r]))
    BY <1>1, <1>3, <1>6, <1>7, <1>10, <2>2, AppendedSound
  <2>4. QED
    BY <1>1, <1>2, <1>3, <1>7, <2>1, <2>2, <2>3, ConnectionStep
<1>11. QED
  BY <1>5, <1>9, <1>10

\* The frames that were not read are lost with the connection; the frame in hand is not.
LEMMA LostSound ==
  ASSUME NEW c \in Connections, NEW d \in Connections, NEW k, NEW v,
         Sound(c, k, v), d.inbox = <<>>, d.hand = c.hand, ~d.up, d.joined = c.joined,
         d.asked = c.asked
  PROVE  Sound(d, k, v) /\ (ReadyComes(d) => ReadyComes(c))
<1>1. DOMAIN d.inbox = {}
  OBVIOUS
<1>2. QED
  BY <1>1 DEF Sound, Handshake, Messaging, Stream, HasMessage, ReadyComes

\* The connection breaks or falls silent, or its handshake is forgotten.
LEMMA BreakReads ==
  ASSUME ReadInv, HeldRuns', NEW r \in Runners, Break(r)
  PROVE  ReadInv'
<1>1. conn[r] # Closed /\ ch' = ch /\ at' = at /\ begun' = begun /\ srv' = srv
  <2>1. conn[r].up /\ ch' = ch /\ at' = at /\ begun' = begun /\ srv' = srv
    BY Zenon DEF Break
  <2>2. QED
    BY <2>1 DEF Closed
<1>2. Runs(r) /\ at[r] \notin Apart
  BY <1>1, OpenIs
<1>3. /\ conn[r] \in Connections /\ srv \in Servers /\ Sound(conn[r], ch, srv)
      /\ ch.watch \in {0, ch.ws} /\ conn \in [Runners -> Connections]
  BY <1>2, TaskIs
<1>4. conn[r].inbox \in Seq(Frames) /\ <<>> \in Seq(Nat) /\ <<>> \in Seq(Frames)
  BY <1>3 DEF Connections
<1>5. CASE \E failed \in BOOLEAN : \E inbox \in {<<>>, conn[r].inbox} :
             conn' = [conn EXCEPT ![r].up = FALSE, ![r].failed = failed, ![r].inbox = inbox]
  <2>1. PICK failed \in BOOLEAN, inbox \in {<<>>, conn[r].inbox} :
          conn' = [conn EXCEPT ![r].up = FALSE, ![r].failed = failed, ![r].inbox = inbox]
    BY <1>5
  <2> DEFINE d == [conn[r] EXCEPT !.up = FALSE, !.failed = failed, !.inbox = inbox]
  <2>2. conn' = [conn EXCEPT ![r] = d]
    BY <1>3, <2>1 DEF Connections
  <2>3. /\ d \in Connections /\ d.asked = conn[r].asked /\ d.inbox = inbox
        /\ d.hand = conn[r].hand /\ d.joined = conn[r].joined /\ ~d.up /\ d.state = conn[r].state
    BY <1>3, <1>4 DEF Connections
  <2> HIDE DEF d
  <2>4. Sound(d, ch', srv') /\ (ReadyComes(d) => ReadyComes(conn[r]))
    <3>1. CASE inbox = <<>>
      BY <1>1, <1>3, <2>3, <3>1, LostSound
    <3>2. CASE inbox = conn[r].inbox
      BY <1>1, <1>3, <2>3, <3>2, KeptSound
    <3>3. QED
      BY <3>1, <3>2
  <2>5. QED
    BY <1>1, <1>2, <1>3, <2>2, <2>3, <2>4, ConnectionStep
<1>6. CASE conn' = [conn EXCEPT ![r].state = "mute"]
  <2> DEFINE d == [conn[r] EXCEPT !.state = "mute"]
  <2>1. conn' = [conn EXCEPT ![r] = d]
    BY <1>6
  <2>2. /\ d \in Connections /\ d.asked = conn[r].asked /\ d.inbox = conn[r].inbox
        /\ d.hand = conn[r].hand /\ d.joined = conn[r].joined /\ d.up = conn[r].up /\ d.state = "mute"
    BY <1>3 DEF Connections
  <2> HIDE DEF d
  <2>3. Sound(d, ch', srv') /\ (ReadyComes(d) => ReadyComes(conn[r]))
    BY <1>1, <1>3, <2>2, KeptSound
  <2>4. QED
    BY <1>1, <1>2, <1>3, <2>1, <2>2, <2>3, ConnectionStep
<1>7. CASE conn' = [conn EXCEPT ![r].state = "stalled", ![r].asked = <<>>]
  <2> DEFINE d == [conn[r] EXCEPT !.state = "stalled", !.asked = <<>>]
  <2>1. conn' = [conn EXCEPT ![r] = d]
    BY <1>3, <1>7 DEF Connections
  <2>2. /\ d \in Connections /\ d.asked = <<>> /\ d.inbox = conn[r].inbox
        /\ d.hand = conn[r].hand /\ d.joined = conn[r].joined /\ d.up = conn[r].up
        /\ d.state = "stalled"
    BY <1>3, <1>4 DEF Connections
  <2> HIDE DEF d
  <2>3. Sound(d, ch', srv') /\ (ReadyComes(d) => ReadyComes(conn[r]))
    BY <1>1, <1>3, <2>2, KeptSound
  <2>4. QED
    BY <1>1, <1>2, <1>3, <2>1, <2>2, <2>3, ConnectionStep
<1>8. QED
  BY <1>5, <1>6, <1>7 DEF Break

\* What Discord sends to a task that resumes is the rest of the session's log.
LEMMA SinceIs ==
  ASSUME srv \in Servers, NEW seq \in Nat, seq \in 1..(Len(srv.log) + 1)
  PROVE  Since(seq) \in Seq(Frames) /\ IsRest(Since(seq), seq, srv.log)
<1> DEFINE l == srv.log
           n == Len(l) + 1 - seq
<1>1. l \in Seq(Messages) /\ Len(l) \in Nat /\ n \in Nat
  BY DEF Servers
<1>2. ASSUME NEW i \in 1..n
      PROVE  /\ Logged(seq - 1 + i) \in Frames
             /\ Logged(seq - 1 + i).op = "message" /\ Logged(seq - 1 + i).s = seq + i
             /\ Logged(seq - 1 + i).of = l[seq + i - 1]
  <2>1. seq - 1 + i \in 1..Len(l) /\ seq - 1 + i = seq + i - 1 /\ seq - 1 + i + 1 = seq + i
    BY <1>1, <1>2
  <2>2. l[seq + i - 1] \in Nat
    <3>1. seq + i - 1 \in 1..Len(l)
      BY <2>1
    <3> HIDE DEF l
    <3>2. l[seq + i - 1] \in Messages
      BY <1>1, <3>1
    <3>3. QED
      BY <3>2 DEF Messages
  <2>3. Logged(seq - 1 + i) = Frame("message", seq + i, l[seq + i - 1])
    BY <2>1 DEF Logged
  <2>4. QED
    BY <1>1, <2>2, <2>3 DEF Frame, Frames, FrameKinds
<1>3. Since(seq) = [i \in 1..n |-> Logged(seq - 1 + i)]
  BY DEF Since
<1> HIDE DEF n
<1>4. Since(seq) \in Seq(Frames) /\ Len(Since(seq)) = n /\ DOMAIN Since(seq) = 1..n
  BY <1>1, <1>2, <1>3
<1>5. QED
  BY <1>2, <1>3, <1>4 DEF IsRest, n

\* A handshake is answered.
LEMMA AnswerReads ==
  ASSUME ReadInv, HeldRuns', NEW r \in Runners, Answer(r)
  PROVE  ReadInv'
<1> DEFINE c == conn[r]
           sid == c.asked[1]
           seq == c.asked[2]
<1>1. /\ conn[r] # Closed /\ c.up /\ c.asked # <<>>
      /\ ch' = ch /\ at' = at /\ begun' = begun
  BY DEF Answer, Closed
<1>2. Runs(r) /\ at[r] \notin Apart
  BY <1>1, OpenIs
<1>3. /\ c \in Connections /\ srv \in Servers /\ Sound(c, ch, srv) /\ ch.ws \in {0, r}
      /\ ch.watch \in {0, ch.ws} /\ conn \in [Runners -> Connections] /\ ch.sid \in Nat /\ ch.seq \in Nat
  BY <1>2, TaskIs
<1>4. c.inbox \in Seq(Frames) /\ <<>> \in Seq(Nat) /\ srv.id \in Nat
  BY <1>3 DEF Connections, Servers
<1>5. /\ ~c.joined /\ c.hand = <<>> /\ ~ReadyComes(c)
      /\ sid = (IF ch.seq # 0 THEN ch.sid ELSE 0) /\ seq = ch.seq
  BY <1>1, <1>3, AskingIs
<1>6. ASSUME NEW frames \in Seq(Frames), NEW joined \in BOOLEAN,
             conn' = [conn EXCEPT ![r].asked = <<>>, ![r].inbox = @ \o frames, ![r].joined = joined]
      PROVE  \E d \in Connections :
               /\ conn' = [conn EXCEPT ![r] = d] /\ d.asked = <<>> /\ d.inbox = c.inbox \o frames
               /\ d.hand = c.hand /\ d.joined = joined /\ d.up = c.up /\ d.state = c.state
  <2> DEFINE d == [c EXCEPT !.asked = <<>>, !.inbox = c.inbox \o frames, !.joined = joined]
  <2>1. conn' = [conn EXCEPT ![r] = d]
    BY <1>3, <1>6 DEF Connections
  <2>2. c.inbox \o frames \in Seq(Frames)
    BY <1>4, ConcatIs
  <2>3. /\ d \in Connections /\ d.asked = <<>> /\ d.inbox = c.inbox \o frames
        /\ d.hand = c.hand /\ d.joined = joined /\ d.up = c.up /\ d.state = c.state
    BY <1>3, <1>4, <2>2 DEF Connections
  <2> HIDE DEF d
  <2>4. QED
    BY <2>1, <2>3
<1>7. CASE sid = 0
  <2> DEFINE f == Frame("ready", 1, srv.id + 1)
  <2>1. /\ srv' = [id |-> srv.id + 1, alive |-> TRUE, log |-> <<>>]
        /\ conn' = [conn EXCEPT ![r].asked = <<>>, ![r].inbox = @ \o <<f>>, ![r].joined = TRUE]
    BY <1>7 DEF Answer
  <2>2. f \in Frames /\ <<f>> \in Seq(Frames)
    BY <1>4 DEF Frame, Frames, FrameKinds, SessionFrames
  <2>3. srv' \in Servers /\ srv'.id = srv.id + 1 /\ srv'.log = <<>>
    <3>1. <<>> \in Seq(Messages)
      OBVIOUS
    <3>2. QED
      BY <1>4, <2>1, <3>1 DEF Servers
  <2> HIDE DEF f
  <2>4. PICK d \in Connections :
          /\ conn' = [conn EXCEPT ![r] = d] /\ d.asked = <<>> /\ d.inbox = c.inbox \o <<f>>
          /\ d.hand = c.hand /\ d.joined = TRUE /\ d.up = c.up /\ d.state = c.state
    BY <1>6, <2>1, <2>2
  <2>5. Sound(d, ch, srv') /\ f = Frame("ready", 1, srv'.id)
    <3>1. f = Frame("ready", 1, srv'.id)
      BY <2>3 DEF f
    <3>2. QED
      BY <1>1, <1>3, <2>2, <2>3, <2>4, <3>1, NewSession
  <2>6. conn' \in [Runners -> Connections] /\ conn'[r] = d /\ Others(r)
    BY <1>1, <1>3, <2>4 DEF Others
  <2>7. begun' \in [Messages -> Nat] /\ r = ch.task /\ at[r] # "settling"
    BY <1>1, <1>2, <1>5, TaskIs
  <2>8. /\ HeldRuns' /\ GatewayTyped' /\ HeldConnection'
        /\ \A q \in Runners : Sound(conn'[q], ch', srv')
        /\ \A q \in Runners : ReadyComes(conn'[q]) => q = r
    BY <1>1, <1>2, <1>3, <1>5, <2>3, <2>4, <2>5, <2>6, <2>7, TaskStep
  <2>9. ReadSoFar'
    <3>1. ch.sid <= srv.id
      BY DEF ReadInv, ReadSoFar
    <3>2. ch'.sid <= srv'.id /\ ch'.sid # srv'.id /\ srv'.id # 0 /\ DOMAIN srv'.log = {}
      BY <1>1, <1>3, <1>4, <2>3, <3>1
    <3>3. QED
      BY <3>2 DEF ReadSoFar, ReadOnce, Knows
  <2>10. QED
    BY <2>8, <2>9 DEF ReadInv
<1>8. CASE sid # 0 /\ sid = srv.id /\ srv.alive
  <2> DEFINE f == Frame("resumed", 0, 0)
             rest == Since(seq)
  <2>1. conn' = [conn EXCEPT ![r].asked = <<>>, ![r].inbox = @ \o (rest \o <<f>>), ![r].joined = TRUE]
    BY <1>8 DEF Answer
  <2>2. srv' = srv
    BY <1>8 DEF Answer
  <2>3. Knows(ch, srv) /\ seq = ch.seq /\ ch.seq \in 1..(Len(srv.log) + 1)
    <3>1. Knows(ch, srv)
      BY <1>5, <1>8 DEF Knows
    <3>2. QED
      BY <1>5, <3>1 DEF ReadInv, ReadSoFar
  <2>4. rest \in Seq(Frames) /\ IsRest(rest, ch.seq, srv.log)
    BY <1>3, <2>3, SinceIs
  <2>5. f \in Frames /\ f.op = "resumed" /\ f.s = 0
    BY DEF Frame, Frames, FrameKinds, SessionFrames
  <2> HIDE DEF f, rest
  <2>6. rest \o <<f>> = Append(rest, f) /\ Append(rest, f) \in Seq(Frames)
    BY <2>4, <2>5, AppendIs
  <2>7. PICK d \in Connections :
          /\ conn' = [conn EXCEPT ![r] = d] /\ d.asked = <<>> /\ d.inbox = c.inbox \o Append(rest, f)
          /\ d.hand = c.hand /\ d.joined = TRUE /\ d.up = c.up /\ d.state = c.state
    BY <1>6, <2>1, <2>6
  <2>8. Sound(d, ch, srv) /\ ~ReadyComes(d)
    BY <1>1, <1>3, <2>3, <2>4, <2>5, <2>7, SessionResumed
  <2>9. QED
    BY <1>1, <1>2, <1>3, <2>2, <2>7, <2>8, ConnectionStep
<1>9. CASE sid # 0 /\ ~(sid = srv.id /\ srv.alive)
  <2> DEFINE f == Frame("invalid", 0, 0)
  <2>1. conn' = [conn EXCEPT ![r].asked = <<>>, ![r].inbox = @ \o <<f>>, ![r].joined = FALSE]
    BY <1>9 DEF Answer
  <2>2. srv' = srv
    BY <1>9 DEF Answer
  <2>3. f \in Frames /\ f.op = "invalid" /\ f.s = 0 /\ <<f>> \in Seq(Frames)
    BY DEF Frame, Frames, FrameKinds, SessionFrames
  <2> HIDE DEF f
  <2>4. c.inbox \o <<f>> = Append(c.inbox, f)
    BY <1>4, <2>3
  <2>5. PICK d \in Connections :
          /\ conn' = [conn EXCEPT ![r] = d] /\ d.asked = <<>> /\ d.inbox = c.inbox \o <<f>>
          /\ d.hand = c.hand /\ d.joined = FALSE /\ d.up = c.up /\ d.state = c.state
    BY <1>6, <2>1, <2>3
  <2>6. Sound(d, ch, srv) /\ (ReadyComes(d) => ReadyComes(c))
    BY <1>1, <1>3, <2>3, <2>4, <2>5, AppendedSound
  <2>7. QED
    BY <1>1, <1>2, <1>3, <2>2, <2>5, <2>6, ConnectionStep
<1>10. QED
  BY <1>7, <1>8, <1>9

-------------------------------------------------------------------------------
(* The users write, sessions expire.                                           *)

\* A nonempty set of numbers below a bound has a largest one.
LEMMA MaxIs ==
  ASSUME NEW B \in Nat, NEW S, S \subseteq 0..B, S # {}
  PROVE  Max(S) \in S /\ \A y \in S : Max(S) >= y
<1> DEFINE T == {B - x : x \in S}
<1>1. T \subseteq Nat /\ T # {}
  <2>1. ASSUME NEW x \in S PROVE B - x \in Nat
    <3>1. x \in 0..B
      OBVIOUS
    <3>2. QED
      BY <3>1
  <2>2. QED
    BY <2>1
<1>2. PICK t \in T : \A y \in T : ~(<<y, t>> \in OpToRel(<, Nat))
  BY <1>1, NatLessThanWellFounded, WFMin
<1>3. PICK x \in S : t = B - x
  OBVIOUS
<1>4. ASSUME NEW y \in S PROVE x >= y
  <2>1. B - y \in T /\ B - y \in Nat /\ t \in Nat
    BY <1>1
  <2>2. ~(B - y < t)
    <3>1. ASSUME B - y < t PROVE <<B - y, t>> \in OpToRel(<, Nat)
      <4>1. <<B - y, t>> \in Nat \X Nat /\ <<B - y, t>>[1] < <<B - y, t>>[2]
        BY <2>1, <3>1
      <4>2. QED
        BY <4>1 DEF OpToRel
    <3>2. QED
      BY <3>1, <2>1, <1>2
  <2>3. x \in Int /\ y \in Int
    OBVIOUS
  <2>4. QED
    BY <1>3, <2>2, <2>3
<1>5. QED
  BY <1>4 DEF Max

\* A message that is written is none of the log, and its handling has not begun.
LEMMA WrittenIs ==
  ASSUME GatewayTyped, NEW m \in Messages,
         m = 1 + Max({0} \union {n \in Messages : begun[n] > 0 \/ Contains(srv.log, n)})
  PROVE  begun[m] = 0 /\ \A i \in DOMAIN srv.log : srv.log[i] # m
<1> DEFINE S == {0} \union {n \in Messages : begun[n] > 0 \/ Contains(srv.log, n)}
<1>1. S \subseteq 0..MaxMessages /\ S # {} /\ MaxMessages \in Nat
  BY BoundsAssumption DEF Messages
<1>2. Max(S) \in 0..MaxMessages /\ \A y \in S : Max(S) >= y
  BY <1>1, MaxIs
<1> HIDE DEF S
<1>3. m \notin S
  BY <1>2 DEF S
<1>4. ~(begun[m] > 0) /\ ~Contains(srv.log, m)
  BY <1>3 DEF S
<1>5. begun[m] \in Nat /\ srv.log \in Seq(Messages)
  BY DEF GatewayTyped, Servers
<1>6. DOMAIN srv.log = 1..Len(srv.log)
  BY <1>5
<1>7. begun[m] = 0
  BY <1>4, <1>5
<1>8. \A i \in DOMAIN srv.log : srv.log[i] # m
  BY <1>4, <1>6 DEF Contains
<1>9. QED
  BY <1>7, <1>8

LEMMA WriteReads ==
  ASSUME ReadInv, HeldRuns', Write
  PROVE  ReadInv'
<1> DEFINE l == srv.log
           C(c, m) == [c EXCEPT !.inbox = Append(@, Frame("message", Len(l) + 2, m))]
<1>1. PICK m \in Messages :
        /\ m = 1 + Max({0} \union {n \in Messages : begun[n] > 0 \/ Contains(srv.log, n)})
        /\ srv' = [srv EXCEPT !.log = Append(@, m)]
        /\ conn' = [r \in Runners |-> IF r \in Joined /\ conn[r].state = "well"
                                      THEN C(conn[r], m) ELSE conn[r]]
  BY DEF Write
<1>2. /\ ch' = ch /\ at' = at /\ begun' = begun
      /\ GatewayTyped /\ HeldConnection /\ ReadSoFar /\ HeldRuns
      /\ \A r \in Runners : Sound(conn[r], ch, srv)
  BY DEF Write, ReadInv
<1>3. /\ srv \in Servers /\ l \in Seq(Messages) /\ Len(l) \in Nat /\ srv.id \in Nat
      /\ ch.seq \in Nat /\ begun \in [Messages -> Nat] /\ conn \in [Runners -> Connections]
  BY <1>2 DEF GatewayTyped, Servers
<1>4. /\ srv' \in Servers /\ srv'.id = srv.id /\ srv'.log = Append(l, m)
  <2>1. Append(l, m) \in Seq(Messages)
    BY <1>3
  <2>2. QED
    BY <1>1, <1>3, <2>1 DEF Servers
<1>5. /\ DOMAIN l = 1..Len(l) /\ DOMAIN srv'.log = 1..(Len(l) + 1) /\ Len(srv'.log) = Len(l) + 1
      /\ \A i \in 1..Len(l) : srv'.log[i] = l[i]
      /\ srv'.log[Len(l) + 1] = m
  BY <1>3, <1>4
<1>6. begun[m] = 0 /\ \A i \in DOMAIN l : l[i] # m
  BY <1>1, <1>2, WrittenIs
<1> DEFINE f == Frame("message", Len(l) + 2, m)
<1>7. f \in Frames
  BY <1>3 DEF Frames, Frame, FrameKinds, Messages
<1>8. ASSUME NEW r \in Runners
      PROVE  /\ conn'[r] \in Connections /\ Sound(conn'[r], ch', srv')
             /\ (ReadyComes(conn'[r]) <=> ReadyComes(conn[r]))
             /\ conn'[r].hand = conn[r].hand /\ (conn[r] = Closed => conn'[r] = Closed)
  <2> DEFINE c == conn[r]
             d == conn'[r]
  <2>1. c \in Connections /\ c.inbox \in Seq(Frames) /\ Sound(c, ch, srv)
    BY <1>2, <1>3 DEF Connections
  <2>2. d = IF c.joined /\ c.up /\ c.state = "well" THEN C(c, m) ELSE c
    BY <1>1 DEF Joined
  <2>3. Append(c.inbox, f) \in Seq(Frames)
    BY <1>7, <2>1, AppendIs
  <2>4. /\ C(c, m) \in Connections /\ C(c, m).inbox = Append(c.inbox, f)
        /\ C(c, m).hand = c.hand /\ C(c, m).asked = c.asked /\ C(c, m).joined = c.joined
        /\ C(c, m).up = c.up /\ C(c, m).state = c.state
    BY <2>1, <2>3 DEF Connections
  <2>5. /\ d \in Connections /\ d.hand = c.hand /\ d.asked = c.asked /\ d.joined = c.joined
        /\ d.up = c.up /\ d.state = c.state
        /\ d.inbox = IF c.joined /\ c.up /\ c.state = "well" THEN Append(c.inbox, f) ELSE c.inbox
    BY <2>1, <2>2, <2>4
  <2>6. c = Closed => d = Closed
    BY <2>2 DEF Closed
  <2>7. Knows(ch, srv) => ch.seq \in 1..(Len(l) + 1)
    BY <1>2 DEF ReadSoFar
  <2> HIDE DEF c, d
  <2>8. Sound(d, ch, srv') /\ (ReadyComes(d) <=> ReadyComes(c))
    BY <1>3, <1>4, <2>1, <2>5, <2>7, WrittenSound
  <2>9. QED
    BY <1>2, <2>5, <2>6, <2>8 DEF c, d
<1>9. conn' \in [Runners -> Connections]
  BY <1>1, <1>8
<1>10. GatewayTyped'
  BY <1>2, <1>4, <1>9 DEF GatewayTyped
<1>11. HeldConnection'
  BY <1>2, <1>8 DEF HeldConnection
<1>12. ReadSoFar'
  <2>1. \A i, j \in DOMAIN srv'.log : srv'.log[i] = srv'.log[j] => i = j
    <3>1. \A i, j \in 1..Len(l) : l[i] = l[j] => i = j
      BY <1>2, <1>5 DEF ReadSoFar
    <3>2. \A i \in 1..(Len(l) + 1) : i \in 1..Len(l) \/ i = Len(l) + 1
      BY <1>3
    <3>3. QED
      BY <1>5, <1>6, <3>1, <3>2
  <2>2. Knows(ch', srv') => Knows(ch, srv) /\ ch'.seq \in 1..(Len(srv'.log) + 1)
    BY <1>2, <1>3, <1>4, <1>5 DEF ReadSoFar, Knows
  <2>3. ASSUME Knows(ch, srv), NEW i \in DOMAIN srv'.log
        PROVE  begun[srv'.log[i]] = IF i < ch.seq THEN 1 ELSE 0
    <3>1. ch.seq \in 1..(Len(l) + 1) /\ \A j \in DOMAIN l : begun[l[j]] = IF j < ch.seq THEN 1 ELSE 0
      BY <1>2, <2>3 DEF ReadSoFar, ReadOnce, Knows
    <3>2. CASE i \in 1..Len(l)
      BY <1>5, <3>1, <3>2
    <3>3. CASE i = Len(l) + 1
      BY <1>3, <1>5, <1>6, <3>1, <3>3
    <3>4. QED
      BY <1>3, <1>5, <3>2, <3>3
  <2>4. ReadOnce'
    BY <1>2, <1>4, <2>3 DEF ReadOnce, Knows
  <2>5. ASSUME NEW r \in Runners, ReadyComes(conn'[r])
        PROVE  srv'.id # 0 /\ ~Knows(ch', srv') /\ \A i \in DOMAIN srv'.log : begun[srv'.log[i]] = 0
    <3>1. srv.id # 0 /\ ~Knows(ch, srv) /\ \A i \in DOMAIN l : begun[l[i]] = 0
      BY <1>2, <1>8, <2>5 DEF ReadSoFar
    <3>2. ASSUME NEW i \in DOMAIN srv'.log PROVE begun[srv'.log[i]] = 0
      <4>1. CASE i \in 1..Len(l)
        BY <1>5, <3>1, <4>1
      <4>2. CASE i = Len(l) + 1
        BY <1>5, <1>6, <4>2
      <4>3. QED
        BY <1>3, <1>5, <4>1, <4>2
    <3>3. QED
      BY <1>2, <1>4, <3>1, <3>2 DEF Knows
  <2>6. QED
    BY <1>2, <1>4, <2>1, <2>2, <2>4, <2>5 DEF ReadSoFar
<1>13. QED
  BY <1>8, <1>10, <1>11, <1>12 DEF ReadInv

LEMMA ExpireReads ==
  ASSUME ReadInv, HeldRuns', Expire
  PROVE  ReadInv'
<1>1. /\ at' = at /\ conn' = conn /\ begun' = begun /\ ch' = ch /\ srv \in Servers
      /\ ch.watch \in {0, ch.ws} /\ srv' = [srv EXCEPT !.alive = FALSE]
  BY DEF Expire, ReadInv, GatewayTyped, HeldConnection
<1>2. srv' \in Servers /\ srv'.id = srv.id /\ srv'.log = srv.log
  BY <1>1 DEF Servers
<1>3. QED
  BY <1>1, <1>2, SameStep

-------------------------------------------------------------------------------
(* Refresh and replacement.                                                    *)

\* The task the channel holds is cancelled, its connection closed.
LEMMA CancelReads ==
  ASSUME ReadInv, HeldRuns', NEW place \in Apart, Goto(ch.task, place),
         conn' = [conn EXCEPT ![ch.task] = Closed],
         ch'.task = ch.task, ch'.sid = ch.sid, ch'.seq = ch.seq, ch'.ws = 0, ch'.watch = 0,
         srv' = srv, begun' = begun
  PROVE  ReadInv'
<1>1. /\ HeldRuns /\ conn \in [Runners -> Connections] /\ srv \in Servers
      /\ at = [r \in Runners |-> at[r]]
  BY DEF ReadInv, HeldRuns, GatewayTyped
<1>2. CASE ch.task \in Runners
  BY <1>1, <1>2, ClosedReads
<1>3. CASE ch.task \notin Runners
  <2>1. conn' = conn /\ at' = at
    BY <1>1, <1>3 DEF Goto
  <2>2. QED
    BY <1>1, <2>1, SameStep
<1>4. QED
  BY <1>2, <1>3

LEMMA RefreshReads ==
  ASSUME ReadInv, HeldRuns', ~FromWithin, Refresh
  PROVE  ReadInv'
<1>1. Cancelled(ch.task) /\ srv' = srv /\ begun' = begun
  BY Zenon DEF Refresh
<1>2. DOMAIN ch = Fields /\ srv \in Servers /\ ch.watch \in {0, ch.ws}
  BY DEF ReadInv, HeldRuns, GatewayTyped, HeldConnection
<1>3. CASE at[ch.task] \in Deaf \/ at[ch.task] = "ended"
  <2>1. ch' = ch /\ at' = at /\ conn' = conn
    BY <1>1, <1>3 DEF Cancelled
  <2>2. QED
    BY <1>1, <1>2, <2>1, SameStep
<1>4. CASE ~(at[ch.task] \in Deaf \/ at[ch.task] = "ended")
  <2>1. /\ ch' = Cleaned(ch) /\ conn' = [conn EXCEPT ![ch.task] = Closed]
        /\ \E place \in Apart : Goto(ch.task, place)
    BY <1>1, <1>4 DEF Cancelled, Apart
  <2>2. QED
    BY <1>1, <1>2, <2>1, CleanedIs, CancelReads
<1>5. QED
  BY <1>3, <1>4

LEMMA StopReads ==
  ASSUME ReadInv, HeldRuns', Stop
  PROVE  ReadInv'
<1>1. srv' = srv /\ begun' = begun
  BY DEF Stop
<1>2. DOMAIN ch = Fields /\ srv \in Servers /\ ch.watch \in {0, ch.ws}
  BY DEF ReadInv, HeldRuns, GatewayTyped, HeldConnection
<1>3. CASE at[ch.task] \in Deaf \/ at[ch.task] = "ended"
  <2>1. ch' = [ch EXCEPT !.running = FALSE] /\ at' = at /\ conn' = conn
    BY <1>3 DEF Stop
  <2>2. /\ ch'.task = ch.task /\ ch'.sid = ch.sid /\ ch'.seq = ch.seq
        /\ ch'.ws = ch.ws /\ ch'.watch = ch.watch
    BY <1>2, <2>1 DEF Fields
  <2>3. QED
    BY <1>1, <1>2, <2>1, <2>2, SameStep
<1>4. CASE ~(at[ch.task] \in Deaf \/ at[ch.task] = "ended")
  <2>1. /\ ch' = [Cleaned(ch) EXCEPT !.running = FALSE] /\ conn' = [conn EXCEPT ![ch.task] = Closed]
        /\ \E place \in Apart : Goto(ch.task, place)
    BY <1>4 DEF Stop, Apart
  <2>2. /\ Cleaned(ch).task = ch.task /\ Cleaned(ch).sid = ch.sid /\ Cleaned(ch).seq = ch.seq
        /\ Cleaned(ch).ws = 0 /\ Cleaned(ch).watch = 0 /\ DOMAIN Cleaned(ch) = Fields
    BY <1>2, CleanedIs
  <2>3. /\ ch'.task = ch.task /\ ch'.sid = ch.sid /\ ch'.seq = ch.seq /\ ch'.ws = 0 /\ ch'.watch = 0
    BY <2>1, <2>2 DEF Fields
  <2>4. QED
    BY <1>1, <2>1, <2>3, CancelReads
<1>5. QED
  BY <1>3, <1>4

\* The old task has ended, so nobody has a connection; the new one knows no session.
LEMMA RestartReads ==
  ASSUME ReadInv, HeldRuns', Restart
  PROVE  ReadInv'
<1>1. /\ at[ch.task] = "ended" /\ ch' = NewChannel(Spare) /\ Goto(Spare, "connecting")
      /\ conn' = conn /\ srv' = srv /\ begun' = begun
  BY DEF Restart, Gone
<1>2. /\ GatewayTyped /\ HeldConnection /\ ReadSoFar /\ at = [r \in Runners |-> at[r]]
      /\ srv.id \in Nat
  BY DEF ReadInv, HeldRuns, GatewayTyped, Servers
<1>3. \A r \in Runners : conn[r] = Closed /\ at[r] # "settling"
  BY <1>1, <1>2 DEF HeldConnection, Apart, Closed
<1>4. ch'.ws = 0 /\ ch'.watch = 0 /\ ch'.sid = 0 /\ ch'.seq = 0 /\ ch'.task = Spare
  BY <1>1 DEF NewChannel
<1>5. \A r \in Runners : at'[r] \in {at[r], "connecting"} /\ Closed.hand = <<>>
  BY <1>1, <1>2 DEF Goto, Closed
<1>6. GatewayTyped'
  BY <1>1, <1>2, <1>4 DEF GatewayTyped
<1>7. HeldConnection'
  BY <1>1, <1>3, <1>4, <1>5 DEF HeldConnection
<1>8. \A r \in Runners : Sound(conn'[r], ch', srv') /\ ~ReadyComes(conn'[r])
  BY <1>1, <1>3, ClosedSound
<1>9. ReadSoFar'
  BY <1>1, <1>2, <1>4, <1>8 DEF ReadSoFar, ReadOnce, Knows
<1>10. QED
  BY <1>6, <1>7, <1>8, <1>9 DEF ReadInv

LEMMA InitReads == ASSUME Init PROVE HeldRuns /\ ReadInv
<1>1. /\ ch.ws = 0 /\ ch.watch = 0 /\ ch.sid = 0 /\ ch.seq = 0 /\ ch.task = 1 /\ DOMAIN ch = Fields
  BY DEF Init, NewChannel, Fields
<1>2. /\ at = [r \in Runners |-> IF r = 1 THEN "connecting" ELSE "none"]
      /\ conn = [r \in Runners |-> Closed] /\ begun = [m \in Messages |-> 0]
  BY DEF Init
<1>3. srv \in Servers /\ srv.id = 0 /\ srv.log = <<>>
  <2>1. <<>> \in Seq(Messages) /\ srv = [id |-> 0, alive |-> FALSE, log |-> <<>>]
    BY DEF Init
  <2>2. QED
    BY <2>1 DEF Servers
<1>4. HeldRuns
  BY <1>1, <1>2 DEF HeldRuns, Runs
<1>5. \A r \in Runners : conn[r] \in Connections /\ Sound(conn[r], ch, srv) /\ ~ReadyComes(conn[r])
  BY <1>2, ClosedSound
<1>6. GatewayTyped
  BY <1>1, <1>2, <1>3, <1>5 DEF GatewayTyped
<1>7. HeldConnection
  BY <1>1, <1>2 DEF HeldConnection, Closed
<1>8. ReadSoFar
  <2>1. DOMAIN srv.log = {}
    BY <1>3
  <2>2. QED
    BY <1>1, <1>3, <1>5, <2>1 DEF ReadSoFar, ReadOnce, Knows
<1>9. QED
  BY <1>4, <1>5, <1>6, <1>7, <1>8 DEF ReadInv

\* The steps of a gateway task.
LEMMA WorkerReads ==
  ASSUME ReadInv, HeldRuns', NEW r \in Runners, Works(r) \/ ConnectFails(r) \/ HandlerRaises(r)
  PROVE  ReadInv'
BY ConnectReads, HelloReads, SettleReads, SessionReads, AckReads, BeatNowReads, ReconnectReads,
   MessageReads, HandledReads, EndReads, CleanUpReads, AgainReads, FailsReads, RaisesReads
   DEF Works

\* Each message of the session the channel resumes is handed to its handler once, and
\* those up to the number it resumes from have been, over lost connections, lost frames,
\* sessions that expire or are refused, refreshes and replacements; as long as no refresh
\* is asked for by a message the task itself handles.
THEOREM EachReadOnce == ASSUME ~FromWithin PROVE Spec => []ReadOnce
<1>1. Init => ReadInv
  BY InitReads
<1>2. ReadInv /\ [Next]_vars => ReadInv'
  <2> SUFFICES ASSUME ReadInv, [Next]_vars PROVE ReadInv'
    OBVIOUS
  <2>0. HeldRuns
    BY DEF ReadInv
  <2>1. CASE UNCHANGED vars
    <3>1. /\ ch' = ch /\ at' = at /\ conn' = conn /\ srv' = srv /\ begun' = begun
      BY <2>1 DEF vars
    <3>2. HeldRuns'
      BY <2>0, <3>1 DEF HeldRuns, Runs
    <3>3. srv \in Servers /\ ch.watch \in {0, ch.ws}
      BY DEF ReadInv, GatewayTyped, HeldConnection
    <3>4. QED
      BY <3>1, <3>2, <3>3, SameStep
  <2>2. ASSUME NEW r \in Runners, Works(r) \/ ConnectFails(r) \/ HandlerRaises(r)
        PROVE  ReadInv'
    BY <2>0, <2>2, WorkerStep, WorkerReads
  <2>3. ASSUME NEW r \in Runners, Answer(r) \/ Interrupt(r) \/ Break(r) \/ NoBeats(r)
        PROVE  ReadInv'
    BY <2>0, <2>3, OutsideStep, AnswerReads, InterruptReads, BreakReads, NoBeatsReads
  <2>4. CASE Beat \/ Interval \/ Watchdog \/ Write \/ Expire
    BY <2>0, <2>4, OutsideStep, BeatReads, IntervalReads, WatchdogReads, WriteReads, ExpireReads
  <2>5. CASE Refresh \/ Stop \/ Restart
    BY <2>0, <2>5, OperatorStep, RefreshReads, StopReads, RestartReads
  <2>6. QED
    BY <2>1, <2>2, <2>3, <2>4, <2>5 DEF Next
<1>3. ReadInv => ReadOnce
  BY DEF ReadInv, ReadSoFar
<1>4. QED
  BY <1>1, <1>2, <1>3, PTL DEF Spec

===============================================================================
