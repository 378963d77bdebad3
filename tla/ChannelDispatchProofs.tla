------------------------- MODULE ChannelDispatchProofs -------------------------
(***************************************************************************)
(* Proofs about ChannelDispatch for any sessions, semaphores and limits,   *)
(* and any number of messages, commands, replays and crashes.              *)
(***************************************************************************)
EXTENDS ChannelDispatch, FiniteSetTheorems, TLAPS

WorkerTask == [msg : Known, at : Places, cancelled : BOOLEAN]

\* The types the proofs need; permits and leases are left out.
Typed ==
  /\ inbox \in Seq([session : Sessions, stop : BOOLEAN]) /\ Len(inbox) <= MaxMessages
  /\ journal \subseteq Known /\ queue \in Seq(Known)
  /\ tasks \in Seq(WorkerTask)
  /\ stopping # 0 => stopping \in Known /\ IsStop(stopping)
  /\ answers \in [Messages -> Nat]
  /\ stopped \subseteq Known /\ replayed \subseteq Known

\* A command is no task.
NoStopTask == \A i \in DOMAIN tasks : ~IsStop(tasks[i].msg)

\* Earlier places have earlier messages, but for those a replay published again:
\* in the queue, among the tasks, and from the tasks to the queue.
QueueOrder ==
  /\ \A i, j \in DOMAIN queue : i < j => queue[j] \in replayed \/ queue[i] < queue[j]
  /\ \A i, j \in DOMAIN tasks : i < j => tasks[j].msg \in replayed \/ tasks[i].msg < tasks[j].msg
  /\ \A i \in DOMAIN tasks, j \in DOMAIN queue :
       queue[j] \in replayed \/ tasks[i].msg < queue[j]

\* What a /stop was meant for is cancelled, or a replay published it again.
StopReaches ==
  /\ \A j \in DOMAIN queue : queue[j] \in stopped => queue[j] \in replayed
  /\ \A i \in DOMAIN tasks :
       ~tasks[i].cancelled /\ tasks[i].msg \in stopped => tasks[i].msg \in replayed

\* No task overtakes one that waits for the global semaphore, and one that has
\* both semaphores has begun.
LineKept ==
  /\ \A i, j \in DOMAIN tasks :
       j < i /\ tasks[i].at # "new" => tasks[j].at # "new" \/ tasks[j].cancelled
  /\ \A i \in DOMAIN tasks : tasks[i].at \in {"running", "replying"} => tasks[i].msg \in started

DispatchInv ==
  Typed /\ NoStopTask /\ NothingLost /\ QueueOrder /\ StopReaches /\ LineKept

-------------------------------------------------------------------------------
(* Sequences.                                                                  *)

LEMMA TaskTyped ==
  ASSUME tasks \in Seq(WorkerTask), NEW i \in DOMAIN tasks
  PROVE  /\ tasks[i] \in WorkerTask
         /\ tasks[i].msg \in Known /\ tasks[i].at \in Places /\ tasks[i].cancelled \in BOOLEAN
<1>1. tasks[i] \in WorkerTask
  OBVIOUS
<1>2. QED
  BY <1>1 DEF WorkerTask

LEMMA RemoveAtIs ==
  ASSUME NEW S, NEW s \in Seq(S), NEW i \in DOMAIN s
  PROVE  /\ RemoveAt(s, i) \in Seq(S) /\ Len(RemoveAt(s, i)) = Len(s) - 1
         /\ \A k \in 1..(Len(s) - 1) : RemoveAt(s, i)[k] = IF k < i THEN s[k] ELSE s[k + 1]
<1> DEFINE a == SubSeq(s, 1, i - 1)
           b == SubSeq(s, i + 1, Len(s))
<1>1. i \in 1..Len(s) /\ Len(s) \in Nat
  OBVIOUS
<1>2. a \in Seq(S) /\ Len(a) = i - 1 /\ \A k \in 1..(i - 1) : a[k] = s[k]
  BY <1>1
<1>3. b \in Seq(S) /\ Len(b) = Len(s) - i /\ \A k \in 1..(Len(s) - i) : b[k] = s[k + i]
  BY <1>1
<1>4. RemoveAt(s, i) = a \o b
  BY DEF RemoveAt
<1> HIDE DEF a, b
<1>5. a \o b \in Seq(S) /\ Len(a \o b) = Len(s) - 1
  BY <1>1, <1>2, <1>3
<1>6. ASSUME NEW k \in 1..(Len(s) - 1) PROVE (a \o b)[k] = IF k < i THEN s[k] ELSE s[k + 1]
  <2>1. CASE k < i
    <3>1. k \in 1..(i - 1) /\ (a \o b)[k] = a[k]
      BY <1>1, <1>2, <1>3, <2>1
    <3>2. QED
      BY <1>2, <2>1, <3>1
  <2>2. CASE k >= i
    <3>1. k - (i - 1) \in 1..(Len(s) - i) /\ k - (i - 1) + i = k + 1
      BY <1>1, <2>2
    <3>2. (a \o b)[k] = b[k - (i - 1)]
      BY <1>1, <1>2, <1>3, <2>2
    <3>3. b[k - (i - 1)] = s[k + 1]
      BY <1>3, <3>1
    <3>4. ~(k < i)
      BY <1>1, <2>2
    <3>5. QED
      BY <3>2, <3>3, <3>4
  <2>3. k < i \/ k >= i
    BY <1>1
  <2>4. QED
    BY <2>1, <2>2, <2>3
<1>7. QED
  BY <1>4, <1>5, <1>6

\* A replay publishes messages of the journal, however many.
LEMMA OldestRows ==
  ASSUME Typed, NEW chosen \in SUBSET Known, NEW rows \in Oldest(chosen)
  PROVE  rows \in Seq(Known)
<1>1. Len(inbox) \in Nat
  BY DEF Typed
<1>2. IsFiniteSet(Known)
  BY <1>1, FS_Interval DEF Known
<1>3. IsFiniteSet(chosen)
  BY <1>2, FS_Subset
<1>4. Cardinality(chosen) \in Nat
  BY <1>3, FS_CardinalityType
<1>5. Budget(chosen) \in Nat
  BY <1>4, DispatchAssumption DEF Budget
<1>6. rows \in [1..Budget(chosen) -> Known]
  BY DEF Oldest
<1>7. QED
  BY <1>5, <1>6

-------------------------------------------------------------------------------
(* What a step does to the tasks and the queue.                                *)

Rest == <<inbox, journal, stopping, answers, stopped>>

\* A task goes to its next place; one that takes both semaphores has begun.
LEMMA TaskMoves ==
  ASSUME DispatchInv, NEW i \in DOMAIN tasks, NEW place \in Places, MovesTo(i, place),
         UNCHANGED <<Rest, queue, replayed>>,
         place # "new", tasks[i].at = "new" => FirstInLine(i),
         started \subseteq started', place \in {"running", "replying"} => tasks[i].msg \in started'
  PROVE  DispatchInv'
<1>1. tasks \in Seq(WorkerTask)
  BY DEF DispatchInv, Typed
<1>2. /\ tasks[i] \in WorkerTask
      /\ tasks' = [tasks EXCEPT ![i] = [tasks[i] EXCEPT !.at = place]]
  BY <1>1, TaskTyped DEF MovesTo
<1> DEFINE task == [tasks[i] EXCEPT !.at = place]
<1>3. /\ task \in WorkerTask
      /\ task.msg = tasks[i].msg /\ task.at = place /\ task.cancelled = tasks[i].cancelled
  BY <1>2 DEF WorkerTask
<1> HIDE DEF task
<1>4. /\ tasks' \in Seq(WorkerTask)
      /\ DOMAIN tasks' = DOMAIN tasks
      /\ \A k \in DOMAIN tasks : tasks'[k] = IF k = i THEN task ELSE tasks[k]
  BY <1>1, <1>2, <1>3 DEF task
<1>5. \A k \in DOMAIN tasks : /\ tasks'[k].msg = tasks[k].msg /\ tasks'[k].cancelled = tasks[k].cancelled
                              /\ k # i => tasks'[k].at = tasks[k].at
  BY <1>3, <1>4
<1>6. Typed'
  BY <1>4 DEF DispatchInv, Typed, WorkerTask, Rest, Known, IsStop
<1>7. NoStopTask' /\ NothingLost'
  BY <1>4, <1>5 DEF DispatchInv, NoStopTask, NothingLost, Rest, Known, IsStop
<1>8. QueueOrder'
  BY <1>4, <1>5 DEF DispatchInv, QueueOrder
<1>9. StopReaches'
  BY <1>4, <1>5 DEF DispatchInv, StopReaches, Rest
<1>10. LineKept'
  <2>1. ASSUME NEW k \in DOMAIN tasks', NEW j \in DOMAIN tasks', j < k, tasks'[k].at # "new"
        PROVE  tasks'[j].at # "new" \/ tasks'[j].cancelled
    <3>1. tasks[j].at # "new" \/ tasks[j].cancelled
      <4>1. CASE tasks[k].at # "new"
        BY <1>4, <2>1, <4>1 DEF DispatchInv, LineKept
      <4>2. CASE tasks[k].at = "new"
        <5>1. k = i /\ FirstInLine(i)
          BY <1>4, <1>5, <2>1, <4>2
        <5>2. j \in 1..(i - 1)
          BY <1>1, <1>4, <2>1, <5>1
        <5>3. QED
          BY <5>1, <5>2 DEF FirstInLine
      <4>3. QED
        BY <4>1, <4>2
    <3>2. QED
      BY <1>3, <1>4, <1>5, <3>1
  <2>2. \A k \in DOMAIN tasks' : tasks'[k].at \in {"running", "replying"} => tasks'[k].msg \in started'
    BY <1>3, <1>4, <1>5 DEF DispatchInv, LineKept
  <2>3. QED
    BY <2>1, <2>2 DEF LineKept
<1>11. QED
  BY <1>6, <1>7, <1>8, <1>9, <1>10 DEF DispatchInv

\* A task ends, and with it perhaps its message.
LEMMA TaskEnds ==
  ASSUME DispatchInv, NEW i \in DOMAIN tasks, Ended(i), NEW completed \in BOOLEAN,
         Clear(tasks[i].msg, completed),
         answers' = IF completed THEN [answers EXCEPT ![tasks[i].msg] = @ + 1] ELSE answers,
         UNCHANGED <<inbox, queue, stopping, started, stopped, replayed>>
  PROVE  DispatchInv'
<1>1. tasks \in Seq(WorkerTask)
  BY DEF DispatchInv, Typed
<1>2. tasks' = RemoveAt(tasks, i)
  BY DEF Ended
<1>3. /\ tasks' \in Seq(WorkerTask) /\ Len(tasks') = Len(tasks) - 1
      /\ \A k \in 1..(Len(tasks) - 1) : tasks'[k] = IF k < i THEN tasks[k] ELSE tasks[k + 1]
  BY <1>1, <1>2, RemoveAtIs
<1> DEFINE old(k) == IF k < i THEN k ELSE k + 1
<1>4. /\ \A k \in DOMAIN tasks' : old(k) \in DOMAIN tasks /\ tasks'[k] = tasks[old(k)]
      /\ \A j, k \in DOMAIN tasks' : j < k => old(j) < old(k)
  BY <1>1, <1>3
<1> HIDE DEF old
<1>5. /\ tasks[i].msg \in Known /\ Known \subseteq Messages /\ ~IsStop(tasks[i].msg)
      /\ answers \in [Messages -> Nat]
  <2>1. Len(inbox) \in Nat /\ Len(inbox) <= MaxMessages /\ MaxMessages \in Nat
    BY DispatchAssumption DEF DispatchInv, Typed
  <2>2. QED
    BY <1>1, <2>1, TaskTyped DEF DispatchInv, NoStopTask, Typed, Known, Messages
<1>6. answers' \in [Messages -> Nat]
  BY <1>5
<1>7. journal' \subseteq journal /\ journal \ journal' \subseteq {tasks[i].msg}
      /\ (journal' # journal => completed)
  BY DEF Clear
<1>8. Typed'
  BY <1>3, <1>6, <1>7 DEF DispatchInv, Typed, WorkerTask, Known, IsStop
<1>9. NoStopTask'
  BY <1>4 DEF DispatchInv, NoStopTask, IsStop
<1>10. NothingLost'
  <2>1. ASSUME NEW m \in Known, ~IsStop(m), answers'[m] = 0 PROVE m \in journal'
    <3>1. CASE m = tasks[i].msg /\ completed
      BY <1>5, <2>1, <3>1
    <3>2. CASE ~(m = tasks[i].msg /\ completed)
      <4>1. answers'[m] = answers[m] /\ m \in Messages
        BY <1>5, <3>2
      <4>2. m \in journal
        BY <2>1, <4>1 DEF DispatchInv, NothingLost
      <4>3. QED
        BY <1>7, <3>2, <4>2
    <3>3. QED
      BY <3>1, <3>2
  <2>2. QED
    BY <2>1 DEF NothingLost, Known, IsStop
<1>11. QueueOrder'
  BY <1>4 DEF DispatchInv, QueueOrder
<1>12. StopReaches'
  BY <1>4 DEF DispatchInv, StopReaches
<1>13. LineKept'
  BY <1>4 DEF DispatchInv, LineKept
<1>14. QED
  BY <1>8, <1>9, <1>10, <1>11, <1>12, <1>13 DEF DispatchInv

\* A replay appends messages of the journal and marks them.
LEMMA RepublishKeeps ==
  ASSUME DispatchInv, NEW chosen \in SUBSET journal, Republish(chosen),
         UNCHANGED <<Rest, tasks, started>>
  PROVE  DispatchInv'
<1>1. PICK rows \in Oldest(chosen) : queue' = queue \o rows /\ replayed' = replayed \union ToSet(rows)
  BY DEF Republish
<1>2. chosen \subseteq Known
  BY DEF DispatchInv, Typed
<1>3. rows \in Seq(Known)
  BY <1>2, OldestRows DEF DispatchInv
<1>4. queue \in Seq(Known)
  BY DEF DispatchInv, Typed
<1>5. queue' \in Seq(Known) /\ Len(queue') = Len(queue) + Len(rows)
  BY <1>1, <1>3, <1>4
<1>6. /\ \A j \in DOMAIN queue' : (j \in DOMAIN queue /\ queue'[j] = queue[j]) \/ queue'[j] \in replayed'
      /\ \A j \in DOMAIN queue : j \in DOMAIN queue' /\ queue'[j] = queue[j]
  <2>1. ASSUME NEW j \in DOMAIN queue', j \notin DOMAIN queue PROVE queue'[j] \in replayed'
    <3>1. (j - Len(queue)) \in DOMAIN rows /\ queue'[j] = rows[j - Len(queue)]
      BY <1>1, <1>3, <1>4, <1>5, <2>1
    <3>2. QED
      BY <1>1, <3>1 DEF ToSet
  <2>2. ASSUME NEW j \in DOMAIN queue PROVE j \in DOMAIN queue' /\ queue'[j] = queue[j]
    BY <1>1, <1>3, <1>4, <1>5
  <2>3. QED
    BY <2>1, <2>2
<1>7. ToSet(rows) \subseteq Known
  BY <1>3 DEF ToSet
<1>8. replayed \subseteq replayed'
  BY <1>1
<1>9. Typed'
  BY <1>1, <1>5, <1>7 DEF DispatchInv, Typed, WorkerTask, Rest, Known, IsStop
<1>10. NoStopTask' /\ NothingLost'
  BY DEF DispatchInv, NoStopTask, NothingLost, Rest, Known, IsStop
<1>11. QueueOrder'
  <2>1. ASSUME NEW i \in DOMAIN queue', NEW j \in DOMAIN queue', i < j, queue'[j] \notin replayed'
        PROVE  queue'[i] < queue'[j]
    <3>1. j \in DOMAIN queue /\ queue'[j] = queue[j]
      BY <1>6, <2>1
    <3>2. i \in DOMAIN queue
      BY <1>4, <1>5, <2>1, <3>1
    <3>3. QED
      BY <1>6, <1>8, <2>1, <3>1, <3>2 DEF DispatchInv, QueueOrder
  <2>2. QED
    BY <1>6, <1>8, <2>1 DEF DispatchInv, QueueOrder
<1>12. StopReaches'
  BY <1>6, <1>8 DEF DispatchInv, StopReaches, Rest
<1>13. LineKept'
  BY DEF DispatchInv, LineKept
<1>14. QED
  BY <1>9, <1>10, <1>11, <1>12, <1>13 DEF DispatchInv

\* A message is received: it is the latest of all.
LEMMA ReceiveKeeps ==
  ASSUME DispatchInv, NEW s \in Sessions, NEW stop \in BOOLEAN, Receive(s, stop)
  PROVE  DispatchInv'
<1> DEFINE m == Len(inbox) + 1
<1>1. /\ m <= MaxMessages /\ inbox' = Append(inbox, [session |-> s, stop |-> stop])
      /\ journal' = journal \union {m} /\ queue' = Append(queue, m)
      /\ UNCHANGED <<tasks, stopping, answers, started, stopped, replayed>>
  BY DEF Receive, history
<1>2. /\ inbox \in Seq([session : Sessions, stop : BOOLEAN]) /\ Len(inbox) \in Nat
      /\ queue \in Seq(Known)
      /\ tasks \in Seq(WorkerTask)
  BY DEF DispatchInv, Typed
<1>3. /\ inbox' \in Seq([session : Sessions, stop : BOOLEAN]) /\ Len(inbox') = m
      /\ \A k \in Known : inbox'[k] = inbox[k]
  BY <1>1, <1>2 DEF Known
<1>4. Known' = Known \union {m} /\ m \notin Known /\ m \in Nat /\ \A k \in Known : k < m /\ k \in Nat
  BY <1>2, <1>3 DEF Known
<1>5. \A k \in Known : IsStop(k)' = IsStop(k)
  BY <1>3 DEF IsStop
<1> HIDE DEF m
<1>6. /\ queue' \in Seq(Known') /\ Len(queue') = Len(queue) + 1
      /\ \A j \in DOMAIN queue' : \/ j \in DOMAIN queue /\ queue'[j] = queue[j]
                                  \/ j = Len(queue) + 1 /\ queue'[j] = m
  BY <1>1, <1>2, <1>4
<1>7. tasks \in Seq(WorkerTask') /\ \A i \in DOMAIN tasks : tasks[i].msg \in Known
  <2>1. WorkerTask \subseteq WorkerTask'
    BY <1>4 DEF WorkerTask
  <2>2. QED
    BY <1>2, <2>1, TaskTyped
<1>8. \A j \in DOMAIN queue : queue[j] \in Known
  BY <1>2
<1>9. Typed'
  BY <1>1, <1>3, <1>4, <1>5, <1>6, <1>7 DEF DispatchInv, Typed
<1>10. NoStopTask'
  BY <1>1, <1>5, <1>7 DEF DispatchInv, NoStopTask
<1>11. NothingLost'
  BY <1>1, <1>4, <1>5 DEF DispatchInv, NothingLost
<1>12. QueueOrder'
  <2>1. ASSUME NEW i \in DOMAIN queue', NEW j \in DOMAIN queue', i < j
        PROVE  queue'[j] \in replayed \/ queue'[i] < queue'[j]
    <3>1. i \in DOMAIN queue /\ queue'[i] = queue[i]
      BY <1>2, <1>6, <2>1
    <3>2. QED
      BY <1>4, <1>6, <1>8, <2>1, <3>1 DEF DispatchInv, QueueOrder
  <2>2. QED
    BY <1>1, <1>4, <1>6, <1>7, <2>1 DEF DispatchInv, QueueOrder
<1>13. StopReaches'
  BY <1>1, <1>4, <1>6 DEF DispatchInv, StopReaches, Typed
<1>14. LineKept'
  BY <1>1 DEF DispatchInv, LineKept
<1>15. QED
  BY <1>9, <1>10, <1>11, <1>12, <1>13, <1>14 DEF DispatchInv

\* The head of the queue leaves it.
LEMMA HeadTaken ==
  ASSUME DispatchInv, NEW m, Takes(m)
  PROVE  /\ m \in Known /\ queue # <<>> /\ m = queue[1] /\ 1 \in DOMAIN queue
         /\ queue' \in Seq(Known)
         /\ \A j \in DOMAIN queue' : j + 1 \in DOMAIN queue /\ queue'[j] = queue[j + 1] /\ 1 < j + 1
<1>1. queue \in Seq(Known) /\ queue # <<>> /\ m = Head(queue) /\ queue' = Tail(queue)
  BY DEF DispatchInv, Typed, Takes
<1>2. QED
  BY <1>1

\* A message becomes a task, behind all others.
LEMMA DispatchKeeps ==
  ASSUME DispatchInv, NEW m, Dispatch(m)
  PROVE  DispatchInv'
<1> DEFINE task == [msg |-> m, at |-> "new", cancelled |-> FALSE]
<1>1. /\ Takes(m) /\ ~IsStop(m) /\ tasks' = Append(tasks, task)
      /\ UNCHANGED <<Rest, started, replayed>>
  BY DEF Dispatch, history, Rest
<1>2. /\ m \in Known /\ m = queue[1] /\ 1 \in DOMAIN queue /\ queue' \in Seq(Known)
      /\ \A j \in DOMAIN queue' : j + 1 \in DOMAIN queue /\ queue'[j] = queue[j + 1] /\ 1 < j + 1
  BY <1>1, HeadTaken
<1>3. tasks \in Seq(WorkerTask)
  BY DEF DispatchInv, Typed
<1>4. task \in WorkerTask /\ task.msg = m /\ task.at = "new" /\ ~task.cancelled
  BY <1>2 DEF Places, WorkerTask
<1> HIDE DEF task
<1>5. /\ tasks' \in Seq(WorkerTask) /\ Len(tasks') = Len(tasks) + 1
      /\ \A i \in DOMAIN tasks' : \/ i \in DOMAIN tasks /\ tasks'[i] = tasks[i]
                                  \/ i = Len(tasks) + 1 /\ tasks'[i] = task
  BY <1>1, <1>3, <1>4
<1>6. Typed'
  BY <1>1, <1>2, <1>5 DEF DispatchInv, Typed, WorkerTask, Rest, Known, IsStop
<1>7. NoStopTask' /\ NothingLost'
  BY <1>1, <1>4, <1>5 DEF DispatchInv, NoStopTask, NothingLost, Rest, Known, IsStop
<1>8. QueueOrder'
  <2>1. ASSUME NEW i \in DOMAIN tasks', NEW j \in DOMAIN tasks', i < j
        PROVE  tasks'[j].msg \in replayed \/ tasks'[i].msg < tasks'[j].msg
    <3>1. i \in DOMAIN tasks /\ tasks'[i] = tasks[i]
      BY <1>3, <1>5, <2>1
    <3>2. QED
      BY <1>2, <1>4, <1>5, <2>1, <3>1 DEF DispatchInv, QueueOrder
  <2>2. ASSUME NEW i \in DOMAIN tasks', NEW j \in DOMAIN queue'
        PROVE  queue'[j] \in replayed \/ tasks'[i].msg < queue'[j]
    BY <1>2, <1>4, <1>5 DEF DispatchInv, QueueOrder
  <2>3. ASSUME NEW i \in DOMAIN queue', NEW j \in DOMAIN queue', i < j
        PROVE  queue'[j] \in replayed \/ queue'[i] < queue'[j]
    <3>1. i + 1 < j + 1
      BY <1>2, <2>3
    <3>2. QED
      BY <1>2, <3>1 DEF DispatchInv, QueueOrder
  <2>4. QED
    BY <1>1, <2>1, <2>2, <2>3 DEF QueueOrder
<1>9. StopReaches'
  BY <1>1, <1>2, <1>4, <1>5 DEF DispatchInv, StopReaches, Rest
<1>10. LineKept'
  <2>1. ASSUME NEW i \in DOMAIN tasks', NEW j \in DOMAIN tasks', j < i, tasks'[i].at # "new"
        PROVE  tasks'[j].at # "new" \/ tasks'[j].cancelled
    <3>1. i \in DOMAIN tasks /\ tasks'[i] = tasks[i] /\ j \in DOMAIN tasks /\ tasks'[j] = tasks[j]
      BY <1>3, <1>4, <1>5, <2>1
    <3>2. QED
      BY <2>1, <3>1 DEF DispatchInv, LineKept
  <2>2. \A i \in DOMAIN tasks' : tasks'[i].at \in {"running", "replying"} => tasks'[i].msg \in started
    BY <1>4, <1>5 DEF DispatchInv, LineKept
  <2>3. QED
    BY <1>1, <2>1, <2>2 DEF LineKept
<1>11. QED
  BY <1>6, <1>7, <1>8, <1>9, <1>10 DEF DispatchInv

\* A /stop cancels every task of its session; what is behind it in the queue came
\* later or was replayed.
LEMMA BeginStopKeeps ==
  ASSUME DispatchInv, NEW m, BeginStop(m)
  PROVE  DispatchInv'
<1> DEFINE s == Session(m)
<1>1. /\ Takes(m) /\ IsStop(m) /\ stopping' = m
      /\ tasks' = [i \in DOMAIN tasks |->
                     IF i \in Active(s) THEN [tasks[i] EXCEPT !.cancelled = TRUE] ELSE tasks[i]]
      /\ stopped' = stopped \union {k \in 1..m : Session(k) = s}
      /\ UNCHANGED <<inbox, journal, answers, started, replayed>>
  BY DEF BeginStop, Targets
<1>2. /\ m \in Known /\ m = queue[1] /\ 1 \in DOMAIN queue /\ queue' \in Seq(Known)
      /\ \A j \in DOMAIN queue' : j + 1 \in DOMAIN queue /\ queue'[j] = queue[j + 1] /\ 1 < j + 1
  BY <1>1, HeadTaken
<1>3. tasks \in Seq(WorkerTask)
  BY DEF DispatchInv, Typed
<1>4. ASSUME NEW i \in DOMAIN tasks
      PROVE  /\ tasks'[i] \in WorkerTask
             /\ tasks'[i].msg = tasks[i].msg /\ tasks'[i].at = tasks[i].at
             /\ tasks[i].cancelled => tasks'[i].cancelled
             /\ i \in Active(s) => tasks'[i].cancelled
  <2>1. tasks[i] \in WorkerTask
    BY <1>3
  <2>2. QED
    BY <1>1, <2>1 DEF WorkerTask
<1>5. DOMAIN tasks' = DOMAIN tasks /\ tasks' \in Seq(WorkerTask)
  BY <1>1, <1>3, <1>4
<1>6. Len(inbox) \in Nat
  BY DEF DispatchInv, Typed
<1>7. \A k \in 1..m : k \in Known
  BY <1>2, <1>6 DEF Known
<1>8. Typed'
  BY <1>1, <1>2, <1>5, <1>7 DEF DispatchInv, Typed, WorkerTask, Known, IsStop
<1>9. NoStopTask' /\ NothingLost'
  BY <1>1, <1>4, <1>5 DEF DispatchInv, NoStopTask, NothingLost, Known, IsStop
<1>10. QueueOrder'
  <2>1. ASSUME NEW i \in DOMAIN queue', NEW j \in DOMAIN queue', i < j
        PROVE  queue'[j] \in replayed \/ queue'[i] < queue'[j]
    <3>1. i + 1 < j + 1
      BY <1>2, <2>1
    <3>2. QED
      BY <1>2, <3>1 DEF DispatchInv, QueueOrder
  <2>2. QED
    BY <1>1, <1>2, <1>4, <1>5, <2>1 DEF DispatchInv, QueueOrder
<1>11. StopReaches'
  <2>1. ASSUME NEW j \in DOMAIN queue', queue'[j] \in stopped' PROVE queue'[j] \in replayed
    <3>1. queue'[j] \in replayed \/ m < queue'[j]
      BY <1>2 DEF DispatchInv, QueueOrder
    <3>2. CASE queue'[j] \in stopped
      BY <1>2, <3>2 DEF DispatchInv, StopReaches
    <3>3. CASE queue'[j] \notin stopped
      <4>1. queue'[j] \in 1..m /\ m \in Nat
        BY <1>1, <1>2, <1>6, <2>1, <3>3 DEF Known
      <4>2. QED
        BY <3>1, <4>1
    <3>4. QED
      BY <3>2, <3>3
  <2>2. ASSUME NEW i \in DOMAIN tasks', ~tasks'[i].cancelled, tasks'[i].msg \in stopped'
        PROVE  tasks'[i].msg \in replayed
    <3>1. i \in DOMAIN tasks /\ ~tasks[i].cancelled /\ i \notin Active(s) /\ tasks'[i].msg = tasks[i].msg
      BY <1>4, <1>5, <2>2
    <3>2. tasks[i].msg \in stopped
      BY <1>1, <2>2, <3>1 DEF Active
    <3>3. QED
      BY <3>1, <3>2 DEF DispatchInv, StopReaches
  <2>3. QED
    BY <1>1, <2>1, <2>2 DEF StopReaches
<1>12. LineKept'
  BY <1>1, <1>4, <1>5 DEF DispatchInv, LineKept
<1>13. QED
  BY <1>8, <1>9, <1>10, <1>11, <1>12 DEF DispatchInv

-------------------------------------------------------------------------------
(* The invariant.                                                              *)

LEMMA InitKeeps ==
  ASSUME Init
  PROVE  DispatchInv
<1>1. inbox = <<>> /\ queue = <<>> /\ tasks = <<>> /\ journal = {} /\ stopping = 0
      /\ answers = [m \in Messages |-> 0] /\ stopped = {} /\ replayed = {} /\ started = {}
  BY DEF Init
<1>2. Len(inbox) = 0 /\ DOMAIN queue = {} /\ DOMAIN tasks = {} /\ Known = {}
  BY <1>1 DEF Known
<1>3. Typed
  BY <1>1, <1>2, DispatchAssumption DEF Typed
<1>4. QED
  BY <1>1, <1>2, <1>3 DEF DispatchInv, NoStopTask, NothingLost, QueueOrder, StopReaches, LineKept

\* A step of a worker, and what it did to the task.
LEMMA WorkerKeeps ==
  ASSUME DispatchInv, NEW i \in DOMAIN tasks, Worker(i)
  PROVE  DispatchInv'
<1>1. CASE AcquireGlobal(i)
  <2>1. /\ tasks[i].at = "new" /\ FirstInLine(i) /\ UNCHANGED <<Rest, queue, replayed>>
        /\ \/ MovesTo(i, "running") /\ started' = started \union {tasks[i].msg}
           \/ MovesTo(i, "queued") /\ started' = started
    BY <1>1 DEF AcquireGlobal, Runs, Rest
  <2>2. "running" \in Places /\ "queued" \in Places
    BY DEF Places
  <2>3. CASE MovesTo(i, "running") /\ started' = started \union {tasks[i].msg}
    BY <2>1, <2>2, <2>3, TaskMoves
  <2>4. CASE MovesTo(i, "queued") /\ started' = started
    BY <2>1, <2>2, <2>4, TaskMoves
  <2>5. QED
    BY <2>1, <2>3, <2>4
<1>2. CASE AcquireSession(i)
  <2>1. /\ tasks[i].at # "new" /\ UNCHANGED <<Rest, queue, replayed>>
        /\ MovesTo(i, "running") /\ started' = started \union {tasks[i].msg}
    BY <1>2 DEF AcquireSession, Runs, Rest
  <2>2. "running" \in Places
    BY DEF Places
  <2>3. QED
    BY <2>1, <2>2, TaskMoves
<1>3. CASE EndEngine(i)
  <2>1. /\ tasks[i].at = "running" /\ UNCHANGED <<Rest, queue, replayed>>
        /\ MovesTo(i, "replying") /\ started' = started
    BY <1>3 DEF EndEngine, Rest, history
  <2>2. "replying" \in Places /\ tasks[i].msg \in started
    BY <2>1 DEF Places, DispatchInv, LineKept
  <2>3. QED
    BY <2>1, <2>2, TaskMoves
<1>4. CASE Abandon(i)
  <2>1. /\ Ended(i) /\ Clear(tasks[i].msg, FALSE) /\ answers' = answers
        /\ UNCHANGED <<inbox, queue, stopping, started, stopped, replayed>>
    BY <1>4 DEF Abandon, history, Clear
  <2>2. QED
    BY <2>1, TaskEnds
<1>5. QED
  BY <1>1, <1>2, <1>3, <1>4 DEF Worker

LEMMA NextKeeps ==
  ASSUME DispatchInv, [Next]_vars
  PROVE  DispatchInv'
<1>1. ASSUME UNCHANGED <<Rest, queue, tasks, started, replayed>> PROVE DispatchInv'
  BY <1>1 DEF Rest, DispatchInv, Typed, WorkerTask, NoStopTask, NothingLost, QueueOrder, StopReaches, LineKept,
     Known, IsStop
<1>2. ASSUME NEW s \in Sessions, NEW stop \in BOOLEAN, Receive(s, stop) PROVE DispatchInv'
  BY <1>2, ReceiveKeeps
<1>3. CASE StartupReplay
  <2>1. UNCHANGED <<Rest, tasks, started>> /\ (Republish(journal) \/ UNCHANGED <<queue, replayed>>)
    BY <1>3 DEF StartupReplay, Rest
  <2>2. QED
    BY <1>1, <2>1, RepublishKeeps
<1>4. ASSUME NEW wanted, NEW force, OperatorReplay(wanted, force) PROVE DispatchInv'
  <2>1. /\ UNCHANGED <<Rest, tasks, started>> /\ Republish({m \in journal : Session(m) \in wanted})
    BY <1>4 DEF OperatorReplay, Rest
  <2>2. {m \in journal : Session(m) \in wanted} \in SUBSET journal
    OBVIOUS
  <2>3. QED
    BY <2>1, <2>2, RepublishKeeps
<1>5. CASE Dispatcher
  <2>1. CASE EndStop
    <3>1. /\ stopping # 0 /\ stopping' = 0 /\ journal' \in {journal, journal \ {stopping}}
          /\ UNCHANGED <<inbox, queue, tasks, answers, started, stopped, replayed>>
      BY <2>1 DEF EndStop, history
    <3>2. IsStop(stopping)
      BY <3>1 DEF DispatchInv, Typed
    <3>3. QED
      BY <3>1, <3>2 DEF DispatchInv, Typed, WorkerTask, NoStopTask, NothingLost, QueueOrder, StopReaches, LineKept,
         Known, IsStop
  <2>2. ASSUME NEW m \in Known, Dispatch(m) \/ BeginStop(m) PROVE DispatchInv'
    BY <2>2, DispatchKeeps, BeginStopKeeps
  <2>3. QED
    BY <1>5, <2>1, <2>2 DEF Dispatcher
<1>6. ASSUME NEW i \in DOMAIN tasks, Worker(i) PROVE DispatchInv'
  BY <1>6, WorkerKeeps
<1>7. ASSUME NEW i \in DOMAIN tasks, NEW completed \in BOOLEAN, EndRun(i, completed) PROVE DispatchInv'
  <2>1. /\ Ended(i) /\ Clear(tasks[i].msg, completed)
        /\ answers' = IF completed THEN [answers EXCEPT ![tasks[i].msg] = @ + 1] ELSE answers
        /\ UNCHANGED <<inbox, queue, stopping, started, stopped, replayed>>
    BY <1>7 DEF EndRun
  <2>2. QED
    BY <2>1, TaskEnds
<1>8. CASE Crash
  <2>1. /\ queue' = <<>> /\ tasks' = <<>> /\ stopping' = 0
        /\ UNCHANGED <<inbox, journal, answers, started, stopped, replayed>>
    BY <1>8 DEF Crash, history
  <2>2. DOMAIN queue' = {} /\ DOMAIN tasks' = {}
    BY <2>1
  <2>3. Typed'
    BY <2>1 DEF DispatchInv, Typed, WorkerTask, Known, IsStop
  <2>4. QED
    BY <2>1, <2>2, <2>3 DEF DispatchInv, NoStopTask, NothingLost, QueueOrder, StopReaches, LineKept,
       Known, IsStop
<1>9. CASE Boot
  BY <1>1, <1>9 DEF Boot, Rest, history
<1>10. CASE UNCHANGED vars
  BY <1>1, <1>10 DEF vars, Rest, history
<1>11. QED
  BY <1>2, <1>3, <1>4, <1>5, <1>6, <1>7, <1>8, <1>9, <1>10 DEF Next, Work

LEMMA DispatchInvariant == Spec => []DispatchInv
<1>1. Init => DispatchInv
  BY InitKeeps
<1>2. DispatchInv /\ [Next]_vars => DispatchInv'
  BY NextKeeps
<1>3. QED
  BY <1>1, <1>2, PTL DEF Spec

-------------------------------------------------------------------------------
(* The theorems.                                                               *)

\* A message that was received and not processed to the end is in the journal,
\* whatever is stopped, replayed, cancelled, failed or crashed.
THEOREM LossTheorem == Spec => []NothingLost
<1>1. DispatchInv => NothingLost
  BY DEF DispatchInv
<1>2. QED
  BY <1>1, DispatchInvariant, PTL

\* Which task begins to run in a step.
LEMMA Begins ==
  ASSUME [Next]_vars, NEW m \in started' \ started
  PROVE  \E i \in DOMAIN tasks : tasks[i].msg = m /\ (AcquireGlobal(i) \/ AcquireSession(i)) /\ Runs(i, Session(m))
<1>1. started' # started
  OBVIOUS
<1>2. \E i \in DOMAIN tasks : Worker(i)
  BY <1>1 DEF Next, Work, vars, history, Receive, StartupReplay, OperatorReplay, Dispatcher, Dispatch, BeginStop,
     EndStop, EndRun, Crash, Boot
<1>3. PICK i \in DOMAIN tasks : Worker(i)
  BY <1>2
<1>4. AcquireGlobal(i) \/ AcquireSession(i)
  BY <1>1, <1>3 DEF Worker, EndEngine, Abandon, history
<1>5. Runs(i, Session(tasks[i].msg))
  BY <1>1, <1>4 DEF AcquireGlobal, AcquireSession
<1>6. tasks[i].msg = m
  BY <1>5 DEF Runs
<1>7. QED
  BY <1>4, <1>5, <1>6

\* What a /stop was meant for does not begin any more, unless a replay published it.
THEOREM StopTheorem == Spec => StopHolds
<1>1. ASSUME DispatchInv, [Next]_vars, NEW m \in started' \ started
      PROVE  m \notin stopped \/ m \in replayed
  <2>1. PICK i \in DOMAIN tasks : tasks[i].msg = m /\ (AcquireGlobal(i) \/ AcquireSession(i))
    BY <1>1, Begins
  <2>2. ~tasks[i].cancelled
    BY <2>1 DEF AcquireGlobal, AcquireSession
  <2>3. QED
    BY <1>1, <2>1, <2>2 DEF DispatchInv, StopReaches
<1>2. DispatchInv /\ [Next]_vars => [\A m \in started' \ started : m \notin stopped \/ m \in replayed]_vars
  BY <1>1
<1>3. QED
  BY <1>2, DispatchInvariant, PTL DEF Spec, StopHolds

\* The messages of a session are begun in the order they came in, but for those a
\* replay published again.
THEOREM OrderTheorem == Spec => InOrder
<1>1. ASSUME DispatchInv, [Next]_vars, NEW m \in started' \ started
      PROVE  EarlierWaiting(m) = {}
  <2>1. PICK i \in DOMAIN tasks :
          tasks[i].msg = m /\ (AcquireGlobal(i) \/ AcquireSession(i)) /\ Runs(i, Session(m))
    BY <1>1, Begins
  <2>2. tasks \in Seq(WorkerTask)
    BY <1>1 DEF DispatchInv, Typed
  <2>3. Len(inbox) \in Nat /\ m \in Known /\ m \in Nat
    BY <1>1, <2>1, <2>2, TaskTyped DEF DispatchInv, Typed, Known
  <2>4. ASSUME NEW k \in 1..(m - 1), Session(k) = Session(m), k \notin started, k \notin replayed,
               k \in ToSet(queue)
        PROVE  FALSE
    <3>1. PICK j \in DOMAIN queue : k = queue[j]
      BY <2>4 DEF ToSet
    <3>2. k < m
      BY <2>3, <2>4
    <3>3. m < k
      BY <1>1, <2>1, <2>4, <3>1 DEF DispatchInv, QueueOrder
    <3>4. QED
      BY <2>3, <2>4, <3>2, <3>3
  <2>5. ASSUME NEW k \in 1..(m - 1), Session(k) = Session(m), k \notin started, k \notin replayed,
               NEW j \in DOMAIN tasks, tasks[j].msg = k, ~tasks[j].cancelled
        PROVE  FALSE
    <3>1. j < i
      <4>1. j \in Nat /\ i \in Nat /\ j # i /\ ~(m < k)
        BY <2>1, <2>2, <2>3, <2>5
      <4>2. ~(i < j)
        BY <1>1, <2>1, <2>5, <4>1 DEF DispatchInv, QueueOrder
      <4>3. QED
        BY <4>1, <4>2
    <3>2. tasks[j].at \in {"new", "queued"}
      <4>1. tasks[j].at \in Places
        BY <2>2, TaskTyped
      <4>2. QED
        BY <1>1, <2>5, <4>1 DEF DispatchInv, LineKept, Places
    <3>3. j \in Active(Session(m))
      BY <2>5 DEF Active
    <3>4. CASE AcquireGlobal(i)
      <4>1. tasks[j].at # "new"
        <5>1. j \in 1..(i - 1)
          BY <2>2, <3>1
        <5>2. QED
          BY <2>5, <3>4, <5>1 DEF AcquireGlobal, FirstInLine
      <4>2. tasks[j].at # "queued"
        <5>1. CASE \A k1 \in Active(Session(m)) : tasks[k1].at # "queued" \/ tasks[k1].cancelled
          BY <2>5, <3>3, <5>1
        <5>2. CASE ~\A k1 \in Active(Session(m)) : tasks[k1].at # "queued" \/ tasks[k1].cancelled
          <6>1. started' = started
            BY <2>1, <3>4, <5>2 DEF AcquireGlobal
          <6>2. QED
            BY <1>1, <6>1
        <5>3. QED
          BY <5>1, <5>2
      <4>3. QED
        BY <3>2, <4>1, <4>2
    <3>5. CASE AcquireSession(i)
      <4>1. tasks[j].at # "queued"
        BY <2>1, <2>5, <3>1, <3>3, <3>5 DEF AcquireSession
      <4>2. tasks[j].at # "new"
        <5>1. tasks[i].at # "new"
          BY <3>5 DEF AcquireSession
        <5>2. QED
          BY <1>1, <2>5, <3>1, <5>1 DEF DispatchInv, LineKept
      <4>3. QED
        BY <3>2, <4>1, <4>2
    <3>6. QED
      BY <2>1, <3>4, <3>5
  <2>6. QED
    BY <2>4, <2>5 DEF EarlierWaiting
<1>2. DispatchInv /\ [Next]_vars => [\A m \in started' \ started : EarlierWaiting(m) = {}]_vars
  BY <1>1
<1>3. QED
  BY <1>2, DispatchInvariant, PTL DEF Spec, InOrder

===============================================================================
