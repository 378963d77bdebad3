------------------------------ MODULE EngineProofs ------------------------------
(***************************************************************************)
(* Proofs about the parts of the agent engine, for any values of their     *)
(* constants: AgentTurn, in which the lock of the session keeps its turns  *)
(* apart; the ProviderFailover that the turns ask; and the Subagents that  *)
(* they spawn.  The three share no variable: each section is about the     *)
(* behaviours of its own specification.                                    *)
(***************************************************************************)
EXTENDS AgentTurn, ProviderFailover, Subagents, TLAPS, FiniteSetTheorems, SequenceTheorems,
        WellFoundedInduction

(***************************************************************************)
(* The turns.                                                              *)
(***************************************************************************)

\* The places at which a turn holds the session's lock.
Held == Reading \union {"preparing", "unwinding"}
Places == Held \union {"new", "waiting", "refused", "closing", "done"}

\* Those at which it waits for a thread that writes its rows.
Writing == {"noting", "answering", "writing"}

Call == [sig : Tools, out : {"ok", "error"}]
Locals == [iter : Nat, used : Nat, plan : Seq(Tools),
           final : {"", "stopped", "limit", "error", "answer", "unverified", "loop", "budget"},
           recovered : BOOLEAN, again : BOOLEAN, asked : BOOLEAN,
           log : Seq(Call), plans : Seq(Plans),
           told : BOOLEAN, passed : BOOLEAN, after : Nat, looped : Nat]

TypeOK ==
  /\ at \in [Turns -> Places]
  /\ full \subseteq Turns /\ writing \subseteq Turns
  /\ queue \in Seq(Turns) /\ rows \in Seq(Turns)
  /\ run \in Locals
  /\ memory \in [Turns -> {"none", "pending", "settled"}]
  /\ stop \in BOOLEAN

\* A turn is once in the queue, and only while it waits for the lock or holds it; the
\* one that holds it is the first.
LockInv ==
  /\ \A i, j \in DOMAIN queue : queue[i] = queue[j] => i = j
  /\ \A i \in DOMAIN queue : at[queue[i]] \in Held \union {"waiting"}
  /\ \A t \in Turns : at[t] \in Held => Holds(t)

\* A stop request that a turn was told of is there as long as the turn runs, and a turn
\* that announces a call under one announced it when the request came.
StopInv ==
  /\ run.told => stop
  /\ \A t \in Turns : at[t] \in Announcing /\ run.told => run.passed /\ run.after = 0
  /\ StopObeyed

\* A tool that is announced or called was not caught by the detector of repeats.
CallInv == \A t \in Turns :
  at[t] \in {"announcing", "calling"} => run.plan # <<>> /\ ~Repeats(run.log, Head(run.plan))

\* A thread writes for the turn that waits for it, or waits for it to give the lock
\* back; only a turn that is cancelled twice leaves a thread behind.
WritersInv == \A t \in writing :
  \/ at[t] \in Writing \union {"unwinding"}
  \/ Impatient /\ at[t] \in {"closing", "done"}

\* Only a turn past the reading of its prompt has rows, and as long as it holds the
\* lock they are the last ones.
RowsInv ==
  /\ \A i \in DOMAIN rows : at[rows[i]] \notin {"new", "waiting", "preparing", "refused", "streaming"}
  /\ \A i \in DOMAIN rows : at[rows[i]] \in Held => i = Len(rows)

\* The inductive invariant.  What it says of the rows needs turns that are not
\* cancelled again while they wait for the thread.
TurnInv ==
  /\ TypeOK /\ LockInv /\ WritersInv /\ StopInv /\ HistoryComplete /\ CallInv /\ LoopCaught
  /\ ~Impatient => RowsInv /\ RowsContiguous

-------------------------------------------------------------------------------
(* What RemoveFirst does to a sequence.                                        *)

\* A nonempty set of numbers has a least one.
LEMMA LeastOf ==
  ASSUME NEW T, T \subseteq Nat, T # {}
  PROVE  Min(T) \in T
<1>1. PICK x \in T : \A y \in T : ~(<<y, x>> \in OpToRel(<, Nat))
  BY NatLessThanWellFounded, WFMin
<1>2. ASSUME NEW y \in T, y < x PROVE FALSE
  <2>1. <<y, x>> \in Nat \X Nat /\ <<y, x>>[1] < <<y, x>>[2]
    BY <1>2
  <2>2. <<y, x>> \in OpToRel(<, Nat)
    BY <2>1 DEF OpToRel
  <2>3. QED
    BY <1>1, <2>2
<1>3. \A y \in T : x <= y
  BY <1>2
<1>4. QED
  BY <1>3 DEF Min

\* RemoveFirst drops one element that is e, if there is one, and keeps the others as
\* they are and in their order.
LEMMA RemoveFirstAt ==
  ASSUME NEW S, NEW s \in Seq(S), NEW e, \E i \in 1..Len(s) : s[i] = e
  PROVE  \E k \in 1..Len(s) :
           /\ s[k] = e
           /\ RemoveFirst(s, e) \in Seq(S)
           /\ Len(RemoveFirst(s, e)) = Len(s) - 1
           /\ \A j \in 1..(Len(s) - 1) : RemoveFirst(s, e)[j] = s[IF j < k THEN j ELSE j + 1]
<1> DEFINE I == {i \in 1..Len(s) : s[i] = e}
           k == Min(I)
           a == SubSeq(s, 1, k - 1)
           b == SubSeq(s, k + 1, Len(s))
<1>1. k \in I
  <2>1. I \subseteq Nat /\ I # {}
    OBVIOUS
  <2> HIDE DEF I
  <2>2. QED
    BY <2>1, LeastOf
<1>2. RemoveFirst(s, e) = a \o b
  BY DEF RemoveFirst, RemoveAt, SelectInSeq
<1> HIDE DEF k
<1>3. k \in 1..Len(s) /\ s[k] = e /\ Len(s) \in Nat
  BY <1>1
<1>4. \A i \in 1..Len(s) : s[i] \in S
  OBVIOUS
<1>5. a \in Seq(S) /\ Len(a) = k - 1 /\ \A i \in 1..(k - 1) : a[i] = s[i]
  BY <1>3, <1>4, SubSeqProperties
<1>6. b \in Seq(S) /\ Len(b) = Len(s) - k /\ \A i \in 1..(Len(s) - k) : b[i] = s[k + i]
  BY <1>3, <1>4, SubSeqProperties
<1> HIDE DEF a, b
<1>7. /\ a \o b \in Seq(S) /\ Len(a \o b) = Len(s) - 1
      /\ \A i \in 1..(Len(s) - 1) : (a \o b)[i] = IF i <= k - 1 THEN a[i] ELSE b[i - (k - 1)]
  <2>1. /\ a \o b \in Seq(S) /\ Len(a \o b) = Len(a) + Len(b)
        /\ \A i \in 1..(Len(a) + Len(b)) : (a \o b)[i] = IF i <= Len(a) THEN a[i] ELSE b[i - Len(a)]
    BY <1>5, <1>6, ConcatProperties
  <2>2. Len(a) = k - 1 /\ Len(a) + Len(b) = Len(s) - 1
    BY <1>3, <1>5, <1>6
  <2>3. QED
    BY <2>1, <2>2
<1>8. \A j \in 1..(Len(s) - 1) : (a \o b)[j] = s[IF j < k THEN j ELSE j + 1]
  BY <1>3, <1>5, <1>6, <1>7
<1>9. QED
  BY <1>2, <1>3, <1>7, <1>8

-------------------------------------------------------------------------------
(* The lock.                                                                   *)

\* A turn that gives the lock back, or waits no longer, leaves the others in their order.
LEMMA LeaveKeepsLock ==
  ASSUME TypeOK, LockInv, NEW t \in Turns, NEW where \in {"closing", "done", "refused"},
         queue' = RemoveFirst(queue, t), Goto(t, where)
  PROVE  queue' \in Seq(Turns) /\ LockInv'
<1>1. \A u \in Turns : at'[u] = IF u = t THEN where ELSE at[u]
  BY DEF TypeOK, Goto
<1>2. where \notin Held \union {"waiting"}
  BY DEF Held, Reading, InLoop
<1>3. CASE \E i \in 1..Len(queue) : queue[i] = t
  <2>1. PICK k \in 1..Len(queue) :
               /\ queue[k] = t
               /\ queue' \in Seq(Turns)
               /\ Len(queue') = Len(queue) - 1
               /\ \A j \in 1..(Len(queue) - 1) : queue'[j] = queue[IF j < k THEN j ELSE j + 1]
    <3>1. queue \in Seq(Turns) /\ queue' = RemoveFirst(queue, t)
      BY DEF TypeOK
    <3>2. \E k \in 1..Len(queue) :
             /\ queue[k] = t
             /\ RemoveFirst(queue, t) \in Seq(Turns)
             /\ Len(RemoveFirst(queue, t)) = Len(queue) - 1
             /\ \A j \in 1..(Len(queue) - 1) : RemoveFirst(queue, t)[j] = queue[IF j < k THEN j ELSE j + 1]
      BY <1>3, <3>1, RemoveFirstAt
    <3>3. QED
      BY <3>1, <3>2
  <2>2. Len(queue) \in Nat /\ queue \in Seq(Turns) /\ DOMAIN queue = 1..Len(queue)
    BY DEF TypeOK
  <2>3. \A i, j \in 1..Len(queue) : queue[i] = queue[j] => i = j
    BY <2>2 DEF LockInv
  <2>4. \A j \in 1..(Len(queue) - 1) : queue'[j] \in Turns /\ queue'[j] # t
    BY <2>1, <2>2, <2>3
  <2>5. DOMAIN queue' = 1..(Len(queue) - 1)
    BY <2>1, <2>2
  <2>6. \A i, j \in DOMAIN queue' : queue'[i] = queue'[j] => i = j
    BY <2>1, <2>2, <2>3, <2>5
  <2>7. \A i \in DOMAIN queue' : at'[queue'[i]] \in Held \union {"waiting"}
    <3>1. ASSUME NEW i \in DOMAIN queue' PROVE \E j \in DOMAIN queue : queue'[i] = queue[j]
      BY <2>1, <2>2, <2>5
    <3>2. QED
      BY <1>1, <2>4, <2>5, <3>1 DEF LockInv
  <2>8. ASSUME NEW u \in Turns, at'[u] \in Held PROVE Holds(u)'
    <3>1. u # t /\ at[u] \in Held
      BY <1>1, <1>2, <2>8
    <3>2. queue # <<>> /\ queue[1] = u
      BY <3>1, <2>2 DEF LockInv, Holds
    <3>3. 1 < k
      BY <2>1, <3>1, <3>2
    <3>4. 1 \in 1..(Len(queue) - 1) /\ queue'[1] = u
      BY <2>1, <2>2, <3>2, <3>3
    <3>5. QED
      BY <2>1, <3>4 DEF Holds
  <2>9. QED
    BY <2>1, <2>6, <2>7, <2>8 DEF LockInv
<1>4. CASE ~\E i \in 1..Len(queue) : queue[i] = t
  <2>1. queue' = queue /\ DOMAIN queue = 1..Len(queue) /\ \A i \in DOMAIN queue : queue[i] \in Turns
    BY <1>4 DEF RemoveFirst, TypeOK
  <2>2. QED
    BY <1>1, <1>2, <1>4, <2>1 DEF LockInv, Holds, TypeOK
<1>5. QED
  BY <1>3, <1>4

\* A turn that moves on within what it holds, or past the lock, changes no queue.
LEMMA MoveKeepsLock ==
  ASSUME TypeOK, LockInv, NEW t \in Turns, NEW where \in Places, queue' = queue, Goto(t, where),
         where \in Held => Holds(t),
         at[t] \in Held \union {"waiting"} => where \in Held
  PROVE  LockInv'
<1>1. \A u \in Turns : at'[u] = IF u = t THEN where ELSE at[u]
  BY DEF TypeOK, Goto
<1>2. \A i \in DOMAIN queue : queue[i] \in Turns
  BY DEF TypeOK
<1>3. QED
  BY <1>1, <1>2 DEF LockInv, Holds

\* Two turns do not hold the lock at once.
LEMMA OneHolds ==
  ASSUME LockInv, NEW t \in Turns, NEW u \in Turns, at[t] \in Held, at[u] \in Held
  PROVE  t = u
BY DEF LockInv, Holds

-------------------------------------------------------------------------------
(* The steps by which a turn goes on within the lock, in what matters to the   *)
(* invariants.                                                                 *)

GoesOn(t, where) ==
  /\ at[t] \in Reading \union {"preparing"} /\ where \in Reading
  /\ Goto(t, where) /\ UNCHANGED <<full, queue, rows, memory, stop>>
  /\ at[t] = "preparing" => \A u \in Turns : memory[u] # "pending"
  /\ where = "streaming" => at[t] \in {"preparing", "streaming"}
  /\ t \in writing => at[t] \notin Writing
  /\ \/ writing' = writing
     \/ writing' = writing \union {t} /\ where \in Writing
  /\ run' \in Locals /\ run'.told = run.told /\ run'.passed = run.passed
  /\ \/ run'.after = run.after
     \/ at[t] \in Announcing /\ run.told /\ run'.after = run.after + 1
  /\ where \in Announcing => ~stop
  /\ where \in {"announcing", "calling"} => run'.plan # <<>> /\ ~Repeats(run'.log, Head(run'.plan))
  /\ \/ run'.log = run.log
     \/ /\ at[t] = "calling"
        /\ \E out \in {"ok", "error"} : run'.log = Append(run.log, [sig |-> Head(run.plan), out |-> out])

\* What the stop request has to do with a turn.
SameStop(r) == r.told = run.told /\ r.passed = run.passed /\ r.after = run.after

\* A step of the loop that leaves the log alone and calls nobody.
LEMMA LoopGoesOn ==
  ASSUME TypeOK, NEW t \in Turns, NEW r \in Locals,
         NEW where \in Reading \ {"announcing", "calling", "streaming"},
         where = "requesting" => ~stop,
         Loop(t, where, r), at[t] \in Reading, t \notin writing \/ at[t] \notin Writing,
         SameStop(r), r.log = run.log
  PROVE  GoesOn(t, where)
BY DEF Loop, GoesOn, Goto, SameStop, Writing, Reading, InLoop, Announcing

\* A field that is TRUE or FALSE may be set to either.
LEMMA FlagLocals ==
  ASSUME NEW r \in Locals, NEW b \in BOOLEAN
  PROVE  /\ [r EXCEPT !.told = b] \in Locals /\ [r EXCEPT !.passed = b] \in Locals
         /\ [r EXCEPT !.again = b] \in Locals /\ [r EXCEPT !.recovered = b] \in Locals
<1>1. CASE b
  BY <1>1 DEF Locals
<1>2. CASE ~b
  BY <1>2 DEF Locals
<1>3. QED
  BY <1>1, <1>2

\* The final text, and that the turn goes on, are set apart from the rest.
LEMMA FinalLocals ==
  ASSUME NEW r \in Locals, NEW b \in BOOLEAN,
         NEW final \in {"", "stopped", "limit", "error", "answer", "unverified", "loop", "budget"}
  PROVE  /\ LET q == [r EXCEPT !.final = final]
            IN  /\ q \in Locals /\ q.told = r.told /\ q.passed = r.passed /\ q.after = r.after
                /\ q.log = r.log
         /\ LET q == [r EXCEPT !.again = b]
            IN  /\ q \in Locals /\ q.told = r.told /\ q.passed = r.passed /\ q.after = r.after
                /\ q.log = r.log
BY DEF Locals

\* A counter may be increased.
LEMMA CountLocals ==
  ASSUME NEW r \in Locals
  PROVE  [r EXCEPT !.iter = @ + 1] \in Locals /\ [r EXCEPT !.used = @ + 1] \in Locals
<1>1. r.iter \in Nat /\ r.used \in Nat
  BY DEF Locals
<1>2. r.iter + 1 \in Nat /\ r.used + 1 \in Nat
  BY <1>1
<1>3. QED
  BY <1>2 DEF Locals

\* What a detector does leaves the log and the stop request as they are.
LEMMA CaughtLocals ==
  ASSUME NEW r \in Locals
  PROVE  /\ Caught(r) \in Locals /\ Caught(r).told = r.told /\ Caught(r).passed = r.passed
         /\ Caught(r).after = r.after /\ Caught(r).log = r.log
<1> DEFINE goesOn == ~r.recovered /\ r.iter < MaxIterations
           q == [r EXCEPT !.final = "loop", !.plan = <<>>, !.looped = r.iter]
<1>1. /\ q \in Locals /\ q.told = r.told /\ q.passed = r.passed /\ q.after = r.after
      /\ q.log = r.log /\ q.recovered = r.recovered
  <2>1. r.iter \in Nat
    BY DEF Locals
  <2>2. ASSUME NEW n \in Nat, NEW p \in Seq(Tools)
        PROVE  [r EXCEPT !.final = "loop", !.plan = p, !.looped = n] \in Locals
    BY DEF Locals
  <2>3. q.told = r.told /\ q.passed = r.passed /\ q.recovered = r.recovered
    BY Zenon DEF Locals
  <2>4. q.log = r.log /\ q.after = r.after
    BY DEF Locals
  <2>5. QED
    BY <2>1, <2>2, <2>3, <2>4, EmptySeq
<1>2. Caught(r) = [[q EXCEPT !.again = goesOn] EXCEPT !.recovered = q.recovered \/ goesOn]
  BY DEF Caught, Locals
<1> HIDE DEF q
<1>3. goesOn \in BOOLEAN /\ (q.recovered \/ goesOn) \in BOOLEAN
  OBVIOUS
<1> HIDE DEF goesOn
<1>4. [q EXCEPT !.again = goesOn] \in Locals
  BY <1>1, <1>3, FlagLocals
<1>5. Caught(r) \in Locals
  BY <1>2, <1>3, <1>4, FlagLocals
<1>6. QED
  BY <1>1, <1>2, <1>5 DEF Locals

\* A call begins: the log stays, and one after a stop request is counted.
LEMMA CountedLocals ==
  ASSUME NEW r \in Locals
  PROVE  /\ Counted(r) \in Locals /\ Counted(r).told = r.told /\ Counted(r).passed = r.passed
         /\ Counted(r).log = r.log /\ Counted(r).plan = r.plan
         /\ Counted(r).after = r.after \/ (r.told /\ Counted(r).after = r.after + 1)
<1>1. r.after \in Nat /\ r.after + 1 \in Nat
  <2>1. r.after \in Nat
    BY DEF Locals
  <2>2. QED
    BY <2>1
<1>2. ASSUME NEW n \in Nat
      PROVE  LET q == [r EXCEPT !.after = n]
             IN  /\ q \in Locals /\ q.told = r.told /\ q.passed = r.passed
                 /\ q.log = r.log /\ q.plan = r.plan /\ q.after = n
  BY DEF Locals
<1>3. QED
  BY <1>1, <1>2 DEF Counted

LEMMA LoopSteps ==
  ASSUME TypeOK, NEW t \in Turns,
         \/ NextRound(t) \/ NoRoundLeft(t) \/ ProviderFails(t) \/ ProviderAnswers(t)
         \/ CallsNoted(t) \/ ResultNoted(t) \/ PlanDone(t) \/ Prepared(t)
         \/ CallProvider(t)
  PROVE  \E where \in Reading : GoesOn(t, where)
<1>1. CASE NextRound(t)
  <2> DEFINE r == [run EXCEPT !.iter = @ + 1]
  <2>1. r \in Locals /\ SameStop(r) /\ r.log = run.log
    BY CountLocals DEF TypeOK, Locals, SameStop
  <2>2. IF stop THEN Loop(t, "finishing", [r EXCEPT !.final = "stopped"])
                ELSE Loop(t, "requesting", r)
    BY <1>1 DEF NextRound
  <2> HIDE DEF r
  <2>3. at[t] = "round"
    BY <1>1 DEF NextRound
  <2>4. CASE stop
    <3> DEFINE q == [r EXCEPT !.final = "stopped"]
    <3>3. q \in Locals /\ SameStop(q) /\ q.log = run.log
      BY <2>1, FinalLocals DEF SameStop
    <3>4. Loop(t, "finishing", q)
      BY <2>2, <2>4
    <3> HIDE DEF q
    <3>1. GoesOn(t, "finishing")
      BY <2>3, <3>3, <3>4, LoopGoesOn DEF Writing, Reading, InLoop
    <3>2. QED
      BY <3>1 DEF Reading
  <2>5. CASE ~stop
    <3>1. GoesOn(t, "requesting")
      BY <2>1, <2>2, <2>3, <2>5, LoopGoesOn DEF Writing, Reading, InLoop
    <3>2. QED
      BY <3>1 DEF Reading, InLoop
  <2>6. QED
    BY <2>4, <2>5
<1>2. CASE NoRoundLeft(t)
  <2>1. [run EXCEPT !.final = IF @ = "" THEN "limit" ELSE @] \in Locals
    BY DEF TypeOK, Locals
  <2>2. GoesOn(t, "finishing")
    BY <1>2, <2>1, LoopGoesOn DEF NoRoundLeft, Writing, Reading, InLoop, Locals, TypeOK, SameStop
  <2>3. QED
    BY <2>2 DEF Reading
<1>3. CASE ProviderFails(t)
  <2>1. [run EXCEPT !.final = "error"] \in Locals
    BY DEF TypeOK, Locals
  <2>2. GoesOn(t, "finishing")
    BY <1>3, <2>1, LoopGoesOn DEF ProviderFails, Writing, Reading, InLoop, Locals, TypeOK, SameStop
  <2>3. QED
    BY <2>2 DEF Reading
<1>4. CASE ProviderAnswers(t)
  <2>1. /\ [run EXCEPT !.final = "answer"] \in Locals /\ [run EXCEPT !.final = "unverified"] \in Locals
        /\ [run EXCEPT !.asked = TRUE] \in Locals
    BY DEF TypeOK, Locals
  <2>2. GoesOn(t, "finishing") \/ GoesOn(t, "round")
    BY <1>4, <2>1, LoopGoesOn DEF ProviderAnswers, Writing, Reading, InLoop, Locals, TypeOK, SameStop
  <2>3. QED
    BY <2>2 DEF Reading, InLoop
<1>5. CASE CallsNoted(t) \/ ResultNoted(t)
  <2>1. GoesOn(t, "tools")
    BY <1>5, LoopGoesOn DEF CallsNoted, ResultNoted, Writing, Reading, InLoop, TypeOK, SameStop
  <2>2. QED
    BY <2>1 DEF Reading, InLoop
<1>6. CASE PlanDone(t)
  <2>1. [run EXCEPT !.again = FALSE] \in Locals
    BY DEF TypeOK, Locals
  <2>2. GoesOn(t, "round") \/ GoesOn(t, "finishing")
    BY <1>6, <2>1, LoopGoesOn DEF PlanDone, Writing, Reading, InLoop, Locals, TypeOK, SameStop
  <2>3. QED
    BY <2>2 DEF Reading, InLoop
<1>7. CASE Prepared(t)
  <2>1. GoesOn(t, "round")
    BY <1>7 DEF Prepared, GoesOn, Reading, InLoop, Announcing, Writing, TypeOK
  <2>2. QED
    BY <2>1 DEF Reading, InLoop
<1>8. CASE CallProvider(t)
  <2>1. run \in Locals /\ at[t] = "requesting" /\ Loop(t, "asking", Counted(run))
    BY <1>8 DEF CallProvider, TypeOK
  <2>2. GoesOn(t, "asking")
    BY <2>1, CountedLocals DEF Loop, GoesOn, Reading, InLoop, Announcing, Writing
  <2>3. QED
    BY <2>2 DEF Reading, InLoop
<1>9. QED
  BY <1>1, <1>2, <1>3, <1>4, <1>5, <1>6, <1>7, <1>8

LEMMA ToolSteps ==
  ASSUME TypeOK, CallInv, NEW t \in Turns,
         \/ \E plan \in Plans : ProviderPlans(t, plan)
         \/ NextTool(t) \/ CallTool(t) \/ \E out \in {"ok", "error"} : ToolReturns(t, out)
         \/ Finish(t) \/ StreamPrepared(t) \/ StreamChunk(t) \/ StreamEnds(t)
  PROVE  \E where \in Reading : GoesOn(t, where)
<1>1. ASSUME NEW plan \in Plans, ProviderPlans(t, plan) PROVE \E where \in Reading : GoesOn(t, where)
  <2>1. CASE SamePlan(run.plans, plan)
    <3> DEFINE r == Caught(run)
    <3>1. r \in Locals /\ SameStop(r) /\ r.log = run.log
      BY CaughtLocals DEF TypeOK, SameStop
    <3>2. Loop(t, IF r.again THEN "round" ELSE "finishing", [r EXCEPT !.again = FALSE])
      BY <1>1, <2>1 DEF ProviderPlans
    <3> HIDE DEF r
    <3> DEFINE q == [r EXCEPT !.again = FALSE]
    <3>3. q \in Locals /\ SameStop(q) /\ q.log = run.log
      BY <3>1, FinalLocals DEF SameStop
    <3>6. at[t] = "asking" /\ (Loop(t, "round", q) \/ Loop(t, "finishing", q))
      BY <1>1, <3>2 DEF ProviderPlans
    <3> HIDE DEF q
    <3>4. GoesOn(t, "round") \/ GoesOn(t, "finishing")
      BY <3>3, <3>6, LoopGoesOn DEF Writing, Reading, InLoop
    <3>5. QED
      BY <3>4 DEF Reading, InLoop
  <2>2. CASE ~SamePlan(run.plans, plan)
    <3>1. plan \in Seq(Tools) /\ Append(run.plans, plan) \in Seq(Plans)
      <4>1. plan \in Seq(Tools) /\ run.plans \in Seq(Plans)
        BY TurnAssumption DEF TypeOK, Locals
      <4>2. QED
        BY <4>1, AppendProperties
    <3>2. [run EXCEPT !.plan = plan, !.plans = Append(@, plan)] \in Locals
      BY <3>1 DEF TypeOK, Locals
    <3>3. GoesOn(t, "noting")
      BY <1>1, <2>2, <3>2 DEF ProviderPlans, GoesOn, StartWrite, Writing, Reading, InLoop, Announcing, Locals, TypeOK
    <3>4. QED
      BY <3>3 DEF Reading, InLoop
  <2>3. QED
    BY <2>1, <2>2
<1>2. CASE NextTool(t)
  <2>1. ASSUME NEW final \in {"stopped", "budget"}
        PROVE  [run EXCEPT !.final = final, !.plan = <<>>] \in Locals
    <3>1. ASSUME NEW p \in Seq(Tools) PROVE [run EXCEPT !.final = final, !.plan = p] \in Locals
      BY DEF TypeOK, Locals
    <3>2. QED
      BY <3>1, EmptySeq
  <2>2. [run EXCEPT !.used = @ + 1] \in Locals
    BY CountLocals DEF TypeOK
  <2>3. Caught(run) \in Locals /\ SameStop(Caught(run)) /\ Caught(run).log = run.log
    BY CaughtLocals DEF TypeOK, SameStop
  <2>4. at[t] = "tools" /\ run.plan # <<>> /\ run \in Locals
    BY <1>2 DEF NextTool, TypeOK
  <2>6. CASE Loop(t, "announcing", [run EXCEPT !.used = @ + 1])
             /\ ~stop /\ ~Repeats(run.log, Head(run.plan))
    <3>1. GoesOn(t, "announcing")
      BY <2>2, <2>4, <2>6 DEF Loop, GoesOn, Writing, Reading, InLoop, Locals
    <3>2. QED
      BY <3>1 DEF Reading, InLoop
  <2>7. CASE \/ Loop(t, "tools", [run EXCEPT !.final = "stopped", !.plan = <<>>])
             \/ Loop(t, "tools", [run EXCEPT !.final = "budget", !.plan = <<>>])
             \/ Loop(t, "tools", Caught(run))
    <3>1. GoesOn(t, "tools")
      BY <2>1, <2>4, <2>7, <2>3, LoopGoesOn DEF Writing, Reading, InLoop, Locals, SameStop
    <3>2. QED
      BY <3>1 DEF Reading, InLoop
  <2>8. QED
    BY <1>2, <2>6, <2>7 DEF NextTool
<1>3. ASSUME NEW out \in {"ok", "error"}, ToolReturns(t, out) PROVE \E where \in Reading : GoesOn(t, where)
  <2> DEFINE log == Append(run.log, [sig |-> Head(run.plan), out |-> out])
             switch == out = "error" /\ Failures(log, Head(run.plan)) = Diagnostic
  <2>1. at[t] = "calling" /\ run \in Locals /\ run.plan # <<>>
    BY <1>3 DEF ToolReturns, TypeOK, CallInv
  <2>2. Head(run.plan) \in Tools /\ Tail(run.plan) \in Seq(Tools)
    <3>1. run.plan \in Seq(Tools) /\ run.log \in Seq(Call)
      BY <2>1 DEF Locals
    <3>2. QED
      BY <2>1, <3>1, HeadTailProperties
  <2>3. [sig |-> Head(run.plan), out |-> out] \in Call
    BY <2>2 DEF Call
  <2>4. log \in Seq(Call)
    <3>1. run.log \in Seq(Call)
      BY <2>1 DEF Locals
    <3>2. QED
      BY <2>3, <3>1, AppendProperties
  <2>5. run' = [run EXCEPT !.log = log, !.plan = IF switch THEN <<>> ELSE Tail(@)]
    BY <1>3 DEF ToolReturns
  <2>6. run'.log = Append(run.log, [sig |-> Head(run.plan), out |-> out])
    BY <2>1, <2>5 DEF Locals
  <2> HIDE DEF log, switch
  <2>7. run' \in Locals /\ run'.told = run.told /\ run'.passed = run.passed /\ run'.after = run.after
    <3>1. (IF switch THEN <<>> ELSE Tail(run.plan)) \in Seq(Tools)
      BY <2>2
    <3>2. ASSUME NEW p \in Seq(Tools) PROVE [run EXCEPT !.log = log, !.plan = p] \in Locals
      BY <2>1, <2>4 DEF Locals
    <3>3. run' \in Locals
      BY <2>5, <3>1, <3>2
    <3>4. QED
      BY <2>1, <2>5, <3>3 DEF Locals
  <2>8. GoesOn(t, "answering")
    BY <1>3, <2>1, <2>6, <2>7 DEF ToolReturns, GoesOn, StartWrite, Writing, Reading, InLoop, Announcing
  <2>9. QED
    BY <2>8 DEF Reading, InLoop
<1>4. CASE Finish(t)
  <2>1. GoesOn(t, "writing")
    BY <1>4 DEF Finish, GoesOn, StartWrite, Writing, Reading, InLoop, Announcing, TypeOK
  <2>2. QED
    BY <2>1 DEF Reading
<1>5. CASE StreamPrepared(t) \/ StreamChunk(t)
  <2>1. [run EXCEPT !.used = 1] \in Locals
    BY DEF TypeOK, Locals
  <2>2. GoesOn(t, "streaming")
    BY <1>5, <2>1 DEF StreamPrepared, StreamChunk, Loop, GoesOn, Writing, Reading, InLoop, Announcing, TypeOK, Locals
  <2>3. QED
    BY <2>2 DEF Reading
<1>6. CASE StreamEnds(t)
  <2>1. PICK final \in {"stopped", "answer", "error"} : Loop(t, "finishing", [run EXCEPT !.final = final])
    BY <1>6 DEF StreamEnds
  <2> DEFINE q == [run EXCEPT !.final = final]
  <2>4. q \in Locals /\ SameStop(q) /\ q.log = run.log
    <3>1. run \in Locals
      BY DEF TypeOK
    <3>2. final \in {"", "stopped", "limit", "error", "answer", "unverified", "loop", "budget"} /\ TRUE \in BOOLEAN
      BY <2>1
    <3>3. q \in Locals /\ q.told = run.told /\ q.passed = run.passed /\ q.after = run.after /\ q.log = run.log
      <4> HIDE <2>1
      <4>1. QED
        BY <3>1, <3>2, FinalLocals
    <3>4. QED
      BY <3>3 DEF SameStop
  <2>5. at[t] = "streaming" /\ Loop(t, "finishing", q)
    BY <1>6, <2>1 DEF StreamEnds
  <2> HIDE DEF q
  <2>2. GoesOn(t, "finishing")
    BY <2>4, <2>5, LoopGoesOn DEF Writing, Reading, InLoop
  <2>3. QED
    BY <2>2 DEF Reading
<1>7. CASE CallTool(t)
  <2>1. /\ run \in Locals /\ at[t] = "announcing" /\ Loop(t, "calling", Counted(run))
        /\ run.plan # <<>> /\ ~Repeats(run.log, Head(run.plan))
    BY <1>7 DEF CallTool, TypeOK, CallInv
  <2>2. GoesOn(t, "calling")
    BY <2>1, CountedLocals DEF Loop, GoesOn, Reading, InLoop, Announcing, Writing
  <2>3. QED
    BY <2>2 DEF Reading, InLoop
<1>8. QED
  BY <1>1, <1>2, <1>3, <1>4, <1>5, <1>6, <1>7

-------------------------------------------------------------------------------
(* The other steps.                                                            *)

\* A turn gives the lock back or waits no longer: it raises, is cancelled, falls back or ends.
Releases(t, where) ==
  /\ where \in {"closing", "done", "refused"}
  /\ where = "refused" => at[t] \in {"preparing", "streaming"}
  /\ at[t] \in Held \union {"waiting", "refused"}
  /\ queue' = RemoveFirst(queue, t) /\ Goto(t, where) /\ UNCHANGED <<full, rows>>
  /\ \/ run' = Fresh /\ at[t] \in Held
     \/ run' = Fresh /\ at[t] = "waiting" /\ Holds(t)
     \/ run' = run /\ stop' = stop
  /\ stop' \in BOOLEAN
  /\ \/ memory' = memory
     \/ at[t] \in Held /\ memory' = [memory EXCEPT ![t] = "pending"]
  /\ writing' \subseteq writing
  /\ t \in writing' => Impatient

\* A turn is cancelled while a thread writes its rows.
Unwinds(t) ==
  /\ at[t] \in Writing /\ t \in writing
  /\ Goto(t, "unwinding") /\ run' = Fresh
  /\ UNCHANGED <<full, queue, writing, rows, memory, stop>>

\* The write of a cancelled turn raises.
Loses(t) ==
  /\ t \in writing /\ writing' = writing \ {t}
  /\ UNCHANGED <<at, full, queue, run, rows, memory, stop>>

Kind(t) ==
  \/ \E where \in Reading : GoesOn(t, where)
  \/ \E where \in Places : Releases(t, where)
  \/ Ask(t) \/ Enter(t) \/ Unwinds(t) \/ CloseStream(t)
  \/ Land(t) \/ Loses(t) \/ Remember(t)

LEMMA LeaveReleases ==
  ASSUME TurnInv, NEW t \in Turns, Leave(t), at[t] \in Held \union {"waiting", "refused"},
         UNCHANGED <<full, rows>>, stop' \in BOOLEAN, at[t] \in Held \/ stop' = stop,
         \/ memory' = memory
         \/ at[t] \in Held /\ memory' = [memory EXCEPT ![t] = "pending"],
         writing' \subseteq writing, t \in writing' => Impatient
  PROVE  Kind(t)
<1> DEFINE where == IF t \in Streams THEN "closing" ELSE "done"
<1>1. where \in {"closing", "done"} /\ Goto(t, where)
  BY DEF Leave, Goto
<1>2. at[t] \in Held => Holds(t)
  BY DEF TurnInv, LockInv
<1>3. \/ run' = Fresh /\ at[t] \in Held
      \/ run' = Fresh /\ at[t] = "waiting" /\ Holds(t)
      \/ run' = run /\ stop' = stop
  <2>1. at[t] = "refused" => ~Holds(t)
    BY DEF TurnInv, LockInv, Holds, TypeOK, Held, Reading, InLoop
  <2>2. QED
    BY <1>2, <2>1 DEF Leave
<1> HIDE DEF where
<1>4. Releases(t, where)
  BY <1>1, <1>3 DEF Releases, Leave
<1>5. QED
  BY <1>1, <1>4 DEF Kind, Places

LEMMA ReleaseSteps ==
  ASSUME TurnInv, NEW t \in Turns,
         LandFails(t) \/ Raises(t) \/ Cancel(t) \/ Unwound(t) \/ EndTurn(t) \/ Fallback(t)
  PROVE  Kind(t)
<1>1. TypeOK /\ (t \in writing => at[t] \in Writing \union {"unwinding"} \/ (Impatient /\ at[t] \in {"closing", "done"}))
  <2>1. TypeOK /\ WritersInv
    BY DEF TurnInv
  <2>2. t \in writing => at[t] \in Writing \union {"unwinding"} \/ (Impatient /\ at[t] \in {"closing", "done"})
    BY <2>1 DEF WritersInv
  <2>3. QED
    BY <2>1, <2>2
<1> USE DEF Writing, Held, Reading, InLoop
<1>2. CASE LandFails(t)
  <2>1. CASE at[t] \in Writing
    BY <1>1, <1>2, <2>1, LeaveReleases DEF LandFails, TypeOK
  <2>2. CASE at[t] \notin Writing
    BY <1>2, <2>2 DEF LandFails, Kind, Loses
  <2>3. QED
    BY <2>1, <2>2
<1>3. CASE Raises(t)
  BY <1>1, <1>3, LeaveReleases DEF Raises, TypeOK
<1>4. CASE Cancel(t)
  <2>1. CASE t \in writing /\ at[t] # "unwinding"
    BY <1>1, <1>4, <2>1 DEF Cancel, Kind, Unwinds
  <2>2. CASE ~(t \in writing /\ at[t] # "unwinding")
    BY <1>1, <1>4, <2>2, LeaveReleases DEF Cancel, TypeOK
  <2>3. QED
    BY <2>1, <2>2
<1>5. CASE Unwound(t)
  BY <1>1, <1>5, LeaveReleases DEF Unwound, TypeOK
<1>6. CASE EndTurn(t)
  BY <1>1, <1>6, LeaveReleases DEF EndTurn, TypeOK
<1>7. CASE Fallback(t)
  <2>1. Releases(t, "refused")
    BY <1>1, <1>7 DEF Fallback, Releases, TypeOK
  <2>2. QED
    BY <2>1 DEF Kind, Places
<1>8. QED
  BY <1>2, <1>3, <1>4, <1>5, <1>6, <1>7

\* Every step of a turn is of one of the kinds.
LEMMA StepKinds ==
  ASSUME TurnInv, Next
  PROVE  RequestStop \/ \E t \in Turns : Kind(t)
<1>1. TypeOK /\ CallInv
  BY DEF TurnInv
<1>2. ASSUME NEW t \in Turns,
             Step(t) \/ Ask(t) \/ LandFails(t) \/ Raises(t) \/ Cancel(t) \/ Fallback(t) \/ StreamChunk(t)
      PROVE  Kind(t)
  <2>1. CASE \/ NextRound(t) \/ NoRoundLeft(t) \/ ProviderFails(t) \/ ProviderAnswers(t)
             \/ CallsNoted(t) \/ ResultNoted(t) \/ PlanDone(t) \/ Prepared(t) \/ CallProvider(t)
    BY <1>1, <2>1, LoopSteps DEF Kind
  <2>2. CASE \/ \E plan \in Plans : ProviderPlans(t, plan)
             \/ NextTool(t) \/ CallTool(t) \/ \E out \in {"ok", "error"} : ToolReturns(t, out)
             \/ Finish(t) \/ StreamPrepared(t) \/ StreamChunk(t) \/ StreamEnds(t)
    BY <1>1, <2>2, ToolSteps DEF Kind
  <2>3. CASE LandFails(t) \/ Raises(t) \/ Cancel(t) \/ Unwound(t) \/ EndTurn(t) \/ Fallback(t)
    BY <2>3, ReleaseSteps
  <2>4. CASE Ask(t) \/ Enter(t) \/ CloseStream(t) \/ Land(t) \/ Remember(t)
    BY <2>4 DEF Kind
  <2>5. QED
    BY <1>2, <2>1, <2>2, <2>3, <2>4 DEF Step
<1>3. QED
  BY <1>2 DEF Next

-------------------------------------------------------------------------------
(* What each kind of step keeps.                                               *)

LEMMA FreshLocals == Fresh \in Locals /\ ~Fresh.told /\ Fresh.after = 0 /\ Fresh.log = <<>>
<1>1. ASSUME NEW p \in Seq(Tools), NEW l \in Seq(Call), NEW q \in Seq(Plans)
      PROVE  [iter |-> 0, used |-> 0, plan |-> p, final |-> "", recovered |-> FALSE,
              again |-> FALSE, asked |-> FALSE, log |-> l, plans |-> q,
              told |-> FALSE, passed |-> FALSE, after |-> 0, looped |-> 0] \in Locals
  BY DEF Locals
<1>2. Fresh \in Locals
  BY <1>1, EmptySeq DEF Fresh
<1>3. ~Fresh.told /\ Fresh.after = 0 /\ Fresh.log = <<>>
  BY DEF Fresh
<1>4. QED
  BY <1>2, <1>3

LEMMA KeepsTypes ==
  ASSUME TurnInv, NEW t \in Turns, Kind(t)
  PROVE  TypeOK'
<1>1. TypeOK /\ LockInv
  BY DEF TurnInv
<1> USE DEF Places, Held, Writing, Reading, InLoop
<1>2. ASSUME NEW where \in Reading, GoesOn(t, where) PROVE TypeOK'
  BY <1>1, <1>2 DEF GoesOn, Goto, TypeOK
<1>3. ASSUME NEW where \in Places, Releases(t, where) PROVE TypeOK'
  <2>1. queue' \in Seq(Turns)
    BY <1>1, <1>3, LeaveKeepsLock DEF Releases
  <2>2. run' \in Locals
    BY <1>1, <1>3, FreshLocals DEF Releases, TypeOK
  <2>3. memory' \in [Turns -> {"none", "pending", "settled"}]
    BY <1>1, <1>3 DEF Releases, TypeOK
  <2>4. at' \in [Turns -> Places] /\ writing' \subseteq Turns
    <3> HIDE DEF Places, Held, Writing, Reading, InLoop
    <3>1. at' = [at EXCEPT ![t] = where]
      BY <1>3 DEF Releases, Goto
    <3>3. writing' \subseteq writing
      BY <1>3 DEF Releases
    <3>2. QED
      BY <1>1, <3>1, <3>3 DEF TypeOK
  <2>5. QED
    BY <1>1, <1>3, <2>1, <2>2, <2>3, <2>4 DEF Releases, TypeOK
<1>4. CASE Ask(t)
  <2>1. queue' \in Seq(Turns)
    BY <1>1, <1>4, AppendProperties DEF Ask, TypeOK
  <2>2. QED
    BY <1>1, <1>4, <2>1 DEF Ask, Goto, TypeOK
<1>5. CASE Enter(t) \/ Unwinds(t)
  BY <1>1, <1>5, FreshLocals DEF Enter, Unwinds, Goto, TypeOK
<1>6. CASE CloseStream(t)
  <2>1. run' \in Locals
    <3>1. run \in Locals /\ run' = [run EXCEPT !.told = FALSE, !.passed = FALSE, !.after = 0]
      BY <1>1, <1>6 DEF CloseStream, TypeOK
    <3>2. QED
      BY <3>1 DEF Locals
  <2>2. QED
    BY <1>1, <1>6, <2>1 DEF CloseStream, Goto, TypeOK
<1>7. CASE Land(t)
  <2>1. rows' \in Seq(Turns)
    BY <1>1, <1>7, AppendProperties DEF Land, TypeOK
  <2>2. QED
    BY <1>1, <1>7, <2>1 DEF Land, TypeOK
<1>8. CASE Loses(t) \/ Remember(t)
  BY <1>1, <1>8 DEF Loses, Remember, TypeOK
<1>9. QED
  BY <1>2, <1>3, <1>4, <1>5, <1>6, <1>7, <1>8 DEF Kind

LEMMA KeepsLock ==
  ASSUME TurnInv, NEW t \in Turns, Kind(t)
  PROVE  LockInv'
<1>1. TypeOK /\ LockInv /\ (at[t] \in Held => Holds(t))
  BY DEF TurnInv, LockInv
<1>2. ASSUME NEW where \in Reading, GoesOn(t, where) PROVE LockInv'
  BY <1>1, <1>2, MoveKeepsLock DEF GoesOn, Held, Places, Reading, InLoop
<1>3. ASSUME NEW where \in Places, Releases(t, where) PROVE LockInv'
  BY <1>1, <1>3, LeaveKeepsLock DEF Releases
<1>4. CASE Ask(t)
  <2>1. /\ queue \in Seq(Turns) /\ queue' = Append(queue, t) /\ at[t] \notin Held \union {"waiting"}
        /\ \A u \in Turns : at'[u] = IF u = t THEN "waiting" ELSE at[u]
    BY <1>1, <1>4 DEF Ask, Goto, TypeOK, Held, Reading, InLoop
  <2>2. /\ queue' # <<>> /\ Len(queue) \in Nat /\ DOMAIN queue = 1..Len(queue)
        /\ DOMAIN queue' = 1..(Len(queue) + 1)
        /\ \A i \in 1..Len(queue) : queue'[i] = queue[i] /\ queue[i] \in Turns
        /\ queue'[Len(queue) + 1] = t
    BY <2>1, AppendProperties
  <2>3. \A i \in 1..Len(queue) : queue[i] # t
    BY <1>1, <2>1, <2>2 DEF LockInv
  <2>4. \A i, j \in DOMAIN queue' : queue'[i] = queue'[j] => i = j
    BY <1>1, <2>2, <2>3 DEF LockInv
  <2>5. \A i \in DOMAIN queue' : at'[queue'[i]] \in Held \union {"waiting"}
    BY <1>1, <2>1, <2>2, <2>3 DEF LockInv
  <2>6. ASSUME NEW u \in Turns, at'[u] \in Held PROVE Holds(u)'
    <3>1. at[u] \in Held
      BY <2>1, <2>6 DEF Held, Reading, InLoop
    <3>2. queue # <<>> /\ Head(queue) = u
      BY <1>1, <3>1 DEF LockInv, Holds
    <3>3. Head(queue') = Head(queue)
      BY <2>1, <3>2, HeadTailAppend
    <3>4. QED
      BY <2>2, <3>2, <3>3 DEF Holds
  <2>7. QED
    BY <2>4, <2>5, <2>6 DEF LockInv
<1>5. CASE Enter(t)
  BY <1>1, <1>5, MoveKeepsLock DEF Enter, Held, Places
<1>6. CASE Unwinds(t)
  BY <1>1, <1>6, MoveKeepsLock DEF Unwinds, Held, Places, Writing, Reading, InLoop
<1>7. CASE CloseStream(t)
  BY <1>1, <1>7, MoveKeepsLock DEF CloseStream, Held, Places, Reading, InLoop
<1>8. CASE Land(t) \/ Loses(t) \/ Remember(t)
  BY <1>1, <1>8 DEF Land, Loses, Remember, LockInv, Holds
<1>9. QED
  BY <1>2, <1>3, <1>4, <1>5, <1>6, <1>7, <1>8 DEF Kind

\* The thread, the stop request and the memory.
LEMMA KeepsOthers ==
  ASSUME TurnInv, NEW t \in Turns, Kind(t), TypeOK', LockInv'
  PROVE  WritersInv' /\ StopInv' /\ HistoryComplete'
<1>1. TypeOK /\ LockInv /\ WritersInv /\ StopInv /\ HistoryComplete
  BY DEF TurnInv
<1>2. ASSUME NEW where \in Reading, GoesOn(t, where)
      PROVE  WritersInv' /\ StopInv' /\ HistoryComplete'
  <2>1. \A u \in Turns : at'[u] = IF u = t THEN where ELSE at[u]
    BY <1>1, <1>2 DEF GoesOn, Goto, TypeOK
  <2>2. WritersInv'
    BY <1>1, <1>2, <2>1 DEF GoesOn, WritersInv, TypeOK, Writing, Reading, InLoop
  <2>3. StopInv'
    <3>1. \A u \in Turns : at[u] \in Announcing => u = t
      BY <1>1, <1>2, OneHolds DEF GoesOn, Held, Reading, InLoop, Announcing
    <3>2. (run.told => stop)' /\ StopObeyed'
      <4>1. (run.told => stop)' /\ run'.passed = run.passed
        BY <1>1, <1>2 DEF GoesOn, StopInv
      <4>2. CASE run'.after = run.after
        BY <1>1, <4>1, <4>2 DEF StopInv, StopObeyed
      <4>3. CASE at[t] \in Announcing /\ run.told /\ run'.after = run.after + 1
        <5>1. run.passed /\ run.after = 0
          BY <1>1, <4>3 DEF StopInv
        <5>2. QED
          BY <4>1, <4>3, <5>1 DEF StopObeyed
      <4>4. QED
        BY <1>2, <4>1, <4>2, <4>3 DEF GoesOn
    <3>3. ASSUME NEW u \in Turns, at'[u] \in Announcing, run'.told
          PROVE  run'.passed /\ run'.after = 0
      BY <1>1, <1>2, <2>1, <3>1, <3>3 DEF GoesOn, StopInv
    <3>4. QED
      BY <3>2, <3>3 DEF StopInv
  <2>4. HistoryComplete'
    BY <1>1, <1>2, <2>1 DEF GoesOn, HistoryComplete
  <2>5. QED
    BY <2>2, <2>3, <2>4
<1>3. ASSUME NEW where \in Places, Releases(t, where)
      PROVE  WritersInv' /\ StopInv' /\ HistoryComplete'
  <2>1. /\ \A u \in Turns : at'[u] = IF u = t THEN where ELSE at[u]
        /\ where \in {"closing", "done", "refused"}
    BY <1>1, <1>3 DEF Releases, Goto, TypeOK
  <2>2. WritersInv'
    <3>1. t \in writing => at[t] \notin {"preparing", "streaming"}
      BY <1>1 DEF WritersInv, Writing
    <3>2. writing' \subseteq writing /\ (t \in writing' => Impatient)
      BY <1>3 DEF Releases
    <3>3. t \in writing' => at[t] \in Writing \union {"unwinding", "closing", "done"}
      BY <1>1, <3>2 DEF WritersInv
    <3>4. t \in writing' => where \in {"closing", "done"}
      BY <1>3, <3>3 DEF Releases, Writing
    <3>5. QED
      BY <1>1, <2>1, <3>2, <3>4 DEF WritersInv, TypeOK
  <2>3. StopInv'
    BY <1>1, <1>3, <2>1, FreshLocals DEF Releases, StopInv, StopObeyed, Announcing
  <2>4. ASSUME NEW u \in Turns, NEW v \in Turns, at'[u] \in Reading PROVE memory'[v] # "pending"
    <3>1. u # t /\ at[u] \in Reading
      BY <2>1, <2>4 DEF Reading, InLoop
    <3>2. at[t] \notin Held
      BY <1>1, <3>1, OneHolds DEF Held
    <3>3. memory' = memory
      BY <1>3, <3>2 DEF Releases
    <3>4. QED
      BY <1>1, <3>1, <3>3 DEF HistoryComplete
  <2>5. QED
    BY <2>2, <2>3, <2>4 DEF HistoryComplete
<1>4. CASE Ask(t) \/ Enter(t) \/ Unwinds(t) \/ CloseStream(t)
  <2>1. PICK where \in {"waiting", "preparing", "unwinding", "done"} :
          /\ \A u \in Turns : at'[u] = IF u = t THEN where ELSE at[u]
          /\ where = "unwinding" \/ at[t] \in {"new", "refused", "waiting", "closing"}
          /\ where = "done" <=> at[t] = "closing"
    BY <1>1, <1>4 DEF Ask, Enter, Unwinds, CloseStream, Goto, TypeOK, Writing
  <2>2. WritersInv'
    BY <1>1, <1>4, <2>1 DEF Ask, Enter, Unwinds, CloseStream, WritersInv, TypeOK, Writing
  <2>3. StopInv'
    <3>1. CASE CloseStream(t)
      <4>1. run \in Locals /\ run' = [run EXCEPT !.told = FALSE, !.passed = FALSE, !.after = 0]
        BY <1>1, <3>1 DEF CloseStream, TypeOK
      <4>2. run'.told = FALSE /\ run'.after = 0
        BY <4>1 DEF Locals
      <4>3. StopObeyed'
        BY <4>2 DEF StopObeyed
      <4>4. QED
        BY <4>2, <4>3 DEF StopInv
    <3>2. CASE Ask(t) \/ Enter(t) \/ Unwinds(t)
      BY <1>1, <2>1, <3>2, FreshLocals DEF Ask, Enter, Unwinds, StopInv, StopObeyed, Announcing
    <3>3. QED
      BY <1>4, <3>1, <3>2
  <2>4. HistoryComplete'
    BY <1>1, <1>4, <2>1 DEF Ask, Enter, Unwinds, CloseStream, HistoryComplete, Reading, InLoop
  <2>5. QED
    BY <2>2, <2>3, <2>4
<1>5. CASE Land(t) \/ Loses(t) \/ Remember(t)
  <2>1. WritersInv' /\ StopInv'
    BY <1>1, <1>5 DEF Land, Loses, Remember, WritersInv, StopInv, StopObeyed
  <2>2. HistoryComplete'
    BY <1>1, <1>5 DEF Land, Loses, Remember, HistoryComplete, TypeOK
  <2>3. QED
    BY <2>1, <2>2
<1>6. QED
  BY <1>2, <1>3, <1>4, <1>5 DEF Kind

\* The places a detector looks at are finitely many.
LEMMA SamePlaces ==
  ASSUME NEW log \in Seq(Call), NEW sig
  PROVE  Same(log, sig) \subseteq 1..Len(log) /\ IsFiniteSet(Same(log, sig))
<1>1. Same(log, sig) \subseteq 1..Len(log)
  BY DEF Same
<1>2. IsFiniteSet(1..Len(log))
  BY FS_Interval
<1>3. QED
  BY <1>1, <1>2, FS_Subset

\* A latest that the detector of repeats lets through is not the last of a loop.
LEMMA CallIsNoLoop ==
  ASSUME NEW log \in Seq(Call), NEW latest \in Call, ~Repeats(log, latest.sig),
         NEW new, new = Append(log, latest),
         NEW same, same = {i \in (Len(new) - HistorySize)..Len(new) :
                             i \in DOMAIN new /\ new[i].sig = latest.sig},
         Cardinality(same) > Repeat
  PROVE  \E i, j \in same : new[i].out # new[j].out
<1> DEFINE old == Same(log, latest.sig)
           n == Len(log)
<1>1. /\ n \in Nat /\ DOMAIN log = 1..n /\ Len(new) = n + 1 /\ DOMAIN new = 1..(n + 1)
      /\ \A i \in 1..n : new[i] = log[i]
      /\ new[n + 1] = latest
  BY AppendProperties
<1>2. HistorySize \in Nat \ {0} /\ Repeat \in Nat \ {0}
  BY TurnAssumption
<1>3. \A i \in 1..n : i \in old <=> i >= n + 1 - HistorySize /\ log[i].sig = latest.sig
  BY <1>1, <1>2 DEF Same
<1>4. IsFiniteSet(old) /\ old \subseteq 1..n
  BY SamePlaces
<1> HIDE DEF old, n
<1>5. same = old \union {n + 1} /\ n + 1 \notin old
  <2>1. ASSUME NEW i \in same PROVE i \in old \union {n + 1}
    BY <1>1, <1>2, <1>3, <2>1
  <2>2. n + 1 \in same
    BY <1>1, <1>2
  <2>3. ASSUME NEW i \in old PROVE i \in same
    BY <1>1, <1>2, <1>3, <1>4, <2>3
  <2>4. same \subseteq old \union {n + 1} /\ old \union {n + 1} \subseteq same
    BY <2>1, <2>2, <2>3
  <2>5. n + 1 \notin old
    BY <1>1, <1>4
  <2>6. QED
    BY <2>4, <2>5
<1>6. Cardinality(same) = Cardinality(old) + 1 /\ Cardinality(old) \in Nat
  BY <1>4, <1>5, FS_AddElement, FS_CardinalityType
<1>7. Cardinality(old) >= Repeat
  <2>1. Cardinality(same) > Repeat
    OBVIOUS
  <2>2. QED
    BY ONLY <1>2, <1>6, <2>1
<1>8. PICK i, j \in Latest(old) : log[i].out # log[j].out
  BY <1>7 DEF Repeats, old
<1>9. i \in old /\ j \in old
  BY DEF Latest
<1>10. QED
  BY <1>1, <1>4, <1>5, <1>8, <1>9

\* The calls of a turn: who is called was let through, and so was who answers.
LEMMA KeepsCalls ==
  ASSUME TurnInv, NEW t \in Turns, Kind(t), LockInv'
  PROVE  CallInv' /\ LoopCaught'
<1>1. TypeOK /\ LockInv /\ CallInv /\ LoopCaught
  BY DEF TurnInv
<1>2. ASSUME NEW where \in Reading, GoesOn(t, where) PROVE CallInv' /\ LoopCaught'
  <2>1. \A u \in Turns : at'[u] = IF u = t THEN where ELSE at[u]
    BY <1>1, <1>2 DEF GoesOn, Goto, TypeOK
  <2>2. \A u \in Turns : u # t => at[u] \notin {"announcing", "calling"}
    <3>1. at[t] \in Held
      BY <1>2 DEF GoesOn, Held
    <3>2. QED
      BY <1>1, <3>1, OneHolds DEF Held, Reading, InLoop
  <2>3. CallInv'
    BY <1>2, <2>1, <2>2 DEF GoesOn, CallInv
  <2>4. ASSUME run'.log = run.log PROVE LoopCaught'
    BY <1>1, <2>4 DEF LoopCaught
  <2>5. ASSUME NEW out \in {"ok", "error"}, at[t] = "calling",
               run'.log = Append(run.log, [sig |-> Head(run.plan), out |-> out])
        PROVE  LoopCaught'
    <3> DEFINE latest == [sig |-> Head(run.plan), out |-> out]
               log == run.log
               new == run'.log
               n == Len(run.log)
    <3>1. run.plan # <<>> /\ ~Repeats(log, latest.sig)
      BY <1>1, <2>5 DEF CallInv
    <3>2. log \in Seq(Call) /\ run.plan \in Seq(Tools)
      BY <1>1 DEF TypeOK, Locals
    <3>3. latest \in Call
      BY <3>1, <3>2, HeadTailProperties DEF Call
    <3>4. new = Append(log, latest)
      BY <2>5
    <3> HIDE DEF latest, new
    <3>5. /\ n \in Nat /\ DOMAIN log = 1..n /\ Len(new) = n + 1 /\ DOMAIN new = 1..(n + 1)
          /\ \A i \in 1..n : new[i] = log[i]
          /\ new[n + 1] = latest
      BY <3>2, <3>3, <3>4, AppendProperties
    <3> DEFINE same(l, last) == {i \in (last - HistorySize)..last :
                                   i \in DOMAIN l /\ l[i].sig = l[last].sig}
    <3>6. ASSUME NEW last \in 1..n, Cardinality(same(new, last)) > Repeat
          PROVE  \E i, j \in same(new, last) : new[i].out # new[j].out
      <4>1. same(new, last) = same(log, last)
        <5>1. ASSUME NEW i \in (last - HistorySize)..last
              PROVE  (i \in DOMAIN new /\ new[i].sig = new[last].sig)
                        <=> (i \in DOMAIN log /\ log[i].sig = log[last].sig)
          BY <3>5, TurnAssumption
        <5>2. QED
          BY <5>1
      <4>2. \E i, j \in same(log, last) : log[i].out # log[j].out
        BY <1>1, <3>5, <3>6, <4>1 DEF LoopCaught
      <4>3. QED
        BY <3>5, <4>1, <4>2
    <3>7. ASSUME Cardinality(same(new, n + 1)) > Repeat
          PROVE  \E i, j \in same(new, n + 1) : new[i].out # new[j].out
      <4>1. same(new, n + 1) = {i \in (Len(new) - HistorySize)..Len(new) :
                                  i \in DOMAIN new /\ new[i].sig = latest.sig}
        BY <3>5
      <4> HIDE DEF same
      <4>2. QED
        <5> DEFINE last == same(new, n + 1)
        <5>1. last = {i \in (Len(new) - HistorySize)..Len(new) : i \in DOMAIN new /\ new[i].sig = latest.sig}
          BY <4>1
        <5>2. Cardinality(last) > Repeat
          BY <3>7
        <5> HIDE DEF last, new, log, latest
        <5>3. \E i, j \in last : new[i].out # new[j].out
          BY SMTT(30), <3>1, <3>2, <3>3, <3>4, <5>1, <5>2, CallIsNoLoop
        <5>4. QED
          BY <5>3 DEF last
    <3> HIDE DEF same, n
    <3>8. \A last \in DOMAIN new : Cardinality(same(new, last)) > Repeat =>
             \E i, j \in same(new, last) : new[i].out # new[j].out
      BY <3>5, <3>6, <3>7
    <3>9. QED
      BY <3>8 DEF LoopCaught, new, same
  <2>6. QED
    BY <1>2, <2>3, <2>4, <2>5 DEF GoesOn
<1>3. ASSUME NEW where \in Places, Releases(t, where) PROVE CallInv' /\ LoopCaught'
  <2>1. /\ \A u \in Turns : at'[u] = IF u = t THEN where ELSE at[u]
        /\ where \in {"closing", "done", "refused"}
    BY <1>1, <1>3 DEF Releases, Goto, TypeOK
  <2>2. CASE run' = run
    <3>1. LoopCaught'
      BY <1>1, <2>2 DEF LoopCaught
    <3>2. CallInv'
      BY <1>1, <2>1, <2>2 DEF CallInv
    <3>3. QED
      BY <3>1, <3>2
  <2>3. CASE run' = Fresh /\ Holds(t)
    <3>1. \A u \in Turns : at'[u] \notin {"announcing", "calling"}
      BY <1>1, <2>1, <2>3 DEF LockInv, Holds, Held, Reading, InLoop
    <3>2. LoopCaught'
      BY <2>3, FreshLocals DEF LoopCaught
    <3>3. QED
      BY <3>1, <3>2 DEF CallInv
  <2>4. QED
    BY <1>1, <1>3, <2>2, <2>3 DEF Releases, LockInv
<1>4. CASE Ask(t) \/ Enter(t)
  <2>1. \A u \in Turns : at'[u] \in {"announcing", "calling"} => at'[u] = at[u]
    BY <1>1, <1>4 DEF Ask, Enter, Goto, TypeOK
  <2>2. QED
    <3>1. run' = run
      BY <1>4 DEF Ask, Enter
    <3>2. LoopCaught'
      BY <1>1, <3>1 DEF LoopCaught
    <3>3. CallInv'
      BY <1>1, <2>1, <3>1 DEF CallInv
    <3>4. QED
      BY <3>2, <3>3
<1>5. CASE Unwinds(t)
  <2>1. \A u \in Turns : at'[u] \notin {"announcing", "calling"}
    <3>1. at[t] \in Held /\ \A u \in Turns : at'[u] = IF u = t THEN "unwinding" ELSE at[u]
      BY <1>1, <1>5 DEF Unwinds, Goto, TypeOK, Held, Writing, Reading, InLoop
    <3>2. QED
      BY <1>1, <3>1, OneHolds DEF Held, Reading, InLoop
  <2>2. LoopCaught'
    BY <1>5, FreshLocals DEF Unwinds, LoopCaught
  <2>3. QED
    BY <2>1, <2>2 DEF CallInv
<1>6. CASE CloseStream(t)
  <2>1. run'.log = run.log /\ run'.plan = run.plan
    BY <1>1, <1>6 DEF CloseStream, TypeOK, Locals
  <2>2. \A u \in Turns : at'[u] \in {"announcing", "calling"} => at'[u] = at[u]
    BY <1>1, <1>6 DEF CloseStream, Goto, TypeOK
  <2>3. QED
    <3>1. LoopCaught'
      BY <1>1, <2>1 DEF LoopCaught
    <3>2. CallInv'
      BY <1>1, <2>1, <2>2 DEF CallInv
    <3>3. QED
      BY <3>1, <3>2
<1>7. CASE Land(t) \/ Loses(t) \/ Remember(t)
  <2>1. at' = at /\ run' = run
    BY <1>7 DEF Land, Loses, Remember
  <2>2. QED
    BY <1>1, <2>1 DEF CallInv, LoopCaught
<1>8. QED
  BY <1>2, <1>3, <1>4, <1>5, <1>6, <1>7 DEF Kind

\* The transcript: only the turn that holds the lock adds to it.
LEMMA KeepsRows ==
  ASSUME TurnInv, ~Impatient, NEW t \in Turns, Kind(t), TypeOK', LockInv'
  PROVE  RowsInv' /\ RowsContiguous'
<1>1. TypeOK /\ LockInv /\ WritersInv /\ RowsInv /\ RowsContiguous
  BY DEF TurnInv
<1>2. /\ Len(rows) \in Nat /\ DOMAIN rows = 1..Len(rows)
      /\ \A i \in 1..Len(rows) : rows[i] \in Turns
  BY <1>1 DEF TypeOK
<1> DEFINE Early == {"new", "waiting", "preparing", "refused", "streaming"}
<1>3. ASSUME rows' = rows, NEW where \in Places,
             \A u \in Turns : at'[u] = IF u = t THEN where ELSE at[u],
             where \in Early => at[t] \in Early,
             where \in Held => at[t] \in Held \union Early
      PROVE  RowsInv' /\ RowsContiguous'
  BY <1>1, <1>2, <1>3 DEF RowsInv, RowsContiguous
<1>4. ASSUME NEW where \in Reading, GoesOn(t, where) PROVE RowsInv' /\ RowsContiguous'
  <2>1. \A u \in Turns : at'[u] = IF u = t THEN where ELSE at[u]
    BY <1>1, <1>4 DEF GoesOn, Goto, TypeOK
  <2>2. /\ rows' = rows /\ at[t] \in Held /\ where \in Places
        /\ where \in Early => at[t] \in Early
    BY <1>4 DEF GoesOn, Held, Places, Reading, InLoop
  <2>3. QED
    BY <1>3, <2>1, <2>2
<1>5. ASSUME NEW where \in Places, Releases(t, where) PROVE RowsInv' /\ RowsContiguous'
  <2>1. \A u \in Turns : at'[u] = IF u = t THEN where ELSE at[u]
    BY <1>1, <1>5 DEF Releases, Goto, TypeOK
  <2>2. /\ rows' = rows /\ where \notin Held
        /\ where \in Early => at[t] \in Early
    BY <1>5 DEF Releases, Held, Reading, InLoop
  <2>3. QED
    BY <1>3, <2>1, <2>2
<1>6. CASE Ask(t) \/ Enter(t) \/ Unwinds(t) \/ CloseStream(t)
  <2>1. PICK where \in {"waiting", "preparing", "unwinding", "done"} :
          /\ \A u \in Turns : at'[u] = IF u = t THEN where ELSE at[u]
          /\ \/ at[t] \in Early
             \/ where = "unwinding" /\ at[t] \in Writing
             \/ where = "done"
    BY <1>1, <1>6 DEF Ask, Enter, Unwinds, CloseStream, Goto, TypeOK
  <2>2. rows' = rows
    BY <1>6 DEF Ask, Enter, Unwinds, CloseStream
  <2>3. where \in Places /\ "done" \notin Held /\ Writing \subseteq Held
    BY DEF Places, Held, Writing, Reading, InLoop
  <2>4. QED
    BY <1>3, <2>1, <2>2, <2>3
<1>7. CASE Land(t)
  <2>1. /\ at' = at /\ t \in writing
        /\ rows' = IF rows # <<>> /\ Last(rows) = t THEN rows ELSE Append(rows, t)
    BY <1>7 DEF Land
  <2>2. at[t] \in Held /\ at[t] \notin Early
    BY <1>1, <2>1 DEF WritersInv, Writing, Held, Reading, InLoop
  <2>3. CASE rows' = rows
    BY <1>1, <2>1, <2>3 DEF RowsInv, RowsContiguous
  <2>4. CASE rows' = Append(rows, t) /\ ~(rows # <<>> /\ Last(rows) = t)
    <3>1. /\ DOMAIN rows' = 1..(Len(rows) + 1) /\ Len(rows') = Len(rows) + 1
          /\ \A i \in 1..Len(rows) : rows'[i] = rows[i]
          /\ rows'[Len(rows) + 1] = t
      BY <1>1, <2>4, AppendProperties DEF TypeOK
    <3>2. ASSUME NEW i \in 1..Len(rows) PROVE rows[i] # t
      <4>1. rows[i] = t => i = Len(rows)
        BY <1>1, <1>2, <2>2 DEF RowsInv
      <4>2. rows # <<>>
        BY <1>2
      <4>3. QED
        BY <2>4, <4>1, <4>2 DEF Last
    <3>3. ASSUME NEW i \in 1..Len(rows) PROVE at[rows[i]] \notin Held
      BY <1>1, <1>2, <2>2, <3>2, OneHolds
    <3>4. RowsInv'
      BY <1>1, <1>2, <2>1, <2>2, <3>1, <3>3 DEF RowsInv
    <3>5. RowsContiguous'
      BY <1>1, <1>2, <3>1, <3>2 DEF RowsContiguous
    <3>6. QED
      BY <3>4, <3>5
  <2>5. QED
    BY <2>1, <2>3, <2>4
<1>8. CASE Loses(t) \/ Remember(t)
  BY <1>1, <1>8 DEF Loses, Remember, RowsInv, RowsContiguous
<1>9. QED
  BY <1>4, <1>5, <1>6, <1>7, <1>8 DEF Kind

-------------------------------------------------------------------------------
(* The theorems.                                                               *)

LEMMA TurnInit == Init => TurnInv
<1> SUFFICES ASSUME Init PROVE TurnInv
  OBVIOUS
<1>1. TypeOK
  <2>1. <<>> \in Seq(Turns) /\ run \in Locals
    BY EmptySeq, FreshLocals DEF Init
  <2>2. QED
    BY <2>1, TurnAssumption DEF Init, TypeOK, Places
<1>2. LockInv /\ WritersInv
  BY DEF Init, LockInv, WritersInv, Held, Reading, InLoop
<1>3. StopInv /\ LoopCaught
  BY FreshLocals DEF Init, StopInv, StopObeyed, Announcing, LoopCaught
<1>4. HistoryComplete /\ CallInv /\ RowsInv /\ RowsContiguous
  BY DEF Init, HistoryComplete, CallInv, RowsInv, RowsContiguous
<1>5. QED
  BY <1>1, <1>2, <1>3, <1>4 DEF TurnInv

LEMMA TurnStep == TurnInv /\ [Next]_vars => TurnInv'
<1> SUFFICES ASSUME TurnInv, [Next]_vars PROVE TurnInv'
  OBVIOUS
<1>1. ASSUME NEW t \in Turns, Kind(t) PROVE TurnInv'
  <2>1. TypeOK' /\ LockInv'
    BY <1>1, KeepsTypes, KeepsLock
  <2>2. WritersInv' /\ StopInv' /\ HistoryComplete'
    BY <1>1, <2>1, KeepsOthers
  <2>3. CallInv' /\ LoopCaught'
    BY <1>1, <2>1, KeepsCalls
  <2>4. ~Impatient => (RowsInv /\ RowsContiguous)'
    BY <1>1, <2>1, KeepsRows
  <2>5. QED
    BY <2>1, <2>2, <2>3, <2>4 DEF TurnInv
<1>2. CASE RequestStop
  <2>1. /\ UNCHANGED <<at, full, queue, writing, rows, memory>> /\ stop' = TRUE
        /\ ~stop
        /\ run' = IF queue = <<>> \/ at[Head(queue)] \notin InLoop THEN run
                  ELSE [run EXCEPT !.told = TRUE, !.passed = at[Head(queue)] \in Announcing, !.after = 0]
    BY <1>2 DEF RequestStop
  <2>2. TypeOK /\ LockInv /\ StopInv
    BY DEF TurnInv
  <2>3. /\ run' \in Locals /\ run'.log = run.log /\ run'.plan = run.plan
        /\ \/ run' = run
           \/ queue # <<>> /\ run'.told /\ run'.after = 0 /\ (run'.passed <=> at[Head(queue)] \in Announcing)
    <3>1. run \in Locals
      BY <2>2 DEF TypeOK
    <3>2. ASSUME NEW b \in BOOLEAN
          PROVE  LET q == [run EXCEPT !.told = TRUE, !.passed = b, !.after = 0]
                 IN  /\ q \in Locals /\ q.log = run.log /\ q.plan = run.plan
                     /\ q.told = TRUE /\ q.after = 0 /\ q.passed = b
      BY <3>1 DEF Locals
    <3>3. CASE queue = <<>> \/ at[Head(queue)] \notin InLoop
      BY <2>1, <3>1, <3>3
    <3>4. CASE queue # <<>> /\ at[Head(queue)] \in InLoop
      <4> DEFINE b == at[Head(queue)] \in Announcing
      <4>1. b \in BOOLEAN /\ run' = [run EXCEPT !.told = TRUE, !.passed = b, !.after = 0]
        BY <2>1, <3>4
      <4>2. /\ run' \in Locals /\ run'.log = run.log /\ run'.plan = run.plan
            /\ run'.told = TRUE /\ run'.after = 0 /\ run'.passed = b
        <5> HIDE DEF b
        <5>1. QED
          BY <3>2, <4>1
      <4>3. QED
        BY <3>4, <4>2
    <3>5. QED
      BY <3>3, <3>4
  <2>4. TypeOK'
    BY <2>1, <2>2, <2>3 DEF TypeOK
  <2>5. StopInv'
    <3>1. \A u \in Turns : at[u] \in Announcing => queue # <<>> /\ Head(queue) = u
      BY <2>2 DEF LockInv, Holds, Held, Reading, InLoop, Announcing
    <3>2. run' = run => ~run'.told
      BY <2>1, <2>2 DEF StopInv
    <3>3. \A u \in Turns : at'[u] \in Announcing /\ run'.told => run'.passed /\ run'.after = 0
      BY <2>1, <2>3, <3>1, <3>2
    <3>4. StopObeyed'
      BY <2>2, <2>3 DEF StopInv, StopObeyed
    <3>5. (run.told => stop)'
      BY <2>1
    <3>6. QED
      BY <3>3, <3>4, <3>5 DEF StopInv
  <2>6. CallInv' /\ LoopCaught'
    <3>1. at' = at /\ run'.log = run.log /\ run'.plan = run.plan
      BY <2>1, <2>3
    <3>2. CallInv'
      BY <3>1 DEF TurnInv, CallInv
    <3> DEFINE caught(log) ==
      \A last \in DOMAIN log :
        LET same == {i \in (last - HistorySize)..last : i \in DOMAIN log /\ log[i].sig = log[last].sig}
        IN  Cardinality(same) > Repeat => \E i, j \in same : log[i].out # log[j].out
    <3>3. caught(run.log)
      BY Zenon DEF TurnInv, LoopCaught
    <3>4. caught(run'.log)
      <4> HIDE DEF caught
      <4>1. QED
        BY <3>1, <3>3
    <3>5. LoopCaught'
      BY Zenon, <3>4 DEF LoopCaught
    <3>6. QED
      BY <3>2, <3>5
  <2>7. LockInv' /\ WritersInv' /\ HistoryComplete'
    BY <2>1 DEF TurnInv, LockInv, WritersInv, HistoryComplete, Holds
  <2>8. ~Impatient => (RowsInv /\ RowsContiguous)'
    BY <2>1 DEF TurnInv, RowsInv, RowsContiguous
  <2>9. QED
    BY <2>4, <2>5, <2>6, <2>7, <2>8 DEF TurnInv
<1>3. CASE UNCHANGED vars
  BY <1>3 DEF vars, TurnInv, TypeOK, LockInv, WritersInv, StopInv, StopObeyed, HistoryComplete, CallInv,
     LoopCaught, RowsInv, RowsContiguous, Holds
<1>4. QED
  BY <1>1, <1>2, <1>3, StepKinds

LEMMA TurnInvariant == Spec => []TurnInv
<1>1. QED
  BY TurnInit, TurnStep, PTL DEF Spec

\* No turn reads its prompt, or runs on it, while a memory write of the session is
\* still under way (_prepare_turn_prompt, _queue_turn_persistence).
THEOREM HistoryTheorem == Spec => []HistoryComplete
<1>1. TurnInv => HistoryComplete
  BY DEF TurnInv
<1>2. QED
  BY <1>1, TurnInvariant, PTL

\* A turn that is told to stop in its loop begins at most one call of the provider or of
\* a tool after that, and only one it was announcing to its channel when the request
\* came; the end of an earlier stream of the session takes the request away
\* (request_stop, _run_serialized, _emit_progress, stream_run).
THEOREM StopTheorem == Spec => []StopObeyed
<1>1. TurnInv => StopObeyed
  BY DEF TurnInv, StopInv, StopObeyed
<1>2. QED
  BY <1>1, TurnInvariant, PTL

\* No loop runs on in a turn, whatever its tools, its plans and the sizes of the
\* history and of the threshold (_detect_tool_loop).
THEOREM LoopTheorem == Spec => []LoopCaught
<1>1. TurnInv => LoopCaught
  BY DEF TurnInv
<1>2. QED
  BY <1>1, TurnInvariant, PTL

\* The rows of a turn are one block of the transcript, if no turn is cancelled again
\* while it waits for its rows (_call_session_persistence_side_effect shields once).
THEOREM RowsTheorem == ASSUME ~Impatient PROVE Spec => []RowsContiguous
<1>1. TurnInv => RowsContiguous
  BY DEF TurnInv
<1>2. QED
  BY <1>1, TurnInvariant, PTL

(***************************************************************************)
(* The failover of the providers.                                          *)
(***************************************************************************)

\* What an induction needs besides: the counts and the times are numbers.
CountInv ==
  /\ fails \in [Candidates -> Nat] /\ circuit \in [Candidates -> Int]
  /\ \A c \in Candidates : circuit[c] # Shut => circuit[c] >= 0
  /\ BreakerCounts

LEMMA ShutIsNoTime == Shut \in Int /\ Shut < 0
  BY DEF Shut

LEMMA Limits == Threshold \in Nat \ {0} /\ CircuitTime \in Nat \ {0}
  BY TimesAssumption

\* A failure that reaches the threshold opens the circuit with it (_record_failure).
LEMMA FailCounts ==
  ASSUME CountInv, NEW k, NEW class, Fail(k, class)
  PROVE  CountInv'
<1> DEFINE c == Head(call[k].todo)
<1>1. Record(c)
  BY DEF Fail
<1> HIDE DEF c
<1>2. fails' \in [Candidates -> Nat]
  <2>1. c \in Candidates => (IF fails[c] < Threshold THEN fails[c] + 1 ELSE fails[c]) \in Nat
    BY Limits DEF CountInv
  <2>2. QED
    BY <1>1, <2>1 DEF CountInv, Record
<1>3. /\ circuit' \in [Candidates -> Int]
      /\ \A d \in Candidates : circuit'[d] # Shut => circuit'[d] >= 0
  <2> DEFINE v == IF fails[c] + 1 >= Threshold THEN CircuitTime ELSE circuit[c]
  <2>1. c \in Candidates => v \in Int /\ (v # Shut => v >= 0)
    BY Limits DEF CountInv
  <2>2. circuit' = [circuit EXCEPT ![c] = v]
    BY <1>1 DEF Record
  <2> HIDE DEF v
  <2>3. QED
    BY <2>1, <2>2 DEF CountInv
<1>4. BreakerCounts'
  BY <1>1, Limits, ShutIsNoTime DEF CountInv, BreakerCounts, Record
<1>5. QED
  BY <1>2, <1>3, <1>4 DEF CountInv

\* Whatever concurrent calls do, no client keeps failures at the threshold without the
\* circuit that goes with them, for any candidates, calls, thresholds and times.
THEOREM BreakerHolds == FailoverSpec => []BreakerCounts
<1>1. FailoverInit => CountInv
  <2>1. ASSUME FailoverInit
        PROVE /\ fails = [c \in Candidates |-> 0]
              /\ circuit = [c \in Candidates |-> Shut]
    BY <2>1 DEF FailoverInit
  <2>2. QED
    BY <2>1, Limits, ShutIsNoTime DEF CountInv, BreakerCounts
<1>2. CountInv /\ [FailoverNext]_failoverVars => CountInv'
  <2> SUFFICES ASSUME CountInv, [FailoverNext]_failoverVars PROVE CountInv'
    OBVIOUS
  <2> USE DEF CountInv, BreakerCounts
  <2>1. ASSUME NEW k \in Calls, CircuitOpen(k) \/ RequestFails(k) PROVE CountInv'
    <3>1. PICK class : Fail(k, class)
      BY <2>1 DEF CircuitOpen, RequestFails
    <3>2. QED
      BY <3>1, FailCounts
  <2>2. ASSUME NEW k \in Calls, Send(k) PROVE CountInv'
    <3> DEFINE c == Head(call[k].todo)
    <3>1. circuit' = [circuit EXCEPT ![c] = Shut]
          /\ circuit[c] <= 0 /\ fails' = IF circuit[c] = 0 THEN [fails EXCEPT ![c] = 0] ELSE fails
      BY <2>2 DEF Send
    <3> HIDE DEF c
    <3>2. fails' \in [Candidates -> Nat] /\ circuit' \in [Candidates -> Int]
      BY <3>1, ShutIsNoTime
    <3>3. \A d \in Candidates : circuit'[d] # Shut => circuit'[d] >= 0
      BY <3>1
    <3>4. BreakerCounts'
      BY <3>1, Limits
    <3>5. QED
      BY <3>2, <3>3, <3>4
  <2>3. ASSUME NEW k \in Calls, Answer(k) PROVE CountInv'
    <3> DEFINE c == Head(call[k].todo)
    <3>1. fails' = [fails EXCEPT ![c] = 0] /\ circuit' = circuit
      BY <2>3 DEF Answer
    <3> HIDE DEF c
    <3>2. fails' \in [Candidates -> Nat] /\ circuit' \in [Candidates -> Int]
      BY <3>1, ShutIsNoTime
    <3>3. \A d \in Candidates : circuit'[d] # Shut => circuit'[d] >= 0
      BY <3>1
    <3>4. BreakerCounts'
      BY <3>1, Limits
    <3>5. QED
      BY <3>2, <3>3, <3>4
  <2>4. CASE Tick
    BY <2>4, ShutIsNoTime DEF Tick
  <2>5. CASE UNCHANGED <<fails, circuit>>
    BY <2>5
  <2>6. ASSUME NEW k \in Calls,
               \/ Start(k) \/ Backoff(k) \/ Retry(k)
               \/ Refresh(k) \/ CancelCall(k) \/ Return(k)
        PROVE CountInv'
    BY <2>5, <2>6 DEF Start, Backoff, Retry, Refresh,
                      CancelCall, Return
  <2>7. ASSUME NEW c \in Candidates, OperatorClear(c) PROVE CountInv'
    BY <2>5, <2>7 DEF OperatorClear
  <2>8. QED
    BY <2>1, <2>2, <2>3, <2>4, <2>5, <2>6, <2>7 DEF FailoverNext, CallStep, failoverVars
<1>3. CountInv => BreakerCounts
  BY DEF CountInv
<1>4. QED
  BY <1>1, <1>2, <1>3, PTL DEF FailoverSpec

(***************************************************************************)
(* The queue of the subagent manager.                                      *)
(***************************************************************************)

LEMMA AppendIs ==
  ASSUME NEW U, NEW s \in Seq(U), NEW x \in U
  PROVE  /\ Append(s, x) \in Seq(U) /\ Len(Append(s, x)) = Len(s) + 1
         /\ ToSet(Append(s, x)) = ToSet(s) \cup {x}
         /\ IsInjective(s) /\ x \notin ToSet(s) => IsInjective(Append(s, x))
<1>1. /\ Append(s, x) \in Seq(U) /\ Len(Append(s, x)) = Len(s) + 1 /\ Len(s) \in Nat
      /\ \A i \in 1..Len(s) : Append(s, x)[i] = s[i]
      /\ Append(s, x)[Len(s) + 1] = x
  OBVIOUS
<1> DEFINE a == Append(s, x)
<1>2. DOMAIN a = 1..(Len(s) + 1) /\ DOMAIN s = 1..Len(s)
  BY <1>1
<1> HIDE DEF a
<1>3. ToSet(a) = ToSet(s) \cup {x}
  <2>1. \A i \in DOMAIN a : a[i] \in ToSet(s) \cup {x}
    BY <1>1, <1>2 DEF ToSet, a
  <2>2. \A i \in DOMAIN s : i \in DOMAIN a /\ a[i] = s[i]
    BY <1>1, <1>2 DEF a
  <2>3. Len(s) + 1 \in DOMAIN a /\ a[Len(s) + 1] = x
    BY <1>1, <1>2 DEF a
  <2>4. QED
    BY <2>1, <2>2, <2>3 DEF ToSet
<1>4. IsInjective(s) /\ x \notin ToSet(s) => IsInjective(a)
  BY <1>1, <1>2 DEF IsInjective, ToSet, a
<1>5. QED
  BY <1>1, <1>3, <1>4 DEF a

\* As many numbers as an interval holds.
LEMMA IntervalIs ==
  ASSUME NEW n \in Nat
  PROVE  /\ IsFiniteSet(1..n) /\ Cardinality(1..n) = n
         /\ IsFiniteSet(0..(n - 1)) /\ Cardinality(0..(n - 1)) = n
<1>1. 1 \in Int /\ n \in Int /\ 0 \in Int /\ n - 1 \in Int
  OBVIOUS
<1>2. IsFiniteSet(1..n) /\ Cardinality(1..n) = IF 1 > n THEN 0 ELSE n - 1 + 1
  BY <1>1, FS_Interval
<1>3. IsFiniteSet(0..(n - 1)) /\ Cardinality(0..(n - 1)) = IF 0 > n - 1 THEN 0 ELSE (n - 1) - 0 + 1
  BY <1>1, FS_Interval
<1>4. QED
  BY <1>2, <1>3

\* Without picks, for each of the places in K, the one that it is the n-th of: there is
\* one for every n, and no two places have the same number of others before them.
LEMMA WithoutIs ==
  ASSUME NEW U, NEW s \in Seq(U), NEW S
  PROVE  /\ Without(s, S) \in Seq(U) /\ Len(Without(s, S)) <= Len(s)
         /\ ToSet(Without(s, S)) = ToSet(s) \ S
         /\ IsInjective(s) => IsInjective(Without(s, S))
<1> DEFINE K == {i \in DOMAIN s : s[i] \notin S}
           Before(i) == Cardinality({j \in K : j < i})
           m == Cardinality(K)
           Place(n) == CHOOSE i \in K : Before(i) = n - 1
           o == Without(s, S)
<1>1. Len(s) \in Nat /\ DOMAIN s = 1..Len(s) /\ \A i \in 1..Len(s) : s[i] \in U
  OBVIOUS
<1>2. IsFiniteSet(K) /\ m \in Nat /\ m <= Len(s) /\ K \subseteq Nat
  <2>1. IsFiniteSet(1..Len(s)) /\ Cardinality(1..Len(s)) = Len(s)
    BY <1>1, IntervalIs
  <2>2. K \in SUBSET (1..Len(s))
    BY <1>1
  <2> HIDE DEF K
  <2>3. IsFiniteSet(K) /\ Cardinality(K) <= Len(s)
    BY <2>1, <2>2, FS_Subset
  <2>4. QED
    BY <2>2, <2>3, FS_CardinalityType, <1>1
<1>3. o = [n \in 1..m |-> s[Place(n)]]
  BY DEF Without
<1>4. \A i \in K : i \in DOMAIN s /\ s[i] \notin S
  OBVIOUS
<1>5. \A i \in DOMAIN s : s[i] \notin S => i \in K
  OBVIOUS
<1> HIDE DEF K, o
<1>6. ASSUME NEW i \in K PROVE Before(i) \in 0..(m - 1)
  <2> DEFINE B == {j \in K : j < i}
  <2>1. i \notin B /\ B \cup {i} \in SUBSET K /\ B \in SUBSET K
    BY <1>2
  <2> HIDE DEF B
  <2>2. IsFiniteSet(B) /\ Cardinality(B) \in Nat
    BY <1>2, <2>1, FS_Subset, FS_CardinalityType
  <2>3. Cardinality(B \cup {i}) = Cardinality(B) + 1
    BY <2>1, <2>2, FS_AddElement
  <2>4. Cardinality(B \cup {i}) <= m
    BY <1>2, <2>1, FS_Subset
  <2>5. Cardinality(B) \in 0..(m - 1)
    BY <1>2, <2>2, <2>3, <2>4
  <2>6. QED
    BY <2>5 DEF B
<1>7. ASSUME NEW i \in K, NEW k \in K, i < k PROVE Before(i) # Before(k)
  <2> DEFINE A == {j \in K : j < i}
             B == {j \in K : j < k}
  <2>1. i \notin A /\ A \cup {i} \in SUBSET B /\ A \in SUBSET K /\ B \in SUBSET K
    <3>1. \A j \in K : j \in Nat
      BY <1>2
    <3>2. \A j \in K : j < i => j < k
      BY <1>7, <3>1
    <3>3. ~(i < i)
      BY <3>1
    <3>4. QED
      BY <1>7, <3>2, <3>3
  <2> HIDE DEF A, B
  <2>2. IsFiniteSet(A) /\ Cardinality(A) \in Nat /\ IsFiniteSet(B) /\ Cardinality(B) \in Nat
    BY <1>2, <2>1, FS_Subset, FS_CardinalityType
  <2>3. Cardinality(A \cup {i}) = Cardinality(A) + 1
    BY <2>1, <2>2, FS_AddElement
  <2>4. Cardinality(A \cup {i}) <= Cardinality(B)
    BY <2>1, <2>2, FS_Subset
  <2>5. Cardinality(A) # Cardinality(B)
    BY <2>2, <2>3, <2>4
  <2>6. QED
    BY <2>5 DEF A, B
<1>8. \A i, k \in K : Before(i) = Before(k) => i = k
  <2> HIDE DEF Before
  <2>1. \A i, k \in K : i < k \/ k < i \/ i = k
    BY <1>2
  <2>2. QED
    BY <1>7, <2>1
<1>9. \A n \in 1..m : Place(n) \in K /\ Before(Place(n)) = n - 1
  <2> DEFINE T == 0..(m - 1)
             f == [i \in K |-> Before(i)]
  <2>1. IsFiniteSet(T) /\ Cardinality(T) = m
    <3>1. IsFiniteSet(0..(m - 1)) /\ Cardinality(0..(m - 1)) = m
      BY <1>2, IntervalIs
    <3>2. QED
      BY <3>1
  <2>2. f \in Injection(K, T)
    <3> HIDE DEF Before
    <3>1. f \in [K -> T]
      BY <1>6
    <3>2. IsInjective(f)
      BY <1>8 DEF IsInjective
    <3>3. QED
      BY <3>1, <3>2 DEF Injection
  <2> HIDE DEF f
  <2>3. f \in Surjection(K, T)
    <3> HIDE DEF T
    <3>1. QED
      BY <1>2, <2>1, <2>2, FS_Injection
  <2>4. \A x \in T : \E i \in K : f[i] = x
    BY <2>3 DEF Surjection
  <2>5. ASSUME NEW n \in 1..m PROVE Place(n) \in K /\ Before(Place(n)) = n - 1
    <3>1. n - 1 \in T
      BY <1>2
    <3>2. PICK i \in K : f[i] = n - 1
      BY <2>4, <3>1
    <3>3. Before(i) = n - 1
      BY <3>2 DEF f
    <3> HIDE DEF Before
    <3>4. QED
      BY <3>3
  <2>6. QED
    BY <2>5
<1>10. \A i \in K : \E n \in 1..m : Place(n) = i
  <2>1. ASSUME NEW i \in K PROVE \E n \in 1..m : Place(n) = i
    <3> DEFINE n == Before(i) + 1
    <3>1. n \in 1..m /\ n - 1 = Before(i)
      BY <1>2, <1>6
    <3>2. Place(n) \in K /\ Before(Place(n)) = Before(i)
      <4> HIDE DEF Place, Before, n
      <4>1. QED
        BY <1>9, <3>1
    <3>3. Place(n) = i
      <4> HIDE DEF Place, Before, n
      <4>1. QED
        BY <1>8, <3>2
    <3>4. QED
      <4> HIDE DEF Place, n
      <4>1. QED
        BY <3>1, <3>3
  <2>2. QED
    BY <2>1
<1> HIDE DEF m
<1>11. \A n, k \in 1..m : Place(n) = Place(k) => n = k
  <2> HIDE DEF Place, Before
  <2>1. ASSUME NEW n \in 1..m, NEW k \in 1..m, Place(n) = Place(k) PROVE n = k
    <3>1. n - 1 = k - 1
      BY <1>9, <2>1
    <3>2. QED
      BY <3>1
  <2>2. QED
    BY <2>1
<1> HIDE DEF Place, Before
<1>12. o \in Seq(U) /\ Len(o) = m /\ DOMAIN o = 1..m
  <2>1. o \in [1..m -> U]
    BY <1>1, <1>3, <1>4, <1>9
  <2>2. QED
    BY <1>2, <2>1
<1>13. ToSet(o) = ToSet(s) \ S
  <2>1. \A n \in DOMAIN o : o[n] \in ToSet(s) \ S
    BY <1>3, <1>4, <1>9, <1>12 DEF ToSet
  <2>2. ASSUME NEW i \in DOMAIN s, s[i] \notin S PROVE s[i] \in ToSet(o)
    <3>1. PICK n \in 1..m : Place(n) = i
      BY <1>5, <1>10, <2>2
    <3>2. o[n] = s[i] /\ n \in DOMAIN o
      BY <1>3, <1>12, <3>1
    <3>3. QED
      BY <3>2 DEF ToSet
  <2>3. QED
    BY <2>1, <2>2 DEF ToSet
<1>14. IsInjective(s) => IsInjective(o)
  BY <1>3, <1>4, <1>9, <1>11, <1>12 DEF IsInjective
<1>15. QED
  BY <1>2, <1>12, <1>13, <1>14 DEF o

\* A sequence without copies cut after its k-th element.
LEMMA SplitIs ==
  ASSUME NEW U, NEW s \in Seq(U), IsInjective(s), NEW k \in 0..Len(s)
  PROVE  /\ ToSet(SubSeq(s, 1, k)) \subseteq ToSet(s)
         /\ IsFiniteSet(ToSet(SubSeq(s, 1, k))) /\ Cardinality(ToSet(SubSeq(s, 1, k))) = k
         /\ SubSeq(s, k + 1, Len(s)) \in Seq(U) /\ Len(SubSeq(s, k + 1, Len(s))) = Len(s) - k
         /\ IsInjective(SubSeq(s, k + 1, Len(s)))
         /\ ToSet(SubSeq(s, k + 1, Len(s))) = ToSet(s) \ ToSet(SubSeq(s, 1, k))
<1> DEFINE a == SubSeq(s, 1, k)
           b == SubSeq(s, k + 1, Len(s))
<1>1. /\ Len(s) \in Nat /\ DOMAIN s = 1..Len(s) /\ \A i \in 1..Len(s) : s[i] \in U
      /\ k \in Nat /\ k <= Len(s)
  OBVIOUS
<1>2. a \in Seq(U) /\ Len(a) = k /\ \A i \in 1..k : a[i] = s[i]
  BY <1>1, SubSeqProperties
<1>3. b \in Seq(U) /\ Len(b) = Len(s) - k /\ \A i \in 1..(Len(s) - k) : b[i] = s[i + k]
  <2> DEFINE j == k + 1
             l == Len(s)
  <2>1. j \in Int /\ l \in Int /\ \A i \in j..l : s[i] \in U
    BY <1>1
  <2>2. l \in Nat /\ k \in Nat /\ k <= l /\ j = k + 1
    BY <1>1
  <2>3. b = SubSeq(s, j, l)
    OBVIOUS
  <2> HIDE DEF b, j, l
  <2>4. /\ b \in Seq(U) /\ Len(b) = IF j <= l THEN l - j + 1 ELSE 0
        /\ \A i \in 1..(l - j + 1) : b[i] = s[j + i - 1]
    BY <2>1, <2>3, SubSeqProperties
  <2>5. l - j + 1 = l - k /\ (~(j <= l) => l - k = 0) /\ \A i \in 1..(l - k) : j + i - 1 = i + k
    BY <2>2
  <2>6. b \in Seq(U) /\ Len(b) = l - k /\ \A i \in 1..(l - k) : b[i] = s[i + k]
    BY <2>4, <2>5
  <2>7. QED
    BY <2>6 DEF l
<1> HIDE DEF a, b
<1>4. DOMAIN a = 1..k /\ DOMAIN b = 1..(Len(s) - k)
  BY <1>1, <1>2, <1>3
<1>5. ToSet(a) = {s[i] : i \in 1..k}
  BY <1>2, <1>4 DEF ToSet
<1>6. \A i, j \in 1..Len(s) : s[i] = s[j] => i = j
  BY <1>1 DEF IsInjective
<1>7. ToSet(b) = {s[i] : i \in (k + 1)..Len(s)}
  <2>1. \A i \in DOMAIN b : i + k \in (k + 1)..Len(s) /\ b[i] = s[i + k]
    BY <1>1, <1>3, <1>4
  <2>2. \A i \in (k + 1)..Len(s) : i - k \in DOMAIN b /\ b[i - k] = s[i]
    BY <1>1, <1>3, <1>4
  <2>3. QED
    BY <2>1, <2>2 DEF ToSet
<1>8. ToSet(s) = {s[i] : i \in 1..Len(s)}
  BY <1>1 DEF ToSet
<1>9. IsInjective(b)
  <2>1. ASSUME NEW i \in DOMAIN b, NEW j \in DOMAIN b, b[i] = b[j] PROVE i = j
    <3>1. i + k \in 1..Len(s) /\ j + k \in 1..Len(s) /\ s[i + k] = s[j + k]
      BY <1>1, <1>3, <1>4, <2>1
    <3>2. i + k = j + k
      BY <1>6, <3>1
    <3>3. QED
      BY <1>4, <3>2
  <2>2. QED
    BY <2>1 DEF IsInjective
<1>10. ToSet(b) = ToSet(s) \ ToSet(a)
  <2>1. \A i \in 1..Len(s) : i \in 1..k \/ i \in (k + 1)..Len(s)
    BY <1>1
  <2>2. \A i \in (k + 1)..Len(s) : i \in 1..Len(s) /\ \A j \in 1..k : s[i] # s[j]
    BY <1>1, <1>6
  <2>3. QED
    BY <1>5, <1>7, <1>8, <2>1, <2>2
<1>11. IsFiniteSet(ToSet(a)) /\ Cardinality(ToSet(a)) = k
  <2>1. a \in Bijection(1..k, ToSet(a))
    <3>1. a \in [1..k -> ToSet(a)]
      BY <1>2, <1>4 DEF ToSet
    <3>2. \A i, j \in 1..k : a[i] = a[j] => i = j
      BY <1>1, <1>2, <1>6
    <3>3. \A x \in ToSet(a) : \E i \in 1..k : a[i] = x
      BY <1>4 DEF ToSet
    <3>4. QED
      BY <3>1, <3>2, <3>3 DEF Bijection, Injection, Surjection, IsInjective
  <2>2. ExistsBijection(1..k, ToSet(a))
    BY <2>1 DEF ExistsBijection
  <2>3. QED
    BY <1>1, <2>2, IntervalIs, FS_Bijection
<1>12. ToSet(a) \subseteq ToSet(s)
  BY <1>1, <1>5, <1>8
<1>13. QED
  BY <1>3, <1>9, <1>10, <1>11, <1>12 DEF a, b

(***************************************************************************)
(* The subagent manager.                                                   *)
(***************************************************************************)

Statuses == Active \cup Terminal \cup {"none", "pruned"}
Owners == Sessions \cup Runs
Workers == [run : Runs, n : Nat, at : {"created", "running", "doomed", "unwinding"}]

Manager == [st : [Runs -> Statuses], sess : [Runs -> Owners \cup {"none"}],
            resumable : SUBSET Runs, attempts : [Runs -> Nat], synth : SUBSET Runs,
            queue : Seq(Runs), pending : SUBSET Runs, task : [Runs -> Nat],
            live : SUBSET Workers, starts : [Runs -> Nat]]

\* The run has ended for good.
Settled(m, r) == m.st[r] \in Terminal \cup {"pruned"} /\ r \notin m.resumable

\* That the tables of the manager m agree, but for the runs in S, which have a runner
\* and are about to start or to wait: the queue and the runners,
QueueAgrees(m, S) ==
  /\ IsInjective(m.queue) /\ Len(m.queue) <= MaxQueued
  /\ ToSet(m.queue) = {r \in Runs : m.st[r] = "queued"} \ S
  /\ m.pending = ActiveRuns(m) \cup S

\* the tasks,
TasksAgree(m, S) ==
  /\ \A r \in Runs : m.task[r] = IF m.st[r] = "running" THEN m.starts[r] ELSE 0
  /\ \A t \in m.live : /\ t.n = m.starts[t.run] /\ t.n > 0 /\ t.run \notin S
                       /\ m.st[t.run] \in {"running", "expired", "pruned"}
  /\ \A t, u \in m.live : t.run = u.run => t = u

\* the marks of finished runs,
MarksAgree(m, S) ==
  /\ \A r \in m.resumable \ S : m.st[r] \in Terminal \ {"expired"} /\ HasBudget(m, r)
  /\ \A r \in m.synth \ S : m.st[r] \in Terminal \cup {"pruned"}
  /\ \A r \in S : ~Settled(m, r) /\ m.st[r] # "running"

\* the starts, of which a run that is about to start has one left,
BudgetAgrees(m, S) == \A r \in Runs :
  /\ m.attempts[r] <= MaxResume /\ m.starts[r] <= m.attempts[r] + 1
  /\ m.st[r] = "queued" \/ r \in S => m.starts[r] <= m.attempts[r]
  /\ m.st[r] = "none" => m.starts[r] = 0 /\ m.attempts[r] = 0

\* and the limits.
LimitsHold(m, S) ==
  /\ RunningCount(m) <= MaxRunning
  /\ \A x \in Owners : Cardinality({r \in ActiveRuns(m) \cup S : m.sess[r] = x}) <= Quota

Agree(m, S) ==
  /\ m \in Manager
  /\ QueueAgrees(m, S) /\ TasksAgree(m, S) /\ MarksAgree(m, S) /\ BudgetAgrees(m, S)
  /\ LimitsHold(m, S)

\* Nothing waits while a slot is free.
Busy(m) == m.queue # <<>> => RunningCount(m) = MaxRunning

\* n comes after m: what has ended for good stays as it is, but may be forgotten.
Follows(m, n) == \A r \in Runs : Settled(m, r) =>
  /\ Settled(n, r) /\ n.sess[r] = m.sess[r] /\ (r \in n.synth <=> r \in m.synth)
  /\ m.st[r] = "pruned" => n.st[r] = "pruned"

LEMMA FollowsTwice ==
  ASSUME NEW l, NEW m, NEW n, Follows(l, m), Follows(m, n)
  PROVE  Follows(l, n)
  BY DEF Follows

\* Every set of runs is finite, and a smaller one does not have more.
LEMMA CountRuns ==
  ASSUME NEW S \in SUBSET Runs, NEW T \in SUBSET S
  PROVE  /\ IsFiniteSet(S) /\ Cardinality(S) \in Nat
         /\ Cardinality(T) \in Nat /\ Cardinality(T) <= Cardinality(S)
<1>1. IsFiniteSet(S) /\ IsFiniteSet(T)
  BY LimitsAssumption, FS_Subset
<1>2. QED
  BY <1>1, FS_Subset, FS_CardinalityType

\* The tasks a cancellation hits, and what it makes of the others.
LEMMA CancelTasksIs ==
  ASSUME NEW m, NEW S \in SUBSET Runs, Agree(m, {}), NEW n, n = CancelTasks(m, S)
  PROVE  /\ n \in Manager
         /\ n.st = m.st /\ n.sess = m.sess /\ n.resumable = m.resumable /\ n.attempts = m.attempts
         /\ n.synth = m.synth /\ n.queue = m.queue /\ n.pending = m.pending /\ n.task = m.task
         /\ n.starts = m.starts
         /\ \A t \in n.live : \E u \in m.live : t.run = u.run /\ t.n = u.n
         /\ \A t, u \in n.live : t.run = u.run => t = u
<1> DEFINE hit == UNION {LiveTasks(m, r) : r \in S}
           kept == m.live \ hit
           told == {CancelTask(t) : t \in hit}
<1>1. m \in Manager /\ hit \subseteq m.live /\ m.live \subseteq Workers
  BY DEF Agree, LiveTasks, Manager
<1>2. \A t \in Workers : CancelTask(t) \in Workers /\ CancelTask(t).run = t.run /\ CancelTask(t).n = t.n
  BY DEF CancelTask, Workers
<1>3. n = [m EXCEPT !.live = kept \cup told]
  BY DEF CancelTasks
<1> HIDE DEF hit
<1>4. kept \cup told \subseteq Workers
  BY <1>1, <1>2
<1>5. \A t, u \in m.live : t.run = u.run => t = u
  BY DEF Agree, TasksAgree
<1>6. \A t \in kept \cup told : \E u \in m.live : t.run = u.run /\ t.n = u.n
  BY <1>1, <1>2
<1>7. \A t, u \in kept \cup told : t.run = u.run => t = u
  BY <1>1, <1>2, <1>5
<1> HIDE DEF kept, told
<1>8. /\ n \in Manager /\ n.live = kept \cup told
      /\ n.st = m.st /\ n.sess = m.sess /\ n.resumable = m.resumable /\ n.attempts = m.attempts
      /\ n.synth = m.synth /\ n.queue = m.queue /\ n.pending = m.pending /\ n.task = m.task
      /\ n.starts = m.starts
  BY <1>1, <1>3, <1>4 DEF Manager
<1>9. QED
  BY <1>6, <1>7, <1>8

LEMMA CancelTasksAgree ==
  ASSUME NEW m, NEW S \in SUBSET Runs, Agree(m, {})
  PROVE  /\ Agree(CancelTasks(m, S), {}) /\ Follows(m, CancelTasks(m, S))
         /\ Busy(m) => Busy(CancelTasks(m, S))
<1> DEFINE n == CancelTasks(m, S)
<1>1. /\ n \in Manager
      /\ n.st = m.st /\ n.sess = m.sess /\ n.resumable = m.resumable /\ n.attempts = m.attempts
      /\ n.synth = m.synth /\ n.queue = m.queue /\ n.pending = m.pending /\ n.task = m.task
      /\ n.starts = m.starts
      /\ \A t \in n.live : \E u \in m.live : t.run = u.run /\ t.n = u.n
      /\ \A t, u \in n.live : t.run = u.run => t = u
  BY CancelTasksIs
<1> HIDE DEF n
<1>2. QueueAgrees(n, {}) /\ MarksAgree(n, {}) /\ BudgetAgrees(n, {}) /\ LimitsHold(n, {})
  BY <1>1 DEF Agree, QueueAgrees, MarksAgree, BudgetAgrees, LimitsHold, ActiveRuns, Running,
              RunningCount, HasBudget, Settled
<1>3. TasksAgree(n, {})
  BY <1>1 DEF Agree, TasksAgree
<1>4. Follows(m, n) /\ (Busy(m) => Busy(n))
  BY <1>1 DEF Follows, Settled, Busy, RunningCount, Running
<1>5. QED
  BY <1>1, <1>2, <1>3, <1>4 DEF Agree, n

\* The fields that _mark_terminal sets, and the others.
Ended(m, st, left, waits, pending, task) ==
  [m EXCEPT !.st = st, !.resumable = left, !.queue = waits, !.pending = pending, !.task = task]

EndedIs(m, st, left, waits, pending, task, n) ==
  /\ n \in Manager
  /\ n.st = st /\ n.resumable = left /\ n.queue = waits /\ n.pending = pending
  /\ n.task = task /\ n.sess = m.sess /\ n.attempts = m.attempts /\ n.synth = m.synth
  /\ n.live = m.live /\ n.starts = m.starts

LEMMA EndPut ==
  ASSUME NEW m \in Manager, NEW st \in [Runs -> Statuses], NEW left \in SUBSET Runs,
         NEW waits \in Seq(Runs), NEW pending \in SUBSET Runs, NEW task \in [Runs -> Nat],
         NEW n, n = Ended(m, st, left, waits, pending, task)
  PROVE  EndedIs(m, st, left, waits, pending, task, n)
  BY DEF Manager, Ended, EndedIs

\* What _mark_terminal does to each field.
Terminated(m, S, end, again, n) ==
  /\ n \in Manager
  /\ \A r \in Runs : n.st[r] = IF r \in S THEN end[r] ELSE m.st[r]
  /\ \A r : r \in n.resumable <=>
       (r \in m.resumable /\ r \notin S) \/ (r \in again /\ HasBudget(m, r))
  /\ Len(n.queue) <= Len(m.queue) /\ ToSet(n.queue) = ToSet(m.queue) \ S
  /\ IsInjective(m.queue) => IsInjective(n.queue)
  /\ n.pending = m.pending \ S
  /\ \A r \in Runs : n.task[r] = IF r \in S THEN 0 ELSE m.task[r]
  /\ n.sess = m.sess /\ n.attempts = m.attempts /\ n.synth = m.synth
  /\ n.live = m.live /\ n.starts = m.starts

LEMMA TerminateIs ==
  ASSUME NEW m \in Manager, NEW S \in SUBSET Runs, NEW end \in [S -> Terminal],
         NEW again \in SUBSET S, NEW n, n = Terminate(m, S, end, again)
  PROVE  Terminated(m, S, end, again, n)
<1> DEFINE st == [r \in Runs |-> IF r \in S THEN end[r] ELSE m.st[r]]
           task == [r \in Runs |-> IF r \in S THEN 0 ELSE m.task[r]]
           left == (m.resumable \ S) \cup {r \in again : HasBudget(m, r)}
           waits == Without(m.queue, S)
<1>1. /\ m.st \in [Runs -> Statuses] /\ m.task \in [Runs -> Nat] /\ m.queue \in Seq(Runs)
      /\ m.resumable \subseteq Runs /\ m.pending \subseteq Runs
  BY DEF Manager
<1>2. st \in [Runs -> Statuses] /\ task \in [Runs -> Nat] /\ left \subseteq Runs
  BY <1>1 DEF Statuses
<1>3. /\ waits \in Seq(Runs) /\ Len(waits) <= Len(m.queue) /\ ToSet(waits) = ToSet(m.queue) \ S
      /\ IsInjective(m.queue) => IsInjective(waits)
  BY <1>1, WithoutIs
<1>4. n = Ended(m, st, left, waits, m.pending \ S, task)
  BY DEF Terminate, Ended
<1>5. \A r \in Runs : /\ st[r] = IF r \in S THEN end[r] ELSE m.st[r]
                      /\ task[r] = IF r \in S THEN 0 ELSE m.task[r]
  OBVIOUS
<1>6. \A r : r \in left <=> (r \in m.resumable /\ r \notin S) \/ (r \in again /\ HasBudget(m, r))
  OBVIOUS
<1> HIDE DEF st, task, waits, left
<1>7. /\ n \in Manager /\ n.st = st /\ n.resumable = left /\ n.queue = waits /\ n.pending = m.pending \ S
      /\ n.task = task /\ n.sess = m.sess /\ n.attempts = m.attempts /\ n.synth = m.synth
      /\ n.live = m.live /\ n.starts = m.starts
  <2>1. m.pending \ S \in SUBSET Runs /\ left \in SUBSET Runs
    BY <1>1, <1>2
  <2>2. waits \in Seq(Runs) /\ m.pending \ S \in SUBSET Runs /\ m \in Manager
    BY <1>3, <2>1
  <2>3. EndedIs(m, st, left, waits, m.pending \ S, task, n)
    BY <1>2, <1>4, <2>1, <2>2, EndPut
  <2>4. QED
    BY <2>3 DEF EndedIs
<1>8. QED
  BY <1>3, <1>5, <1>6, <1>7 DEF Terminated

\* Runs that have not ended for good end, if they have no task or expire.
LEMMA TerminateAgrees ==
  ASSUME NEW m, NEW S \in SUBSET Runs, NEW end \in [S -> Terminal], NEW again \in SUBSET S,
         Agree(m, {}), \A r \in S : ~Settled(m, r) /\ (r \in again => end[r] # "expired"),
         \A t \in m.live : t.run \in S => end[t.run] = "expired"
  PROVE  /\ Agree(Terminate(m, S, end, again), {}) /\ Follows(m, Terminate(m, S, end, again))
<1> DEFINE n == Terminate(m, S, end, again)
<1>0. m \in Manager /\ n = Terminate(m, S, end, again)
  BY DEF Agree
<1> HIDE DEF n
<1>1. /\ n \in Manager
      /\ \A r \in Runs : n.st[r] = IF r \in S THEN end[r] ELSE m.st[r]
      /\ \A r : r \in n.resumable <=>
           (r \in m.resumable /\ r \notin S) \/ (r \in again /\ HasBudget(m, r))
      /\ Len(n.queue) <= Len(m.queue) /\ ToSet(n.queue) = ToSet(m.queue) \ S
      /\ IsInjective(m.queue) => IsInjective(n.queue)
      /\ n.pending = m.pending \ S
      /\ \A r \in Runs : n.task[r] = IF r \in S THEN 0 ELSE m.task[r]
      /\ n.sess = m.sess /\ n.attempts = m.attempts /\ n.synth = m.synth
      /\ n.live = m.live /\ n.starts = m.starts
  <2>1. Terminated(m, S, end, again, n)
    BY <1>0, TerminateIs
  <2>2. QED
    BY <2>1 DEF Terminated
<1>2. \A r \in S : end[r] \in Terminal
  OBVIOUS
<1>3. QueueAgrees(n, {})
  <2>1. Len(m.queue) \in Nat /\ Len(n.queue) \in Nat
    BY <1>0, <1>1 DEF Manager
  <2>2. ToSet(n.queue) = {r \in Runs : n.st[r] = "queued"}
    BY <1>1, <1>2 DEF Agree, QueueAgrees, Terminal
  <2>3. n.pending = ActiveRuns(n)
    BY <1>1, <1>2 DEF Agree, QueueAgrees, ActiveRuns, Active, Terminal
  <2>4. QED
    BY <1>1, <2>1, <2>2, <2>3, LimitsAssumption DEF Agree, QueueAgrees
<1>4. TasksAgree(n, {})
  <2>1. \A t \in n.live : t.run \in Runs
    BY <1>1 DEF Manager, Workers
  <2>2. QED
    BY <1>1, <1>2, <2>1 DEF Agree, TasksAgree, Terminal
<1>5. MarksAgree(n, {})
  <2>1. n.resumable \subseteq Runs /\ n.synth \subseteq Runs
    BY <1>1 DEF Manager
  <2>2. ASSUME NEW r \in n.resumable PROVE n.st[r] \in Terminal \ {"expired"} /\ HasBudget(n, r)
    <3>1. HasBudget(n, r) <=> HasBudget(m, r)
      BY <1>1 DEF HasBudget
    <3>2. CASE r \in again
      BY <1>1, <1>2, <2>1, <2>2, <3>1, <3>2 DEF Agree, MarksAgree
    <3>3. CASE r \notin again
      BY <1>1, <2>1, <2>2, <3>1, <3>3 DEF Agree, MarksAgree
    <3>4. QED
      BY <3>2, <3>3
  <2>3. ASSUME NEW r \in n.synth PROVE n.st[r] \in Terminal \cup {"pruned"}
    BY <1>1, <1>2, <2>1 DEF Agree, MarksAgree
  <2>4. QED
    BY <2>2, <2>3 DEF MarksAgree
<1>6. BudgetAgrees(n, {})
  BY <1>1, <1>2 DEF Agree, BudgetAgrees, Terminal
<1>7. LimitsHold(n, {})
  <2>1. Running(n) \in SUBSET Running(m) /\ ActiveRuns(n) \in SUBSET ActiveRuns(m)
    BY <1>1, <1>2 DEF Running, ActiveRuns, Active, Terminal
  <2>2. RunningCount(n) <= MaxRunning
    <3>1. /\ Cardinality(Running(n)) \in Nat /\ Cardinality(Running(m)) \in Nat
          /\ Cardinality(Running(n)) <= Cardinality(Running(m))
      BY <2>1, CountRuns DEF Running
    <3>2. QED
      BY <3>1, LimitsAssumption DEF Agree, LimitsHold, RunningCount
  <2>3. ASSUME NEW x \in Owners PROVE Cardinality({r \in ActiveRuns(n) : n.sess[r] = x}) <= Quota
    <3> DEFINE A == {r \in ActiveRuns(m) : m.sess[r] = x}
               B == {r \in ActiveRuns(n) : n.sess[r] = x}
    <3>1. A \in SUBSET Runs /\ B \in SUBSET A
      BY <1>1, <2>1 DEF ActiveRuns
    <3>2. Cardinality(A) <= Quota
      BY DEF Agree, LimitsHold
    <3> HIDE DEF A, B
    <3>3. Cardinality(B) \in Nat /\ Cardinality(A) \in Nat /\ Cardinality(B) <= Cardinality(A)
      BY <3>1, CountRuns
    <3>4. Cardinality(B) <= Quota
      BY <3>2, <3>3, LimitsAssumption
    <3>5. QED
      BY <3>4 DEF B
  <2>4. QED
    BY <2>2, <2>3 DEF LimitsHold
<1>8. Follows(m, n)
  BY <1>1 DEF Follows, Settled
<1>9. QED
  BY <1>1, <1>3, <1>4, <1>5, <1>6, <1>7, <1>8 DEF Agree, n

\* Runs that have ended for good are forgotten.
LEMMA ForgetAgrees ==
  ASSUME NEW m, NEW S \in SUBSET Runs, Agree(m, {}), \A r \in S : Settled(m, r)
  PROVE  /\ Agree(Forget(m, S), {}) /\ Follows(m, Forget(m, S))
<1> DEFINE n == Forget(m, S)
           st == [r \in Runs |-> IF r \in S THEN "pruned" ELSE m.st[r]]
<1>0. m \in Manager
  BY DEF Agree
<1>1. st \in [Runs -> Statuses] /\ \A r \in Runs : st[r] = IF r \in S THEN "pruned" ELSE m.st[r]
  BY <1>0 DEF Manager, Statuses
<1>2. n = [m EXCEPT !.st = st]
  BY DEF Forget
<1> HIDE DEF st, n
<1>3. /\ n \in Manager /\ \A r \in Runs : n.st[r] = IF r \in S THEN "pruned" ELSE m.st[r]
      /\ n.sess = m.sess /\ n.resumable = m.resumable /\ n.attempts = m.attempts
      /\ n.synth = m.synth /\ n.queue = m.queue /\ n.pending = m.pending /\ n.task = m.task
      /\ n.live = m.live /\ n.starts = m.starts
  BY <1>0, <1>1, <1>2 DEF Manager
<1>4. \A r \in S : m.st[r] \notin Active /\ m.st[r] # "none" /\ r \notin m.resumable
  BY DEF Settled, Active, Terminal
<1>5. ActiveRuns(n) = ActiveRuns(m) /\ Running(n) = Running(m)
      /\ {r \in Runs : n.st[r] = "queued"} = {r \in Runs : m.st[r] = "queued"}
  BY <1>3, <1>4 DEF ActiveRuns, Running, Active
<1>6. QueueAgrees(n, {}) /\ LimitsHold(n, {})
  BY <1>3, <1>5 DEF Agree, QueueAgrees, LimitsHold, RunningCount
<1>7. TasksAgree(n, {})
  <2>1. \A t \in n.live : t.run \in Runs
    BY <1>3 DEF Manager, Workers
  <2>2. \A r \in Runs : n.st[r] = "running" <=> m.st[r] = "running"
    BY <1>3, <1>4 DEF Active
  <2>3. QED
    BY <1>3, <2>1, <2>2 DEF Agree, TasksAgree
<1>8. MarksAgree(n, {})
  BY <1>0, <1>3, <1>4 DEF Agree, MarksAgree, HasBudget, Manager
<1>9. BudgetAgrees(n, {})
  BY <1>3, <1>4 DEF Agree, BudgetAgrees, Active
<1>10. Follows(m, n)
  BY <1>3 DEF Follows, Settled
<1>11. QED
  BY <1>3, <1>6, <1>7, <1>8, <1>9, <1>10 DEF Agree, n


\* The fields that _start_worker_locked sets, and the others.
Begun(m, st, left, synth, starts, task, live) ==
  [m EXCEPT !.st = st, !.resumable = left, !.synth = synth, !.starts = starts, !.task = task,
            !.live = live]

BegunIs(m, st, left, synth, starts, task, live, n) ==
  /\ n \in Manager
  /\ n.st = st /\ n.resumable = left /\ n.synth = synth /\ n.starts = starts
  /\ n.task = task /\ n.live = live /\ n.sess = m.sess /\ n.attempts = m.attempts
  /\ n.queue = m.queue /\ n.pending = m.pending

LEMMA BegunPut ==
  ASSUME NEW m \in Manager, NEW st \in [Runs -> Statuses], NEW left \in SUBSET Runs,
         NEW synth \in SUBSET Runs, NEW starts \in [Runs -> Nat], NEW task \in [Runs -> Nat],
         NEW live \in SUBSET Workers, NEW n, n = Begun(m, st, left, synth, starts, task, live)
  PROVE  BegunIs(m, st, left, synth, starts, task, live, n)
  BY DEF Manager, Begun, BegunIs

\* What a start of the runs in S does to each field.
NewTasks(m, S) == {[run |-> r, n |-> m.starts[r] + 1, at |-> "created"] : r \in S}

Started(m, S, n) ==
  /\ n \in Manager
  /\ \A r \in Runs : /\ n.st[r] = IF r \in S THEN "running" ELSE m.st[r]
                     /\ n.starts[r] = IF r \in S THEN m.starts[r] + 1 ELSE m.starts[r]
                     /\ n.task[r] = IF r \in S THEN m.starts[r] + 1 ELSE m.task[r]
  /\ n.resumable = m.resumable \ S /\ n.synth = m.synth \ S
  /\ n.live = m.live \cup NewTasks(m, S)
  /\ n.sess = m.sess /\ n.attempts = m.attempts /\ n.queue = m.queue /\ n.pending = m.pending

LEMMA StartWorkersIs ==
  ASSUME NEW m \in Manager, NEW S \in SUBSET Runs, NEW n, n = StartWorkers(m, S)
  PROVE  Started(m, S, n)
<1> DEFINE st == [r \in Runs |-> IF r \in S THEN "running" ELSE m.st[r]]
           starts == [r \in Runs |-> IF r \in S THEN m.starts[r] + 1 ELSE m.starts[r]]
           task == [r \in Runs |-> IF r \in S THEN m.starts[r] + 1 ELSE m.task[r]]
           live == m.live \cup NewTasks(m, S)
<1>1. /\ m.st \in [Runs -> Statuses] /\ m.task \in [Runs -> Nat] /\ m.starts \in [Runs -> Nat]
      /\ m.resumable \subseteq Runs /\ m.synth \subseteq Runs /\ m.live \subseteq Workers
  BY DEF Manager
<1>2. st \in [Runs -> Statuses] /\ starts \in [Runs -> Nat] /\ task \in [Runs -> Nat]
  <2>1. \A r \in Runs : m.starts[r] \in Nat /\ m.starts[r] + 1 \in Nat /\ m.task[r] \in Nat /\ m.st[r] \in Statuses
    BY <1>1
  <2>2. "running" \in Statuses
    BY DEF Statuses, Active
  <2>3. QED
    BY <2>1, <2>2
<1>3. live \subseteq Workers
  <2>1. \A r \in S : m.starts[r] + 1 \in Nat
    BY <1>1
  <2>2. QED
    BY <1>1, <2>1 DEF NewTasks, Workers
<1>4. n = Begun(m, st, m.resumable \ S, m.synth \ S, starts, task, live)
  BY DEF StartWorkers, Begun, NewTasks
<1>5. \A r \in Runs : /\ st[r] = IF r \in S THEN "running" ELSE m.st[r]
                      /\ starts[r] = IF r \in S THEN m.starts[r] + 1 ELSE m.starts[r]
                      /\ task[r] = IF r \in S THEN m.starts[r] + 1 ELSE m.task[r]
  OBVIOUS
<1>6. live = m.live \cup NewTasks(m, S)
  OBVIOUS
<1> HIDE DEF st, starts, task, live
<1>7. m.resumable \ S \in SUBSET Runs /\ m.synth \ S \in SUBSET Runs /\ live \in SUBSET Workers
  BY <1>1, <1>3
<1>8. /\ n \in Manager
      /\ n.st = st /\ n.resumable = m.resumable \ S /\ n.synth = m.synth \ S /\ n.starts = starts
      /\ n.task = task /\ n.live = live /\ n.sess = m.sess /\ n.attempts = m.attempts
      /\ n.queue = m.queue /\ n.pending = m.pending
  <2>1. BegunIs(m, st, m.resumable \ S, m.synth \ S, starts, task, live, n)
    BY <1>2, <1>4, <1>7, BegunPut
  <2>2. QED
    BY <2>1 DEF BegunIs
<1>9. QED
  BY <1>5, <1>6, <1>8 DEF Started

\* The runs that are about to start do so, if there is a slot for each.
LEMMA StartAgrees ==
  ASSUME NEW m, NEW S \in SUBSET Runs, Agree(m, S), Cardinality(Running(m) \cup S) <= MaxRunning
  PROVE  /\ Agree(StartWorkers(m, S), {}) /\ Follows(m, StartWorkers(m, S))
         /\ Running(StartWorkers(m, S)) = Running(m) \cup S
         /\ StartWorkers(m, S).queue = m.queue
<1> DEFINE n == StartWorkers(m, S)
<1>0. m \in Manager /\ n = StartWorkers(m, S)
  BY DEF Agree
<1> HIDE DEF n
<1>1. Started(m, S, n)
  BY <1>0, StartWorkersIs
<1>2. n \in Manager /\ n.queue = m.queue
  BY <1>1 DEF Started
<1>3. /\ Running(n) = Running(m) \cup S /\ ActiveRuns(n) = ActiveRuns(m) \cup S
      /\ {r \in Runs : n.st[r] = "queued"} = {r \in Runs : m.st[r] = "queued"} \ S
  BY <1>1 DEF Started, Running, ActiveRuns, Active
<1>4. QueueAgrees(n, {})
  BY <1>1, <1>3 DEF Agree, QueueAgrees, Started
<1>5. LimitsHold(n, {})
  BY <1>1, <1>3 DEF Agree, LimitsHold, RunningCount, Started
<1>6. MarksAgree(n, {})
  <2>1. m.resumable \subseteq Runs /\ m.synth \subseteq Runs
    BY <1>0 DEF Manager
  <2>2. QED
    BY <1>1, <2>1 DEF Agree, MarksAgree, HasBudget, Started
<1>7. BudgetAgrees(n, {})
  <2>1. \A r \in Runs : m.starts[r] \in Nat /\ m.attempts[r] \in Nat
    BY <1>0 DEF Manager
  <2>2. QED
    BY <1>1, <2>1, LimitsAssumption DEF Agree, BudgetAgrees, Started
<1>8. TasksAgree(n, {})
  <2>1. \A r \in Runs : n.task[r] = IF n.st[r] = "running" THEN n.starts[r] ELSE 0
    BY <1>1 DEF Agree, TasksAgree, Started
  <2>2. \A t \in NewTasks(m, S) : t.run \in S /\ t.n = m.starts[t.run] + 1 /\ t.at = "created"
    BY DEF NewTasks
  <2>3. \A t \in m.live : t.run \in Runs /\ t.run \notin S
    BY <1>0 DEF Agree, TasksAgree, Manager, Workers
  <2>4. ASSUME NEW t \in n.live
        PROVE  t.n = n.starts[t.run] /\ t.n > 0 /\ n.st[t.run] \in {"running", "expired", "pruned"}
    <3>1. CASE t \in m.live
      BY <1>1, <2>3, <3>1 DEF Agree, TasksAgree, Started
    <3>2. CASE t \in NewTasks(m, S)
      <4>1. t.run \in S /\ t.run \in Runs /\ t.n = m.starts[t.run] + 1 /\ m.starts[t.run] \in Nat
        BY <1>0, <2>2, <3>2 DEF Manager
      <4>2. n.starts[t.run] = m.starts[t.run] + 1 /\ n.st[t.run] = "running"
        BY <1>1, <4>1 DEF Started
      <4>3. QED
        BY <4>1, <4>2
    <3>3. QED
      BY <1>1, <3>1, <3>2 DEF Started
  <2>5. ASSUME NEW t \in n.live, NEW u \in n.live, t.run = u.run PROVE t = u
    <3>1. t \in m.live /\ u \in m.live => t = u
      BY <2>5 DEF Agree, TasksAgree
    <3>2. t \in NewTasks(m, S) /\ u \in NewTasks(m, S) => t = u
      BY <2>5 DEF NewTasks
    <3>3. ~(t \in m.live /\ u \in NewTasks(m, S)) /\ ~(u \in m.live /\ t \in NewTasks(m, S))
      BY <2>2, <2>3, <2>5
    <3>4. QED
      BY <1>1, <3>1, <3>2, <3>3 DEF Started
  <2>6. QED
    BY <2>1, <2>4, <2>5 DEF TasksAgree
<1>9. Follows(m, n)
  BY <1>1 DEF Follows, Settled, Agree, MarksAgree, Started
<1>10. QED
  BY <1>2, <1>3, <1>4, <1>5, <1>6, <1>7, <1>8, <1>9 DEF Agree, n

\* Runs that wait start from the head of the queue, as many as there are slots.
LEMMA StartableIs ==
  ASSUME NEW m, Agree(m, {}), NEW k \in 0..Len(m.queue)
  PROVE  /\ Startable(m, k) = ToSet(SubSeq(m.queue, 1, k))
         /\ Startable(m, k) \subseteq {r \in Runs : m.st[r] = "queued"}
         /\ Cardinality(Running(m) \cup Startable(m, k)) = RunningCount(m) + k
<1> DEFINE S == ToSet(SubSeq(m.queue, 1, k))
<1>1. m \in Manager /\ m.queue \in Seq(Runs) /\ IsInjective(m.queue)
  BY DEF Agree, QueueAgrees, Manager
<1>2. S \subseteq ToSet(m.queue) /\ IsFiniteSet(S) /\ Cardinality(S) = k
  BY <1>1, SplitIs
<1> HIDE DEF S
<1>3. S \subseteq {r \in Runs : m.st[r] = "queued"} /\ S \subseteq m.pending
  BY <1>2 DEF Agree, QueueAgrees, ActiveRuns, Active
<1>4. Startable(m, k) = S
  BY <1>3 DEF Startable, S
<1>5. Running(m) \in SUBSET Runs /\ Running(m) \cap S = {}
  BY <1>3 DEF Running
<1>6. IsFiniteSet(Running(m)) /\ Cardinality(Running(m)) \in Nat /\ k \in Nat
  BY <1>5, CountRuns
<1>7. Cardinality(Running(m) \cup S) = Cardinality(Running(m)) + Cardinality(S)
                                       - Cardinality(Running(m) \cap S)
  BY <1>2, <1>6, FS_Union
<1>8. Cardinality(Running(m) \cap S) = 0
  BY <1>5, FS_EmptySet
<1>9. Cardinality(Running(m) \cup S) = RunningCount(m) + k
  BY <1>2, <1>6, <1>7, <1>8 DEF RunningCount
<1>10. QED
  BY <1>3, <1>4, <1>9 DEF S

LEMMA DequeuedIs ==
  ASSUME NEW m, Agree(m, {})
  PROVE  /\ Dequeued(m) \in 0..Len(m.queue) /\ RunningCount(m) + Dequeued(m) <= MaxRunning
         /\ RunningCount(m) + Dequeued(m) = MaxRunning \/ Dequeued(m) = Len(m.queue)
<1> DEFINE l == Len(m.queue)
           c == RunningCount(m)
           Full(k) == Cardinality(Running(m) \cup Startable(m, k)) >= MaxRunning
           Stop(k) == (Full(k) \/ k = l) /\ \A j \in 0..(k - 1) : ~Full(j)
<1>1. Dequeued(m) = CHOOSE k \in 0..l : Stop(k)
  BY DEF Dequeued
<1>2. l \in Nat /\ c \in Nat /\ c <= MaxRunning /\ MaxRunning \in Nat
  <2>1. m.queue \in Seq(Runs) /\ Running(m) \in SUBSET Runs
    BY DEF Agree, Manager, Running
  <2>2. QED
    BY <2>1, CountRuns, LimitsAssumption DEF RunningCount, Agree, LimitsHold
<1>3. \A k \in 0..l : Full(k) <=> c + k >= MaxRunning
  BY StartableIs
<1> HIDE DEF Full, l, c
<1> DEFINE k0 == IF MaxRunning - c < l THEN MaxRunning - c ELSE l
<1>4. k0 \in 0..l /\ Stop(k0)
  <2>1. k0 \in 0..l /\ (c + k0 >= MaxRunning \/ k0 = l)
    BY <1>2
  <2>2. \A j \in 0..(k0 - 1) : j \in 0..l /\ ~(c + j >= MaxRunning)
    BY <1>2
  <2> HIDE DEF k0
  <2>3. QED
    BY <1>3, <2>1, <2>2
<1> DEFINE d == Dequeued(m)
<1>5. d \in 0..l /\ Stop(d)
  <2> HIDE DEF Stop, k0
  <2>1. QED
    BY <1>1, <1>4
<1> HIDE DEF d
<1>6. c + d <= MaxRunning /\ (c + d = MaxRunning \/ d = l)
  <2>1. c + d <= MaxRunning
    <3>1. CASE d = 0
      BY <1>2, <3>1
    <3>2. CASE d # 0
      <4>1. d - 1 \in 0..(d - 1) /\ d - 1 \in 0..l
        BY <1>2, <1>5, <3>2
      <4>2. ~(c + (d - 1) >= MaxRunning)
        BY <1>3, <1>5, <4>1
      <4>3. QED
        BY <1>2, <1>5, <4>2
    <3>3. QED
      BY <3>1, <3>2
  <2>2. QED
    BY <1>2, <1>3, <1>5, <2>1
<1>7. QED
  BY <1>5, <1>6 DEF l, c, d

\* A worker's end or a sweep hands the free slots on: then none is free while a run waits.
LEMMA DrainAgrees ==
  ASSUME NEW m, Agree(m, {})
  PROVE  /\ Agree(Drain(m), {}) /\ Busy(Drain(m)) /\ Follows(m, Drain(m))
         /\ Drain(m).attempts = m.attempts
         /\ \A r \in Runs : m.st[r] = "none" => Drain(m).st[r] = "none"
<1> DEFINE k == Dequeued(m)
           S == Startable(m, k)
           rest == SubSeq(m.queue, k + 1, Len(m.queue))
           w == [m EXCEPT !.queue = rest]
           n == StartWorkers(w, S)
<1>1. Drain(m) = n
  BY DEF Drain
<1>2. m \in Manager /\ m.queue \in Seq(Runs) /\ IsInjective(m.queue) /\ Len(m.queue) \in Nat
  BY DEF Agree, QueueAgrees, Manager
<1>3. /\ k \in 0..Len(m.queue) /\ RunningCount(m) + k <= MaxRunning
      /\ RunningCount(m) + k = MaxRunning \/ k = Len(m.queue)
  BY DequeuedIs
<1> HIDE DEF k
<1>4. /\ S = ToSet(SubSeq(m.queue, 1, k)) /\ S \subseteq {r \in Runs : m.st[r] = "queued"}
      /\ Cardinality(Running(m) \cup S) = RunningCount(m) + k
  BY <1>3, StartableIs
<1>5. /\ rest \in Seq(Runs) /\ Len(rest) = Len(m.queue) - k /\ IsInjective(rest)
      /\ ToSet(rest) = ToSet(m.queue) \ S
  BY <1>2, <1>3, <1>4, SplitIs
<1> HIDE DEF S, rest
<1>6. /\ w \in Manager /\ w.queue = rest
      /\ w.st = m.st /\ w.sess = m.sess /\ w.resumable = m.resumable /\ w.attempts = m.attempts
      /\ w.synth = m.synth /\ w.pending = m.pending /\ w.task = m.task /\ w.live = m.live
      /\ w.starts = m.starts
  BY <1>2, <1>5 DEF Manager
<1> HIDE DEF w
<1>7. Agree(w, S)
  <2>1. QueueAgrees(w, S)
    <3>1. Len(rest) <= MaxQueued
      BY <1>2, <1>3, <1>5, LimitsAssumption DEF Agree, QueueAgrees
    <3>2. m.pending = ActiveRuns(m) \cup S
      BY <1>4 DEF Agree, QueueAgrees, ActiveRuns, Active
    <3>3. QED
      BY <1>5, <1>6, <3>1, <3>2 DEF Agree, QueueAgrees, ActiveRuns
  <2>2. TasksAgree(w, S)
    BY <1>4, <1>6 DEF Agree, TasksAgree
  <2>3. MarksAgree(w, S)
    BY <1>4, <1>6 DEF Agree, MarksAgree, HasBudget, Settled, Terminal
  <2>4. BudgetAgrees(w, S)
    BY <1>4, <1>6 DEF Agree, BudgetAgrees
  <2>5. LimitsHold(w, S)
    <3>1. ActiveRuns(w) \cup S = ActiveRuns(m) \cup {} /\ Running(w) = Running(m)
      BY <1>4, <1>6 DEF ActiveRuns, Active, Running
    <3>2. QED
      BY <1>6, <3>1 DEF Agree, LimitsHold, RunningCount
  <2>6. QED
    BY <1>6, <2>1, <2>2, <2>3, <2>4, <2>5 DEF Agree
<1>8. Running(w) = Running(m) /\ S \in SUBSET Runs
  BY <1>4, <1>6 DEF Running
<1>9. Cardinality(Running(w) \cup S) <= MaxRunning
  BY <1>3, <1>4, <1>8
<1>10. Agree(n, {}) /\ Follows(w, n) /\ Running(n) = Running(w) \cup S /\ n.queue = w.queue
  BY <1>7, <1>8, <1>9, StartAgrees
<1>11. Started(w, S, n)
  BY <1>6, <1>8, StartWorkersIs
<1> HIDE DEF n
<1>12. Busy(n)
  <2>1. RunningCount(n) = RunningCount(m) + k
    BY <1>4, <1>8, <1>10 DEF RunningCount
  <2>2. k = Len(m.queue) => rest = <<>>
    BY <1>2, <1>5
  <2>3. QED
    BY <1>3, <1>6, <1>10, <2>1, <2>2 DEF Busy
<1>13. Follows(m, n)
  BY <1>6, <1>10 DEF Follows, Settled
<1>14. n.attempts = m.attempts /\ \A r \in Runs : m.st[r] = "none" => n.st[r] = "none"
  BY <1>4, <1>6, <1>11 DEF Started
<1>15. QED
  BY <1>1, <1>10, <1>12, <1>13, <1>14

\* A sweep keeps what it should.
Swept(m, n) ==
  /\ Agree(n, {}) /\ Busy(n) /\ Follows(m, n) /\ n.attempts = m.attempts
  /\ \A r \in Runs : m.st[r] = "none" => n.st[r] = "none"

LEMMA SweepAgrees ==
  ASSUME NEW m, Agree(m, {}), Busy(m), NEW late \in SUBSET Runs, NEW stale \in SUBSET Runs,
         NEW old \in SUBSET Runs, NEW n, n = Sweep(m, late, stale, old)
  PROVE  Swept(m, n)
<1> DEFINE expired == late \cap ActiveRuns(m)
           lost    == (stale \cap ActiveRuns(m)) \ (expired \cup Touched(m))
           end     == [r \in expired \cup lost |-> IF r \in expired THEN "expired" ELSE "interrupted"]
           pruned  == old \cap Prunable(m)
           told    == CancelTasks(m, expired)
           ended   == Terminate(told, expired \cup lost, end, lost)
           left    == Forget(ended, pruned)
<1>1. n = IF expired \cup lost \cup Touched(m) \cup pruned # {} THEN Drain(left) ELSE m
  BY DEF Sweep
<1>2. expired \in SUBSET Runs /\ lost \in SUBSET Runs /\ pruned \in SUBSET Runs
  BY DEF ActiveRuns
<1>3. m \in Manager /\ m.st \in [Runs -> Statuses]
  BY DEF Agree, Manager
<1>4. \A r \in expired \cup lost : m.st[r] \in Active
  BY DEF ActiveRuns
<1>5. \A r \in lost : r \notin expired /\ r \notin Touched(m)
  OBVIOUS
<1>6. /\ end \in [expired \cup lost -> Terminal]
      /\ \A r \in lost : end[r] # "expired"
      /\ \A r \in expired : end[r] = "expired"
  BY <1>5 DEF Terminal
<1>7. \A r \in pruned : Settled(m, r)
  BY DEF Prunable, Settled
<1> HIDE DEF expired, lost, end, pruned
<1>8. Agree(told, {}) /\ Follows(m, told)
  BY <1>2, CancelTasksAgree
<1>9. /\ told.st = m.st /\ told.attempts = m.attempts /\ told.resumable = m.resumable
      /\ told.task = m.task /\ told.starts = m.starts
      /\ \A t \in told.live : \E u \in m.live : t.run = u.run /\ t.n = u.n
  BY <1>2, CancelTasksIs
<1> HIDE DEF told
<1>10. \A t \in m.live : t.run \in lost => FALSE
  <2>1. ASSUME NEW t \in m.live, t.run \in lost PROVE FALSE
    <3>1. t.run \in Runs /\ t.n = m.starts[t.run] /\ m.st[t.run] = "running"
      BY <1>2, <1>4, <2>1 DEF Agree, TasksAgree, Active
    <3>2. t.n = m.task[t.run]
      BY <3>1 DEF Agree, TasksAgree
    <3>3. t \in LiveTasks(m, t.run)
      BY <3>2 DEF LiveTasks
    <3>4. t.run \in Touched(m)
      BY <3>1, <3>3 DEF Touched, ActiveRuns, Active
    <3>5. QED
      BY <1>5, <2>1, <3>4
  <2>2. QED
    BY <2>1
<1>11. Agree(ended, {}) /\ Follows(told, ended)
  <2>1. \A r \in expired \cup lost : ~Settled(told, r) /\ (r \in lost => end[r] # "expired")
    BY <1>4, <1>6, <1>9 DEF Settled, Active, Terminal
  <2>2. \A t \in told.live : t.run \in expired \cup lost => end[t.run] = "expired"
    BY <1>6, <1>9, <1>10
  <2>3. expired \cup lost \in SUBSET Runs /\ lost \in SUBSET (expired \cup lost)
    BY <1>2
  <2>4. QED
    BY <1>6, <1>8, <2>1, <2>2, <2>3, TerminateAgrees
<1>12. Terminated(told, expired \cup lost, end, lost, ended)
  <2>1. expired \cup lost \in SUBSET Runs /\ lost \in SUBSET (expired \cup lost)
    BY <1>2
  <2>2. told \in Manager
    BY <1>8 DEF Agree
  <2>3. QED
    BY <1>6, <2>1, <2>2, TerminateIs
<1> HIDE DEF ended
<1>13. \A r \in pruned : Settled(ended, r)
  BY <1>2, <1>7, <1>8, <1>11 DEF Follows
<1>14. Agree(left, {}) /\ Follows(ended, left)
  BY <1>2, <1>11, <1>13, ForgetAgrees
<1>15. left.attempts = ended.attempts /\ \A r \in Runs : r \notin pruned => left.st[r] = ended.st[r]
  <2>1. ended \in Manager
    BY <1>11 DEF Agree
  <2>2. QED
    BY <2>1 DEF Forget, Manager
<1> HIDE DEF left
<1>16. /\ Agree(Drain(left), {}) /\ Busy(Drain(left)) /\ Follows(left, Drain(left))
       /\ Drain(left).attempts = left.attempts
       /\ \A r \in Runs : left.st[r] = "none" => Drain(left).st[r] = "none"
  BY <1>14, DrainAgrees
<1>17. Follows(m, Drain(left))
  BY <1>8, <1>11, <1>14, <1>16, FollowsTwice
<1>18. Drain(left).attempts = m.attempts
  BY <1>9, <1>12, <1>15, <1>16 DEF Terminated
<1>19. ASSUME NEW r \in Runs, m.st[r] = "none" PROVE Drain(left).st[r] = "none"
  <2>1. r \notin expired \cup lost /\ r \notin pruned
    BY <1>4, <1>7, <1>19 DEF Active, Settled, Terminal
  <2>2. ended.st[r] = "none"
    BY <1>9, <1>12, <1>19, <2>1 DEF Terminated
  <2>3. QED
    BY <1>15, <1>16, <2>1, <2>2
<1>20. Follows(m, m)
  BY DEF Follows
<1>21. QED
  BY <1>1, <1>16, <1>17, <1>18, <1>19, <1>20 DEF Swept

LEMMA SweptAgrees ==
  ASSUME NEW m, Agree(m, {}), Busy(m), NEW n \in SweepResults(m)
  PROVE  Swept(m, n)
<1>1. PICK late \in (IF Expires THEN SUBSET ActiveRuns(m) ELSE {{}}),
           stale \in SUBSET (ActiveRuns(m) \ Touched(m)),
           old \in (IF Expires THEN SUBSET Prunable(m) ELSE {{}}) : n = Sweep(m, late, stale, old)
  BY DEF SweepResults
<1>2. late \in SUBSET Runs /\ stale \in SUBSET Runs /\ old \in SUBSET Runs
  BY DEF ActiveRuns, Prunable
<1>3. QED
  BY <1>1, <1>2, SweepAgrees

\* A run that has a runner starts, or waits.
LEMMA LaunchAgrees ==
  ASSUME NEW m, NEW r \in Runs, Agree(m, {r}), Busy(m), HasRoom(m)
  PROVE  Agree(Launch(m, r), {}) /\ Busy(Launch(m, r)) /\ Follows(m, Launch(m, r))
<1>1. /\ m \in Manager /\ m.queue \in Seq(Runs) /\ Len(m.queue) \in Nat
      /\ Running(m) \in SUBSET Runs /\ RunningCount(m) \in Nat /\ RunningCount(m) <= MaxRunning
  <2>1. Running(m) \in SUBSET Runs
    BY DEF Running
  <2>2. m \in Manager /\ m.queue \in Seq(Runs)
    BY DEF Agree, Manager
  <2>3. RunningCount(m) \in Nat
    BY <2>1, CountRuns DEF RunningCount
  <2>4. RunningCount(m) <= MaxRunning
    BY DEF Agree, LimitsHold
  <2>5. QED
    BY <2>1, <2>2, <2>3, <2>4
<1>2. CASE RunningCount(m) < MaxRunning
  <2>1. Cardinality(Running(m) \cup {r}) <= MaxRunning
    <3>1. IsFiniteSet(Running(m))
      BY <1>1, CountRuns
    <3>2. \/ Cardinality(Running(m) \cup {r}) = Cardinality(Running(m))
          \/ Cardinality(Running(m) \cup {r}) = Cardinality(Running(m)) + 1
      BY <3>1, FS_AddElement
    <3>3. QED
      BY <1>1, <1>2, <3>2, LimitsAssumption DEF RunningCount
  <2>2. {r} \in SUBSET Runs
    OBVIOUS
  <2>3. /\ Agree(StartWorkers(m, {r}), {}) /\ Follows(m, StartWorkers(m, {r}))
        /\ StartWorkers(m, {r}).queue = m.queue
    BY <2>1, <2>2, StartAgrees
  <2>4. m.queue = <<>>
    BY <1>1, <1>2, LimitsAssumption DEF Busy
  <2>5. QED
    BY <1>2, <2>3, <2>4 DEF Launch, Busy
<1>3. CASE ~(RunningCount(m) < MaxRunning)
  <2> DEFINE n == Enqueue(m, r)
             st == [m.st EXCEPT ![r] = "queued"]
  <2>1. Launch(m, r) = n /\ Len(m.queue) < MaxQueued /\ RunningCount(m) = MaxRunning
    BY <1>1, <1>3, LimitsAssumption DEF Launch, HasRoom
  <2>2. r \notin ToSet(m.queue) /\ IsInjective(m.queue)
    BY DEF Agree, QueueAgrees
  <2>3. /\ Append(m.queue, r) \in Seq(Runs) /\ Len(Append(m.queue, r)) = Len(m.queue) + 1
        /\ ToSet(Append(m.queue, r)) = ToSet(m.queue) \cup {r} /\ IsInjective(Append(m.queue, r))
    BY <1>1, <2>2, AppendIs
  <2>4. /\ n \in Manager /\ n.queue = Append(m.queue, r)
        /\ n.st = st /\ n.resumable = m.resumable \ {r} /\ n.synth = m.synth \ {r}
        /\ n.sess = m.sess /\ n.attempts = m.attempts /\ n.pending = m.pending
        /\ n.task = m.task /\ n.live = m.live /\ n.starts = m.starts
    BY <1>1, <2>3, Zenon DEF Enqueue, Manager, Statuses, Active
  <2>5. \A q \in Runs : st[q] = IF q = r THEN "queued" ELSE m.st[q]
    BY <1>1 DEF Manager
  <2> HIDE DEF n, st
  <2>6. m.st[r] # "running" /\ ~Settled(m, r)
    BY DEF Agree, MarksAgree
  <2>7. Running(n) = Running(m) /\ ActiveRuns(n) = ActiveRuns(m) \cup {r}
        /\ {q \in Runs : n.st[q] = "queued"} = {q \in Runs : m.st[q] = "queued"} \cup {r}
    BY <2>4, <2>5, <2>6 DEF Running, ActiveRuns, Active
  <2>8. QueueAgrees(n, {})
    <3>1. Len(n.queue) <= MaxQueued
      BY <1>1, <2>1, <2>3, <2>4, LimitsAssumption
    <3>2. ToSet(n.queue) = {q \in Runs : n.st[q] = "queued"}
      BY <2>3, <2>4, <2>7 DEF Agree, QueueAgrees
    <3>3. n.pending = ActiveRuns(n)
      BY <2>4, <2>7 DEF Agree, QueueAgrees
    <3>4. QED
      BY <2>3, <2>4, <3>1, <3>2, <3>3 DEF QueueAgrees
  <2>9. TasksAgree(n, {})
    <3>1. \A t \in m.live : t.run \in Runs /\ t.run # r
      BY <1>1 DEF Manager, Workers, Agree, TasksAgree
    <3>2. QED
      BY <2>4, <2>5, <2>6, <3>1 DEF Agree, TasksAgree
  <2>10. MarksAgree(n, {})
    <3>1. m.resumable \subseteq Runs /\ m.synth \subseteq Runs
      BY <1>1 DEF Manager
    <3>2. QED
      BY <2>4, <2>5, <3>1 DEF Agree, MarksAgree, HasBudget
  <2>11. BudgetAgrees(n, {})
    BY <2>4, <2>5 DEF Agree, BudgetAgrees
  <2>12. LimitsHold(n, {})
    BY <2>4, <2>7 DEF Agree, LimitsHold, RunningCount
  <2>13. Busy(n)
    BY <2>1, <2>7 DEF Busy, RunningCount
  <2>14. Follows(m, n)
    BY <2>4, <2>5, <2>6 DEF Follows, Settled
  <2>15. QED
    BY <2>1, <2>4, <2>8, <2>9, <2>10, <2>11, <2>12, <2>13, <2>14 DEF Agree
<1>4. QED
  BY <1>2, <1>3

\* A new run: it gets its session, and its runner.
Named(m, r, own) == [m EXCEPT !.sess[r] = own, !.pending = @ \cup {r}]

LEMMA SpawnAgrees ==
  ASSUME NEW m, NEW r \in Runs, NEW own \in Owners, Agree(m, {}), Busy(m), m.st[r] = "none",
         Outstanding(m, own) < Quota, HasRoom(m), NEW n, n = Launch(Named(m, r, own), r)
  PROVE  Agree(n, {}) /\ Busy(n) /\ Follows(m, n)
<1> DEFINE w == Named(m, r, own)
           sess == [m.sess EXCEPT ![r] = own]
<1>1. m \in Manager
  BY DEF Agree
<1>2. /\ w \in Manager /\ w.sess = sess /\ w.pending = m.pending \cup {r}
      /\ w.st = m.st /\ w.resumable = m.resumable /\ w.attempts = m.attempts
      /\ w.synth = m.synth /\ w.queue = m.queue /\ w.task = m.task /\ w.live = m.live
      /\ w.starts = m.starts
  BY <1>1, Zenon DEF Manager, Named
<1>3. \A q \in Runs : sess[q] = IF q = r THEN own ELSE m.sess[q]
  BY <1>1 DEF Manager
<1> HIDE DEF w, sess
<1>4. /\ Running(w) = Running(m) /\ ActiveRuns(w) = ActiveRuns(m) /\ r \notin ActiveRuns(m)
      /\ ~Settled(m, r) /\ ~Settled(w, r)
  BY <1>2 DEF Running, ActiveRuns, Active, Settled, Terminal
<1>5. QueueAgrees(w, {r})
  BY <1>2, <1>4 DEF Agree, QueueAgrees
<1>6. TasksAgree(w, {r})
  BY <1>2 DEF Agree, TasksAgree
<1>7. MarksAgree(w, {r})
  BY <1>2, <1>4 DEF Agree, MarksAgree, HasBudget
<1>8. BudgetAgrees(w, {r})
  BY <1>2 DEF Agree, BudgetAgrees
<1>9. LimitsHold(w, {r})
  <2>1. ASSUME NEW x \in Owners
        PROVE  Cardinality({q \in ActiveRuns(w) \cup {r} : w.sess[q] = x}) <= Quota
    <3> DEFINE A == {q \in ActiveRuns(m) : m.sess[q] = x}
               B == {q \in ActiveRuns(w) \cup {r} : w.sess[q] = x}
    <3>1. A \in SUBSET Runs /\ r \notin A /\ Cardinality(A) <= Quota
      BY <1>4 DEF ActiveRuns, Agree, LimitsHold
    <3>2. B = IF x = own THEN A \cup {r} ELSE A
      BY <1>2, <1>3, <1>4 DEF ActiveRuns
    <3>3. x = own => Cardinality(A) < Quota
      BY DEF Outstanding
    <3> HIDE DEF A, B
    <3>4. IsFiniteSet(A) /\ Cardinality(A) \in Nat
      BY <3>1, CountRuns
    <3>5. Cardinality(A \cup {r}) = Cardinality(A) + 1
      BY <3>1, <3>4, FS_AddElement
    <3>6. Cardinality(B) <= Quota
      BY <3>1, <3>2, <3>3, <3>4, <3>5, LimitsAssumption
    <3>7. QED
      BY <3>6 DEF B
  <2>2. QED
    BY <1>4, <2>1 DEF Agree, LimitsHold, RunningCount
<1>10. Agree(w, {r})
  BY <1>2, <1>5, <1>6, <1>7, <1>8, <1>9 DEF Agree
<1>11. Busy(w) /\ HasRoom(w)
  BY <1>2, <1>4 DEF Busy, HasRoom, RunningCount
<1>12. Agree(n, {}) /\ Busy(n) /\ Follows(w, n)
  BY <1>10, <1>11, LaunchAgrees DEF w
<1>13. Follows(m, w)
  BY <1>2, <1>3, <1>4 DEF Follows, Settled
<1>14. QED
  BY <1>12, <1>13, FollowsTwice

\* A run that may be resumed: it gets its runner back, at the price of an attempt.
Again(m, r) == [m EXCEPT !.attempts[r] = @ + 1, !.pending = @ \cup {r}]

LEMMA ResumeAgrees ==
  ASSUME NEW m, NEW r \in m.resumable, NEW late, Agree(m, {}), Busy(m), late \/ CanResume(m, r),
         NEW n, n = ResumeRun(m, r, late)
  PROVE  Agree(n, {}) /\ Busy(n) /\ Follows(m, n)
<1>1. m \in Manager /\ r \in Runs /\ m.queue \in Seq(Runs)
  BY DEF Agree, Manager
<1>2. m.st[r] \in Terminal \ {"expired"} /\ ~Settled(m, r) /\ HasBudget(m, r)
  BY DEF Agree, MarksAgree, Settled
<1>3. \A t \in m.live : t.run # r
  BY <1>2 DEF Agree, TasksAgree, Terminal
<1>4. CASE late
  <2> DEFINE end == [q \in {r} |-> "expired"]
  <2>1. n = Terminate(m, {r}, end, {})
    BY <1>4 DEF ResumeRun
  <2>2. {r} \in SUBSET Runs /\ {} \in SUBSET {r} /\ end \in [{r} -> Terminal]
    BY <1>1 DEF Terminal
  <2> HIDE DEF end
  <2>3. \A q \in {r} : ~Settled(m, q) /\ (q \in {} => end[q] # "expired")
    BY <1>2
  <2>4. \A t \in m.live : t.run \in {r} => end[t.run] = "expired"
    BY <1>3
  <2>5. Agree(n, {}) /\ Follows(m, n)
    BY <2>1, <2>2, <2>3, <2>4, TerminateAgrees
  <2>6. Terminated(m, {r}, end, {}, n)
    BY <1>1, <2>1, <2>2, TerminateIs
  <2>7. Running(n) = Running(m)
    BY <1>2, <2>2, <2>6 DEF Running, Terminated, Terminal
  <2>8. n.queue # <<>> => m.queue # <<>>
    BY <1>1, <2>6 DEF Terminated, Manager
  <2>9. QED
    BY <2>5, <2>7, <2>8 DEF Busy, RunningCount
<1>5. CASE ~late
  <2> DEFINE w == Again(m, r)
             attempts == [m.attempts EXCEPT ![r] = @ + 1]
             own == m.sess[r]
  <2>1. n = Launch(w, r) /\ HasRoom(m) /\ Outstanding(m, own) < Quota
    BY <1>5 DEF ResumeRun, Again, CanResume
  <2>2. m.attempts \in [Runs -> Nat] /\ m.starts \in [Runs -> Nat] /\ attempts \in [Runs -> Nat]
    BY <1>1 DEF Manager
  <2>3. /\ w \in Manager /\ w.attempts = attempts /\ w.pending = m.pending \cup {r}
        /\ w.st = m.st /\ w.sess = m.sess /\ w.resumable = m.resumable
        /\ w.synth = m.synth /\ w.queue = m.queue /\ w.task = m.task /\ w.live = m.live
        /\ w.starts = m.starts
    BY <1>1, <2>2, Zenon DEF Manager, Again
  <2>4. \A q \in Runs : attempts[q] = IF q = r THEN m.attempts[q] + 1 ELSE m.attempts[q]
    BY <2>2
  <2> HIDE DEF w, attempts
  <2>5. /\ Running(w) = Running(m) /\ ActiveRuns(w) = ActiveRuns(m) /\ r \notin ActiveRuns(m)
        /\ ~Settled(w, r)
    BY <1>2, <2>3 DEF Running, ActiveRuns, Active, Settled, Terminal
  <2>6. QueueAgrees(w, {r})
    BY <1>2, <2>3, <2>5 DEF Agree, QueueAgrees, Terminal
  <2>7. TasksAgree(w, {r})
    BY <1>3, <2>3 DEF Agree, TasksAgree
  <2>8. MarksAgree(w, {r})
    <3>1. m.resumable \subseteq Runs
      BY <1>1 DEF Manager
    <3>2. \A q \in m.resumable \ {r} : HasBudget(w, q) <=> HasBudget(m, q)
      BY <2>3, <2>4, <3>1 DEF HasBudget
    <3>3. m.st[r] # "running"
      BY <1>2 DEF Terminal
    <3>4. QED
      BY <2>3, <2>5, <3>2, <3>3 DEF Agree, MarksAgree
  <2>9. BudgetAgrees(w, {r})
    <3>1. m.attempts[r] + 1 <= MaxResume /\ m.st[r] # "none"
      BY <1>1, <1>2, <2>2, LimitsAssumption DEF HasBudget, Terminal
    <3>2. QED
      BY <1>1, <2>2, <2>3, <2>4, <3>1, LimitsAssumption DEF Agree, BudgetAgrees
  <2>10. LimitsHold(w, {r})
    <3>1. ASSUME NEW x \in Owners
          PROVE  Cardinality({q \in ActiveRuns(w) \cup {r} : w.sess[q] = x}) <= Quota
      <4> DEFINE A == {q \in ActiveRuns(m) : m.sess[q] = x}
                 B == {q \in ActiveRuns(w) \cup {r} : w.sess[q] = x}
      <4>1. A \in SUBSET Runs /\ r \notin A /\ Cardinality(A) <= Quota
        BY <2>5 DEF ActiveRuns, Agree, LimitsHold
      <4>2. B = IF x = own THEN A \cup {r} ELSE A
        BY <2>3, <2>5
      <4>3. x = own => Cardinality(A) < Quota
        BY <2>1 DEF Outstanding
      <4> HIDE DEF A, B
      <4>4. IsFiniteSet(A) /\ Cardinality(A) \in Nat
        BY <4>1, CountRuns
      <4>5. Cardinality(A \cup {r}) = Cardinality(A) + 1
        BY <4>1, <4>4, FS_AddElement
      <4>6. Cardinality(B) <= Quota
        BY <4>1, <4>2, <4>3, <4>4, <4>5, LimitsAssumption
      <4>7. QED
        BY <4>6 DEF B
    <3>2. QED
      BY <2>5, <3>1 DEF Agree, LimitsHold, RunningCount
  <2>11. Agree(w, {r})
    BY <2>3, <2>6, <2>7, <2>8, <2>9, <2>10 DEF Agree
  <2>12. Busy(w) /\ HasRoom(w)
    BY <2>1, <2>3, <2>5 DEF Busy, HasRoom, RunningCount
  <2>13. Agree(n, {}) /\ Busy(n) /\ Follows(w, n)
    BY <1>1, <2>1, <2>11, <2>12, LaunchAgrees
  <2>14. Follows(m, w)
    BY <2>3 DEF Follows, Settled
  <2>15. QED
    BY <2>13, <2>14, FollowsTwice
<1>6. QED
  BY <1>4, <1>5

\* A cancellation: the tasks are told, the runs in the queue end.
LEMMA CancelAgrees ==
  ASSUME NEW m, Agree(m, {}), Busy(m), NEW told \in SUBSET Runs, NEW queued \in SUBSET Runs,
         queued \subseteq ToSet(m.queue),
         NEW n, n = Terminate(CancelTasks(m, told), queued, [r \in queued |-> "failed"], queued)
  PROVE  /\ Agree(n, {}) /\ Busy(n) /\ Follows(m, n) /\ n.attempts = m.attempts
         /\ \A r \in Runs : r \notin queued => n.st[r] = m.st[r]
<1> DEFINE w == CancelTasks(m, told)
           end == [r \in queued |-> "failed"]
<1>1. Agree(w, {}) /\ Follows(m, w) /\ Busy(w)
  BY CancelTasksAgree
<1>2. w.st = m.st /\ w.queue = m.queue /\ w.attempts = m.attempts
  BY CancelTasksIs
<1>3. w \in Manager /\ w.queue \in Seq(Runs)
  BY <1>1 DEF Agree, Manager
<1> HIDE DEF w
<1>4. \A r \in queued : w.st[r] = "queued"
  BY <1>2 DEF Agree, QueueAgrees
<1>5. end \in [queued -> Terminal] /\ \A r \in queued : end[r] = "failed"
  BY DEF Terminal
<1>6. n = Terminate(w, queued, end, queued)
  BY DEF w
<1> HIDE DEF end
<1>7. \A r \in queued : ~Settled(w, r) /\ (r \in queued => end[r] # "expired")
  BY <1>4, <1>5 DEF Settled, Terminal
<1>8. \A t \in w.live : t.run \in queued => end[t.run] = "expired"
  BY <1>1, <1>4 DEF Agree, TasksAgree
<1>9. queued \in SUBSET queued
  OBVIOUS
<1>10. Agree(n, {}) /\ Follows(w, n)
  BY <1>1, <1>5, <1>6, <1>7, <1>8, <1>9, TerminateAgrees
<1>11. Terminated(w, queued, end, queued, n)
  BY <1>3, <1>5, <1>6, <1>9, TerminateIs
<1>12. Running(n) = Running(w)
  BY <1>4, <1>5, <1>11 DEF Running, Terminated
<1>13. n.queue # <<>> => w.queue # <<>>
  <2>1. n.queue \in Seq(Runs) /\ Len(n.queue) <= Len(w.queue)
    BY <1>11 DEF Terminated, Manager
  <2>2. QED
    BY <1>3, <2>1
<1>14. Busy(n)
  BY <1>1, <1>12, <1>13 DEF Busy, RunningCount
<1>15. n.attempts = m.attempts /\ \A r \in Runs : r \notin queued => n.st[r] = m.st[r]
  BY <1>2, <1>11 DEF Terminated
<1>16. QED
  BY <1>1, <1>10, <1>14, <1>15, FollowsTwice

\* A task takes its first step or ends: the tables do not name it by its stage.
Fewer(m, live) ==
  /\ live \in SUBSET Workers
  /\ \A t \in live : \E u \in m.live : t.run = u.run /\ t.n = u.n
  /\ \A t, u \in live : t.run = u.run => t = u

Rested(m, live, n) ==
  /\ Agree(n, {}) /\ Busy(n) /\ Follows(m, n)
  /\ n.attempts = m.attempts /\ n.st = m.st /\ n.live = live

LEMMA LiveAgrees ==
  ASSUME NEW m, Agree(m, {}), Busy(m), NEW live, Fewer(m, live), NEW n, n = [m EXCEPT !.live = live]
  PROVE  Rested(m, live, n)
<1>1. m \in Manager /\ live \in SUBSET Workers
  BY DEF Agree, Fewer
<1>2. /\ n \in Manager /\ n.live = live
      /\ n.st = m.st /\ n.sess = m.sess /\ n.resumable = m.resumable /\ n.attempts = m.attempts
      /\ n.synth = m.synth /\ n.queue = m.queue /\ n.pending = m.pending /\ n.task = m.task
      /\ n.starts = m.starts
  BY <1>1 DEF Manager
<1>3. QueueAgrees(n, {}) /\ MarksAgree(n, {}) /\ BudgetAgrees(n, {}) /\ LimitsHold(n, {})
  BY <1>2 DEF Agree, QueueAgrees, MarksAgree, BudgetAgrees, LimitsHold, ActiveRuns, Running,
              RunningCount, HasBudget, Settled
<1>4. TasksAgree(n, {})
  BY <1>2 DEF Agree, TasksAgree, Fewer
<1>5. Follows(m, n) /\ Busy(n)
  BY <1>2 DEF Follows, Settled, Busy, RunningCount, Running
<1>6. QED
  BY <1>2, <1>3, <1>4, <1>5 DEF Agree, Rested

(***************************************************************************)
(* The manager, its file and the digests.  What the file holds is what the *)
(* manager held when it last saved: the attempts are the same, and a       *)
(* run that the manager has forgotten the file has too.  A result that     *)
(* went into a reply is marked in both; one that a turn is summarising     *)
(* has ended for good, in that turn's session, and is not marked yet.      *)
(***************************************************************************)

File == [st : [Runs -> Statuses], sess : [Runs -> Owners \cup {"none"}],
         resumable : SUBSET Runs, attempts : [Runs -> Nat], synth : SUBSET Runs]

FileAgrees ==
  /\ disk \in File /\ disk.attempts = mgr.attempts
  /\ \A r \in disk.resumable : disk.st[r] \in Terminal \ {"expired"} /\ HasBudget(disk, r)
  /\ \A r \in disk.synth : disk.st[r] \in Terminal \cup {"pruned"}
  /\ \A r \in Runs : /\ disk.st[r] = "none" => mgr.st[r] = "none"
                     /\ mgr.st[r] = "pruned" => disk.st[r] = "pruned"

Marked(m, r) == Settled(m, r) /\ (r \in m.synth \/ m.st[r] = "pruned")

ReportsAgree ==
  /\ reported \in [Runs -> {0, 1}] /\ digest \in [Sessions -> SUBSET Runs]
  /\ \A r \in Runs : reported[r] = 1 => Marked(mgr, r) /\ Marked(disk, r)
  /\ \A s \in Sessions : \A r \in digest[s] :
       mgr.sess[r] = s /\ Settled(mgr, r) /\ r \notin mgr.synth /\ reported[r] = 0

SubagentInv == Agree(mgr, {}) /\ Busy(mgr) /\ FileAgrees /\ ReportsAgree

\* What a save writes.
LEMMA SavedIs ==
  ASSUME NEW m, Agree(m, {}), NEW d, d = Saved(m)
  PROVE  /\ d \in File /\ d.st = m.st /\ d.sess = m.sess /\ d.resumable = m.resumable
         /\ d.attempts = m.attempts /\ d.synth = m.synth
         /\ \A r \in d.resumable : d.st[r] \in Terminal \ {"expired"} /\ HasBudget(d, r)
         /\ \A r \in d.synth : d.st[r] \in Terminal \cup {"pruned"}
<1>1. m \in Manager
  BY DEF Agree
<1>2. /\ d \in File /\ d.st = m.st /\ d.sess = m.sess /\ d.resumable = m.resumable
      /\ d.attempts = m.attempts /\ d.synth = m.synth
  BY <1>1 DEF Saved, File, Manager
<1>3. QED
  BY <1>2 DEF Agree, MarksAgree, HasBudget

\* A step after which the manager follows what it was, and that saves if it changes
\* more than a task.
LEMMA FollowsKeeps ==
  ASSUME SubagentInv, Agree(mgr', {}), Busy(mgr'), Follows(mgr, mgr'),
         disk' = Saved(mgr') \/ (disk' = disk /\ mgr'.attempts = mgr.attempts /\ mgr'.st = mgr.st),
         reported' = reported, digest' \in [Sessions -> SUBSET Runs],
         \A s \in Sessions : digest'[s] \subseteq digest[s]
  PROVE  SubagentInv'
<1>1. FileAgrees'
  <2>1. CASE disk' = Saved(mgr')
    BY <2>1, SavedIs DEF FileAgrees
  <2>2. CASE disk' = disk /\ mgr'.attempts = mgr.attempts /\ mgr'.st = mgr.st
    BY <2>2 DEF SubagentInv, FileAgrees
  <2>3. QED
    BY <2>1, <2>2
<1>2. ReportsAgree'
  <2>1. ASSUME NEW r \in Runs, reported[r] = 1 PROVE Marked(mgr', r) /\ Marked(disk', r)
    <3>1. Marked(mgr, r) /\ Marked(disk, r)
      BY <2>1 DEF SubagentInv, ReportsAgree
    <3>2. Marked(mgr', r)
      BY <3>1 DEF Follows, Marked
    <3>3. CASE disk' = Saved(mgr')
      <4>1. disk'.st = mgr'.st /\ disk'.resumable = mgr'.resumable /\ disk'.synth = mgr'.synth
        BY <3>3, SavedIs
      <4>2. QED
        BY <3>2, <4>1 DEF Marked, Settled
    <3>4. QED
      BY <3>1, <3>2, <3>3
  <2>2. ASSUME NEW s \in Sessions, NEW r \in digest'[s]
        PROVE  mgr'.sess[r] = s /\ Settled(mgr', r) /\ r \notin mgr'.synth /\ reported'[r] = 0
    <3>1. r \in digest[s] /\ r \in Runs
      OBVIOUS
    <3>2. mgr.sess[r] = s /\ Settled(mgr, r) /\ r \notin mgr.synth /\ reported[r] = 0
      BY <3>1 DEF SubagentInv, ReportsAgree
    <3>3. QED
      BY <3>1, <3>2 DEF Follows
  <2>3. reported' \in [Runs -> {0, 1}]
    BY DEF SubagentInv, ReportsAgree
  <2>4. QED
    BY <2>1, <2>2, <2>3 DEF ReportsAgree
<1>3. QED
  BY <1>1, <1>2 DEF SubagentInv

LEMMA DigestKept ==
  ASSUME SubagentInv, UNCHANGED digest
  PROVE  digest' \in [Sessions -> SUBSET Runs] /\ \A s \in Sessions : digest'[s] \subseteq digest[s]
  BY DEF SubagentInv, ReportsAgree

LEMMA SpawnKeeps ==
  ASSUME SubagentInv, NEW r \in Runs, NEW s \in Sessions, Spawn(r, s)
  PROVE  SubagentInv'
<1>1. Agree(mgr, {}) /\ Busy(mgr)
  BY DEF SubagentInv
<1> DEFINE own == IF r \in SpawnTool THEN r ELSE s
<1>2. PICK swept \in SweepResults(mgr) :
        /\ Outstanding(swept, own) < Quota /\ HasRoom(swept)
        /\ mgr' = Launch(Named(swept, r, own), r)
  BY DEF Spawn, Named
<1>3. mgr.st[r] = "none" /\ disk' = Saved(mgr') /\ UNCHANGED <<digest, reported>>
  BY DEF Spawn, Save
<1>4. own \in Owners
  BY DEF Owners
<1> HIDE DEF own
<1>5. Swept(mgr, swept)
  BY <1>1, SweptAgrees
<1>6. Agree(swept, {}) /\ Busy(swept) /\ Follows(mgr, swept) /\ swept.st[r] = "none"
  BY <1>3, <1>5 DEF Swept
<1>7. Agree(mgr', {}) /\ Busy(mgr') /\ Follows(swept, mgr')
  BY <1>2, <1>4, <1>6, SpawnAgrees
<1>8. Follows(mgr, mgr')
  BY <1>6, <1>7, FollowsTwice
<1>9. QED
  BY <1>3, <1>7, <1>8, DigestKept, FollowsKeeps

LEMMA ResumeKeeps ==
  ASSUME SubagentInv, NEW r \in Runs, Resume(r)
  PROVE  SubagentInv'
<1>1. Agree(mgr, {}) /\ Busy(mgr)
  BY DEF SubagentInv
<1>2. PICK swept \in SweepResults(mgr), late \in (IF Expires THEN BOOLEAN ELSE {FALSE}) :
        r \in swept.resumable /\ (late \/ CanResume(swept, r)) /\ mgr' = ResumeRun(swept, r, late)
  BY DEF Resume
<1>3. disk' = Saved(mgr') /\ UNCHANGED <<digest, reported>>
  BY DEF Resume, Save
<1>4. Swept(mgr, swept)
  BY <1>1, SweptAgrees
<1>5. Agree(swept, {}) /\ Busy(swept) /\ Follows(mgr, swept)
  BY <1>4 DEF Swept
<1>6. Agree(mgr', {}) /\ Busy(mgr') /\ Follows(swept, mgr')
  BY <1>2, <1>5, ResumeAgrees
<1>7. Follows(mgr, mgr')
  BY <1>5, <1>6, FollowsTwice
<1>8. QED
  BY <1>3, <1>6, <1>7, DigestKept, FollowsKeeps

LEMMA ReplayKeeps ==
  ASSUME SubagentInv, NEW r, ReplayRow(r)
  PROVE  SubagentInv'
<1>1. Agree(mgr, {}) /\ Busy(mgr)
  BY DEF SubagentInv
<1>2. PICK swept \in SweepResults(mgr), late \in (IF Expires THEN BOOLEAN ELSE {FALSE}) :
        mgr' = IF r \in swept.resumable /\ (late \/ CanResume(swept, r))
               THEN ResumeRun(swept, r, late) ELSE swept
  BY DEF ReplayRow
<1>3. disk' = Saved(mgr') \/ (disk' = disk /\ mgr' = mgr)
  BY DEF ReplayRow, Save
<1>4. UNCHANGED <<digest, reported>>
  BY DEF ReplayRow
<1>5. Swept(mgr, swept)
  BY <1>1, SweptAgrees
<1>6. Agree(swept, {}) /\ Busy(swept) /\ Follows(mgr, swept)
  BY <1>5 DEF Swept
<1>7. Agree(mgr', {}) /\ Busy(mgr') /\ Follows(mgr, mgr')
  <2>1. CASE r \in swept.resumable /\ (late \/ CanResume(swept, r))
    <3>1. Agree(mgr', {}) /\ Busy(mgr') /\ Follows(swept, mgr')
      BY <1>2, <1>6, <2>1, ResumeAgrees
    <3>2. QED
      BY <1>6, <3>1, FollowsTwice
  <2>2. CASE ~(r \in swept.resumable /\ (late \/ CanResume(swept, r)))
    BY <1>2, <1>6, <2>2
  <2>3. QED
    BY <2>1, <2>2
<1>8. QED
  BY <1>3, <1>4, <1>7, DigestKept, FollowsKeeps

LEMMA SweepKeeps ==
  ASSUME SubagentInv, MaintenanceSweep \/ LateSweep
  PROVE  SubagentInv'
<1>1. Agree(mgr, {}) /\ Busy(mgr)
  BY DEF SubagentInv
<1>2. PICK m : SweepTo(m) /\ (m \in SweepResults(mgr) \/ m = Sweep(mgr, {}, ActiveRuns(mgr), {}))
  BY DEF MaintenanceSweep, LateSweep
<1>3. mgr' = m /\ (disk' = Saved(mgr') \/ (disk' = disk /\ mgr' = mgr)) /\ UNCHANGED <<digest, reported>>
  BY <1>2 DEF SweepTo, Save
<1>4. Swept(mgr, m)
  <2>1. {} \in SUBSET Runs /\ ActiveRuns(mgr) \in SUBSET Runs
    BY DEF ActiveRuns
  <2>2. QED
    BY <1>1, <1>2, <2>1, SweptAgrees, SweepAgrees
<1>5. Agree(mgr', {}) /\ Busy(mgr') /\ Follows(mgr, mgr')
  BY <1>3, <1>4 DEF Swept
<1>6. QED
  BY <1>3, <1>5, DigestKept, FollowsKeeps

LEMMA CancelKeeps ==
  ASSUME SubagentInv, NEW S \in SUBSET Runs, CancelRuns(S)
  PROVE  SubagentInv'
<1> DEFINE told == {r \in S : LiveTasks(mgr, r) # {}}
           queued == {r \in S \ told : Contains(mgr.queue, r)}
<1>1. Agree(mgr, {}) /\ Busy(mgr) /\ mgr \in Manager /\ mgr.queue \in Seq(Runs)
  BY DEF SubagentInv, Agree, Manager
<1>2. /\ mgr' = Terminate(CancelTasks(mgr, told), queued, [r \in queued |-> "failed"], queued)
      /\ IF queued = {} THEN UNCHANGED disk ELSE disk' = Saved(mgr')
      /\ UNCHANGED <<digest, reported>>
  BY DEF CancelRuns, Save
<1>3. told \in SUBSET Runs /\ queued \in SUBSET Runs /\ queued \subseteq ToSet(mgr.queue)
  BY <1>1 DEF Contains, ToSet
<1> HIDE DEF told, queued
<1>4. /\ Agree(mgr', {}) /\ Busy(mgr') /\ Follows(mgr, mgr') /\ mgr'.attempts = mgr.attempts
      /\ \A r \in Runs : r \notin queued => mgr'.st[r] = mgr.st[r]
  BY <1>1, <1>2, <1>3, CancelAgrees
<1>5. queued = {} => mgr'.st = mgr.st
  <2>1. mgr'.st \in [Runs -> Statuses] /\ mgr.st \in [Runs -> Statuses]
    BY <1>1, <1>4 DEF Agree, Manager
  <2>2. QED
    BY <1>4, <2>1
<1>6. disk' = Saved(mgr') \/ (disk' = disk /\ mgr'.attempts = mgr.attempts /\ mgr'.st = mgr.st)
  BY <1>2, <1>4, <1>5
<1>7. QED
  BY <1>2, <1>4, <1>6, DigestKept, FollowsKeeps

LEMMA RestKeeps ==
  ASSUME NEW m, Agree(m, {}), Busy(m), NEW t \in m.live, NEW n, n = [m EXCEPT !.live = @ \ {t}]
  PROVE  Rested(m, m.live \ {t}, n) /\ \A u \in m.live \ {t} : u.run # t.run
<1> DEFINE live == m.live \ {t}
<1>1. m.live \subseteq Workers /\ \A u, v \in m.live : u.run = v.run => u = v
  BY DEF Agree, TasksAgree, Manager
<1>2. n = [m EXCEPT !.live = live]
  OBVIOUS
<1>3. Fewer(m, live) /\ \A u \in live : u.run # t.run
  BY <1>1 DEF Fewer
<1> HIDE DEF live
<1>4. Rested(m, live, n)
  BY <1>2, <1>3, LiveAgrees
<1>5. QED
  BY <1>3, <1>4 DEF live

LEMMA BeginKeeps ==
  ASSUME SubagentInv, NEW t, BeginTask(t) \/ VanishTask(t)
  PROVE  SubagentInv'
<1>1. Agree(mgr, {}) /\ Busy(mgr) /\ mgr.live \subseteq Workers
  BY DEF SubagentInv, Agree, Manager
<1>2. t \in mgr.live /\ UNCHANGED <<disk, digest, reported>>
  BY DEF BeginTask, VanishTask
<1>3. /\ Agree(mgr', {}) /\ Busy(mgr') /\ Follows(mgr, mgr')
      /\ mgr'.attempts = mgr.attempts /\ mgr'.st = mgr.st
  <2>1. CASE VanishTask(t)
    <3>1. mgr' = [mgr EXCEPT !.live = @ \ {t}]
      BY <2>1 DEF VanishTask
    <3>2. Rested(mgr, mgr.live \ {t}, mgr')
      BY <1>1, <1>2, <3>1, RestKeeps
    <3>3. QED
      BY <3>2 DEF Rested
  <2>2. CASE BeginTask(t)
    <3> DEFINE u == [t EXCEPT !.at = "running"]
               live == (mgr.live \ {t}) \cup {u}
    <3>1. mgr' = [mgr EXCEPT !.live = live]
      BY <2>2 DEF BeginTask
    <3>2. u \in Workers /\ u.run = t.run /\ u.n = t.n
      BY <1>1, <1>2 DEF Workers
    <3> HIDE DEF u
    <3>3. \A v, w \in mgr.live : v.run = w.run => v = w
      BY <1>1 DEF Agree, TasksAgree
    <3>4. Fewer(mgr, live)
      BY <1>1, <1>2, <3>2, <3>3 DEF Fewer
    <3> HIDE DEF live
    <3>5. Rested(mgr, live, mgr')
      BY <1>1, <3>1, <3>4, LiveAgrees
    <3>6. QED
      BY <3>5 DEF Rested
  <2>3. QED
    BY <2>1, <2>2
<1>4. QED
  BY <1>2, <1>3, DigestKept, FollowsKeeps

LEMMA FinishKeeps ==
  ASSUME SubagentInv, NEW t, NEW outcome \in {"done", "failed"}, FinishTask(t, outcome)
  PROVE  SubagentInv'
<1> DEFINE r == t.run
           m == [mgr EXCEPT !.live = @ \ {t}]
           again == IF outcome = "failed" THEN {r} ELSE {}
           end == [q \in {r} |-> outcome]
<1>1. Agree(mgr, {}) /\ Busy(mgr)
  BY DEF SubagentInv
<1>2. t \in mgr.live /\ UNCHANGED <<digest, reported>>
  BY DEF FinishTask
<1>3. \/ m.st[r] = "pruned" /\ mgr' = m /\ UNCHANGED disk
      \/ m.st[r] = "expired" /\ mgr' = Drain([m EXCEPT !.task[r] = 0, !.pending = @ \ {r}])
         /\ disk' = Saved(mgr')
      \/ m.st[r] \notin {"pruned", "expired"} /\ mgr' = Drain(Terminate(m, {r}, end, again))
         /\ disk' = Saved(mgr')
  BY DEF FinishTask, Save
<1>4. r \in Runs /\ mgr.st[r] \in {"running", "expired", "pruned"}
  BY <1>1, <1>2 DEF Agree, TasksAgree, Manager, Workers
<1>5. end \in [{r} -> Terminal] /\ end[r] # "expired" /\ again \in SUBSET {r}
  BY DEF Terminal
<1>6. /\ Agree(m, {}) /\ Busy(m) /\ Follows(mgr, m)
      /\ m.attempts = mgr.attempts /\ m.st = mgr.st /\ \A u \in m.live : u.run # r
  <2>1. Rested(mgr, mgr.live \ {t}, m) /\ \A u \in mgr.live \ {t} : u.run # t.run
    BY <1>1, <1>2, RestKeeps
  <2> HIDE DEF m
  <2>2. QED
    BY <2>1 DEF Rested
<1>7. m \in Manager
  BY <1>6 DEF Agree
<1> HIDE DEF m, r, end, again
<1>8. CASE m.st[r] = "pruned" /\ mgr' = m /\ UNCHANGED disk
  BY <1>2, <1>6, <1>8, DigestKept, FollowsKeeps
<1>9. CASE m.st[r] = "expired" /\ mgr' = Drain([m EXCEPT !.task[r] = 0, !.pending = @ \ {r}])
           /\ disk' = Saved(mgr')
  <2>1. m.task[r] = 0 /\ r \notin m.pending
    BY <1>4, <1>6, <1>9 DEF Agree, TasksAgree, QueueAgrees, ActiveRuns, Active
  <2>2. [m.task EXCEPT ![r] = 0] = m.task /\ m.pending \ {r} = m.pending
    BY <1>4, <1>7, <2>1 DEF Manager
  <2>3. [m EXCEPT !.task = m.task] = m /\ [m EXCEPT !.pending = m.pending] = m
    BY <1>7 DEF Manager
  <2>4. [m EXCEPT !.task[r] = 0] = m
    BY <1>7, <2>2, <2>3 DEF Manager
  <2>5. [m EXCEPT !.task[r] = 0, !.pending = @ \ {r}] = [m EXCEPT !.pending = m.pending]
    BY <1>7, <2>2, <2>4
  <2>6. mgr' = Drain(m)
    BY <1>9, <2>3, <2>5
  <2>7. Agree(mgr', {}) /\ Busy(mgr') /\ Follows(m, mgr')
    BY <1>6, <2>6, DrainAgrees
  <2>8. Follows(mgr, mgr')
    BY <1>6, <2>7, FollowsTwice
  <2>9. QED
    BY <1>2, <1>9, <2>7, <2>8, DigestKept, FollowsKeeps
<1>10. CASE m.st[r] \notin {"pruned", "expired"} /\ mgr' = Drain(Terminate(m, {r}, end, again))
            /\ disk' = Saved(mgr')
  <2> DEFINE n == Terminate(m, {r}, end, again)
  <2>1. m.st[r] = "running"
    BY <1>4, <1>6, <1>10
  <2>2. \A q \in {r} : ~Settled(m, q) /\ (q \in again => end[q] # "expired")
    BY <1>5, <2>1 DEF Settled, Terminal
  <2>3. \A u \in m.live : u.run \in {r} => end[u.run] = "expired"
    BY <1>6
  <2>4. {r} \in SUBSET Runs
    BY <1>4
  <2>5. Agree(n, {}) /\ Follows(m, n)
    BY <1>5, <1>6, <2>2, <2>3, <2>4, TerminateAgrees
  <2>6. mgr' = Drain(n)
    BY <1>10
  <2> HIDE DEF n
  <2>7. Agree(mgr', {}) /\ Busy(mgr') /\ Follows(n, mgr')
    BY <2>5, <2>6, DrainAgrees
  <2>8. Follows(mgr, mgr')
    BY <1>6, <2>5, <2>7, FollowsTwice
  <2>9. QED
    BY <1>2, <1>10, <2>7, <2>8, DigestKept, FollowsKeeps
<1>11. QED
  BY <1>3, <1>8, <1>9, <1>10

LEMMA ListKeeps ==
  ASSUME SubagentInv, NEW s \in Sessions, ListDigest(s)
  PROVE  SubagentInv'
<1>1. digest' = [digest EXCEPT ![s] = Unsynthesized(s)] /\ UNCHANGED <<mgr, disk, reported>>
  BY DEF ListDigest
<1>2. Agree(mgr, {})' /\ Busy(mgr)' /\ FileAgrees'
  BY <1>1 DEF SubagentInv, FileAgrees
<1>3. /\ reported \in [Runs -> {0, 1}] /\ digest \in [Sessions -> SUBSET Runs]
      /\ \A r \in Runs : reported[r] = 1 => Marked(mgr, r) /\ Marked(disk, r)
      /\ \A z \in Sessions : \A r \in digest[z] :
           mgr.sess[r] = z /\ Settled(mgr, r) /\ r \notin mgr.synth /\ reported[r] = 0
  BY DEF SubagentInv, ReportsAgree
<1>4. \A r \in Unsynthesized(s) :
        r \in Runs /\ mgr.sess[r] = s /\ Settled(mgr, r) /\ r \notin mgr.synth /\ reported[r] = 0
  BY <1>3 DEF Unsynthesized, Settled, Marked, Terminal
<1>5. ReportsAgree'
  BY <1>1, <1>3, <1>4 DEF ReportsAgree
<1>6. QED
  BY <1>2, <1>5 DEF SubagentInv

LEMMA LoseKeeps ==
  ASSUME SubagentInv, NEW s \in Sessions, LoseDigest(s)
  PROVE  SubagentInv'
<1>1. digest' = [digest EXCEPT ![s] = {}] /\ UNCHANGED <<mgr, disk, reported>>
  BY DEF LoseDigest
<1>2. Agree(mgr', {}) /\ Busy(mgr') /\ Follows(mgr, mgr')
  BY <1>1 DEF SubagentInv, Follows
<1>3. digest' \in [Sessions -> SUBSET Runs] /\ \A z \in Sessions : digest'[z] \subseteq digest[z]
  BY <1>1 DEF SubagentInv, ReportsAgree
<1>4. QED
  BY <1>1, <1>2, <1>3, FollowsKeeps

LEMMA MarkKeeps ==
  ASSUME SubagentInv, NEW s \in Sessions, MarkDigest(s)
  PROVE  SubagentInv'
<1> DEFINE found == {r \in digest[s] : mgr.st[r] # "pruned"}
           marked == mgr.synth \cup found
<1>1. /\ reported' = [r \in Runs |-> IF r \in digest[s] THEN reported[r] + 1 ELSE reported[r]]
      /\ mgr' = [mgr EXCEPT !.synth = marked]
      /\ IF found = {} THEN UNCHANGED disk ELSE disk' = Saved(mgr')
      /\ digest' = [digest EXCEPT ![s] = {}]
  BY DEF MarkDigest, Save
<1>2. Agree(mgr, {}) /\ Busy(mgr) /\ mgr \in Manager
  BY DEF SubagentInv, Agree
<1>3. /\ reported \in [Runs -> {0, 1}] /\ digest \in [Sessions -> SUBSET Runs]
      /\ \A r \in Runs : reported[r] = 1 => Marked(mgr, r) /\ Marked(disk, r)
      /\ \A z \in Sessions : \A r \in digest[z] :
           mgr.sess[r] = z /\ Settled(mgr, r) /\ r \notin mgr.synth /\ reported[r] = 0
  BY DEF SubagentInv, ReportsAgree
<1>4. \A r \in found : r \in Runs /\ r \in digest[s] /\ Settled(mgr, r)
  BY <1>3
<1>5. \A r \in digest[s] : r \in Runs /\ (r \in found \/ mgr.st[r] = "pruned")
  BY <1>3
<1> HIDE DEF found
<1>6. marked \subseteq Runs /\ \A r : r \in marked <=> r \in mgr.synth \/ r \in found
  BY <1>2, <1>4 DEF Manager
<1> HIDE DEF marked
<1>7. /\ mgr' \in Manager /\ mgr'.synth = marked
      /\ mgr'.st = mgr.st /\ mgr'.sess = mgr.sess /\ mgr'.resumable = mgr.resumable
      /\ mgr'.attempts = mgr.attempts /\ mgr'.queue = mgr.queue /\ mgr'.pending = mgr.pending
      /\ mgr'.task = mgr.task /\ mgr'.live = mgr.live /\ mgr'.starts = mgr.starts
  BY <1>1, <1>2, <1>6 DEF Manager
<1>8. Agree(mgr', {}) /\ Busy(mgr')
  <2>1. QueueAgrees(mgr', {}) /\ TasksAgree(mgr', {}) /\ BudgetAgrees(mgr', {}) /\ LimitsHold(mgr', {})
    BY <1>2, <1>7 DEF Agree, QueueAgrees, TasksAgree, BudgetAgrees, LimitsHold, ActiveRuns,
                      Running, RunningCount
  <2>2. MarksAgree(mgr', {})
    BY <1>2, <1>4, <1>6, <1>7 DEF Agree, MarksAgree, HasBudget, Settled
  <2>3. Busy(mgr')
    BY <1>2, <1>7 DEF Busy, RunningCount, Running
  <2>4. QED
    BY <1>7, <2>1, <2>2, <2>3 DEF Agree
<1>9. \A r \in Runs : Settled(mgr', r) <=> Settled(mgr, r)
  BY <1>7 DEF Settled
<1>10. FileAgrees'
  <2>1. CASE found = {}
    BY <1>1, <1>7, <2>1 DEF SubagentInv, FileAgrees
  <2>2. CASE found # {}
    <3>1. disk' = Saved(mgr')
      BY <1>1, <2>2
    <3>2. QED
      BY <1>8, <3>1, SavedIs DEF FileAgrees
  <2>3. QED
    BY <2>1, <2>2
<1>11. ASSUME NEW r \in Runs, reported'[r] = 1 PROVE Marked(mgr', r) /\ Marked(disk', r)
  <2>1. Marked(mgr', r)
    <3>1. CASE r \in digest[s]
      BY <1>3, <1>5, <1>6, <1>7, <1>9, <3>1 DEF Marked
    <3>2. CASE r \notin digest[s]
      <4>1. reported[r] = 1
        BY <1>1, <1>11, <3>2
      <4>2. QED
        BY <1>3, <1>6, <1>7, <1>9, <4>1 DEF Marked
    <3>3. QED
      BY <3>1, <3>2
  <2>2. CASE found # {}
    <3>1. disk' = Saved(mgr')
      BY <1>1, <2>2
    <3>2. disk'.st = mgr'.st /\ disk'.resumable = mgr'.resumable /\ disk'.synth = mgr'.synth
      BY <1>8, <3>1, SavedIs
    <3>3. QED
      BY <2>1, <3>2 DEF Marked, Settled
  <2>3. CASE found = {}
    <3>1. disk' = disk
      BY <1>1, <2>3
    <3>2. CASE r \in digest[s]
      <4>1. disk.st[r] = "pruned"
        BY <1>5, <2>3, <3>2 DEF SubagentInv, FileAgrees
      <4>2. r \notin disk.resumable
        BY <4>1 DEF SubagentInv, FileAgrees, Terminal
      <4>3. QED
        BY <2>1, <3>1, <4>1, <4>2 DEF Marked, Settled
    <3>3. CASE r \notin digest[s]
      <4>1. reported[r] = 1
        BY <1>1, <1>11, <3>3
      <4>2. QED
        BY <1>3, <2>1, <3>1, <4>1
    <3>4. QED
      BY <3>2, <3>3
  <2>4. QED
    BY <2>1, <2>2, <2>3
<1>12. ASSUME NEW z \in Sessions, NEW r \in digest'[z]
       PROVE  mgr'.sess[r] = z /\ Settled(mgr', r) /\ r \notin mgr'.synth /\ reported'[r] = 0
  <2>1. z # s /\ r \in digest[z] /\ r \in Runs
    BY <1>1, <1>3, <1>12
  <2>2. mgr.sess[r] = z /\ Settled(mgr, r) /\ r \notin mgr.synth /\ reported[r] = 0
    BY <1>3, <2>1
  <2>3. r \notin digest[s]
    BY <1>3, <2>1, <2>2
  <2>4. r \notin found
    BY <1>4, <2>3
  <2>5. QED
    BY <1>1, <1>6, <1>7, <1>9, <2>1, <2>2, <2>3, <2>4
<1>13. reported' \in [Runs -> {0, 1}] /\ digest' \in [Sessions -> SUBSET Runs]
  <2>1. \A r \in Runs : (r \in digest[s] => reported[r] = 0) /\ reported[r] \in {0, 1}
    BY <1>3
  <2>2. QED
    BY <1>1, <1>3, <2>1
<1>14. ReportsAgree'
  BY <1>11, <1>12, <1>13 DEF ReportsAgree
<1>15. QED
  BY <1>8, <1>10, <1>14 DEF SubagentInv

\* What a new process reads from the file; the starts are history.
Loaded(d, starts) ==
  [NewManager EXCEPT !.st = d.st, !.sess = d.sess, !.resumable = d.resumable,
                     !.attempts = d.attempts, !.synth = d.synth, !.starts = starts]

LEMMA NewManagerIs ==
  /\ NewManager \in Manager /\ NewManager.queue = <<>> /\ NewManager.pending = {}
  /\ NewManager.live = {} /\ NewManager.resumable = {} /\ NewManager.synth = {}
  /\ \A r \in Runs : /\ NewManager.st[r] = "none" /\ NewManager.task[r] = 0
                     /\ NewManager.attempts[r] = 0 /\ NewManager.starts[r] = 0
<1>1. <<>> \in Seq(Runs)
  OBVIOUS
<1>2. QED
  BY <1>1 DEF NewManager, Manager, Statuses, Owners

LEMMA LoadedIs ==
  ASSUME NEW d \in File, NEW starts \in [Runs -> Nat], NEW m, m = Loaded(d, starts)
  PROVE  /\ m \in Manager /\ m.st = d.st /\ m.sess = d.sess /\ m.resumable = d.resumable
         /\ m.attempts = d.attempts /\ m.synth = d.synth /\ m.starts = starts
         /\ m.queue = NewManager.queue /\ m.pending = NewManager.pending
         /\ m.task = NewManager.task /\ m.live = NewManager.live
<1>1. /\ d.st \in [Runs -> Statuses] /\ d.sess \in [Runs -> Owners \cup {"none"}]
      /\ d.resumable \in SUBSET Runs /\ d.attempts \in [Runs -> Nat] /\ d.synth \in SUBSET Runs
  BY DEF File
<1>2. NewManager \in Manager
  BY NewManagerIs
<1> DEFINE o == NewManager
<1>3. m = [o EXCEPT !.st = d.st, !.sess = d.sess, !.resumable = d.resumable,
                    !.attempts = d.attempts, !.synth = d.synth, !.starts = starts]
  BY DEF Loaded
<1> HIDE DEF o
<1>4. /\ m \in Manager /\ m.st = d.st /\ m.sess = d.sess /\ m.resumable = d.resumable
      /\ m.attempts = d.attempts /\ m.synth = d.synth /\ m.starts = starts
      /\ m.queue = o.queue /\ m.pending = o.pending /\ m.task = o.task /\ m.live = o.live
  <2>1. o \in Manager
    BY <1>2 DEF o
  <2>2. QED
    BY <1>1, <1>3, <2>1, Zenon DEF Manager
<1>5. QED
  BY <1>4 DEF o

LEMMA RestartKeeps ==
  ASSUME SubagentInv, Restart
  PROVE  SubagentInv'
<1> DEFINE A == ActiveRuns(disk)
           m == Loaded(disk, mgr.starts)
           end(late) == [r \in A |-> IF r \in late THEN "expired" ELSE "interrupted"]
<1>1. /\ disk \in File /\ disk.attempts = mgr.attempts /\ mgr \in Manager
      /\ \A r \in disk.resumable : disk.st[r] \in Terminal \ {"expired"} /\ HasBudget(disk, r)
      /\ \A r \in disk.synth : disk.st[r] \in Terminal \cup {"pruned"}
      /\ \A r \in Runs : /\ disk.st[r] = "none" => mgr.st[r] = "none"
                         /\ mgr.st[r] = "pruned" => disk.st[r] = "pruned"
  BY DEF SubagentInv, FileAgrees, Agree
<1>2. PICK late \in SUBSET A : mgr' = Terminate(m, A, end(late), A \ late)
  <2>1. \A late \in (IF Expires THEN SUBSET ActiveRuns(disk) ELSE {{}}) : late \in SUBSET A
    OBVIOUS
  <2>2. QED
    BY <2>1 DEF Restart, Loaded
<1> DEFINE e == end(late)
<1>3. disk' = disk /\ reported' = reported /\ digest' = [s \in Sessions |-> {}]
  BY DEF Restart
<1>4. e \in [A -> Terminal] /\ A \in SUBSET Runs /\ A \ late \in SUBSET A
      /\ \A r \in A : e[r] = "expired" <=> r \in late
  BY DEF ActiveRuns, Terminal
<1>5. \A r \in Runs : r \in A <=> disk.st[r] \in Active
  BY DEF ActiveRuns
<1>6. /\ m \in Manager /\ m.st = disk.st /\ m.resumable = disk.resumable
      /\ m.attempts = disk.attempts /\ m.synth = disk.synth /\ m.starts = mgr.starts
      /\ m.queue = <<>> /\ m.pending = {} /\ m.live = {} /\ \A r \in Runs : m.task[r] = 0
  <2>1. mgr.starts \in [Runs -> Nat]
    BY <1>1 DEF Manager
  <2> HIDE DEF m
  <2>2. m = Loaded(disk, mgr.starts)
    BY DEF m
  <2>3. QED
    BY <1>1, <2>1, <2>2, LoadedIs, NewManagerIs
<1>7. mgr' = Terminate(m, A, e, A \ late)
  BY <1>2
<1> HIDE DEF m, end, e, A
<1>8. Terminated(m, A, e, A \ late, mgr')
  BY <1>4, <1>6, <1>7, TerminateIs
<1>9. /\ mgr' \in Manager
      /\ \A r \in Runs : mgr'.st[r] = IF r \in A THEN e[r] ELSE disk.st[r]
      /\ \A r : r \in mgr'.resumable <=>
           (r \in disk.resumable /\ r \notin A) \/ (r \in A \ late /\ HasBudget(m, r))
      /\ mgr'.attempts = mgr.attempts /\ mgr'.synth = disk.synth /\ mgr'.starts = mgr.starts
      /\ mgr'.live = {} /\ mgr'.pending = {} /\ \A r \in Runs : mgr'.task[r] = 0
  BY <1>1, <1>6, <1>8 DEF Terminated
<1>10. mgr'.queue = <<>> /\ mgr'.queue \in Seq(Runs)
  <2>1. Len(mgr'.queue) <= Len(m.queue) /\ m.queue = <<>> /\ mgr'.queue \in Seq(Runs)
    BY <1>6, <1>8 DEF Terminated, Manager
  <2>2. QED
    BY <2>1
<1>11. \A r \in Runs : mgr'.st[r] \notin Active
  BY <1>4, <1>5, <1>9 DEF Terminal, Active
<1>12. ActiveRuns(mgr') = {} /\ Running(mgr') = {} /\ {r \in Runs : mgr'.st[r] = "queued"} = {}
  BY <1>11 DEF ActiveRuns, Running, Active
<1>13. QueueAgrees(mgr', {})
  <2>1. ToSet(mgr'.queue) = {} /\ IsInjective(mgr'.queue) /\ Len(mgr'.queue) = 0
    BY <1>10 DEF ToSet, IsInjective
  <2>2. QED
    BY <1>9, <1>12, <2>1, LimitsAssumption DEF QueueAgrees
<1>14. TasksAgree(mgr', {})
  BY <1>9, <1>11 DEF TasksAgree, Active
<1>15. \A r \in Runs : HasBudget(m, r) <=> HasBudget(mgr', r)
  BY <1>1, <1>6, <1>9 DEF HasBudget
<1>16. MarksAgree(mgr', {})
  <2>1. mgr'.resumable \subseteq Runs /\ disk.resumable \subseteq Runs /\ disk.synth \subseteq Runs
    BY <1>1, <1>9 DEF Manager, File
  <2>2. ASSUME NEW r \in mgr'.resumable
        PROVE  mgr'.st[r] \in Terminal \ {"expired"} /\ HasBudget(mgr', r)
    <3>1. CASE r \in A \ late /\ HasBudget(m, r)
      BY <1>4, <1>9, <1>15, <2>1, <3>1
    <3>2. CASE r \in disk.resumable /\ r \notin A
      <4>1. disk.st[r] \in Terminal \ {"expired"} /\ HasBudget(disk, r)
        BY <1>1, <3>2
      <4>2. HasBudget(mgr', r)
        BY <1>1, <1>9, <4>1 DEF HasBudget
      <4>3. QED
        BY <1>9, <2>1, <3>2, <4>1, <4>2
    <3>3. QED
      BY <1>9, <3>1, <3>2
  <2>3. ASSUME NEW r \in mgr'.synth PROVE mgr'.st[r] \in Terminal \cup {"pruned"}
    BY <1>1, <1>4, <1>9, <2>1
  <2>4. QED
    BY <2>2, <2>3 DEF MarksAgree
<1>17. BudgetAgrees(mgr', {})
  BY <1>1, <1>4, <1>9, <1>11 DEF SubagentInv, Agree, BudgetAgrees, Active, Terminal
<1>18. LimitsHold(mgr', {})
  <2>1. Cardinality({}) = 0
    BY FS_EmptySet
  <2>2. \A x : {r \in ActiveRuns(mgr') \cup {} : mgr'.sess[r] = x} = {}
    BY <1>12
  <2>3. QED
    BY <1>12, <2>1, <2>2, LimitsAssumption DEF LimitsHold, RunningCount
<1>19. Agree(mgr', {})
  BY <1>9, <1>13, <1>14, <1>16, <1>17, <1>18 DEF Agree
<1>20. Busy(mgr')
  BY <1>10 DEF Busy
<1>21. FileAgrees'
  BY <1>1, <1>3, <1>4, <1>5, <1>9 DEF FileAgrees, Active, Terminal
<1>22. ReportsAgree'
  <2>1. ASSUME NEW r \in Runs, reported[r] = 1 PROVE Marked(mgr', r) /\ Marked(disk', r)
    <3>1. Marked(disk, r)
      BY <2>1 DEF SubagentInv, ReportsAgree
    <3>2. r \notin A
      BY <1>5, <3>1 DEF Marked, Settled, Active, Terminal
    <3>3. QED
      BY <1>3, <1>4, <1>9, <3>1, <3>2 DEF Marked, Settled
  <2>2. \A s \in Sessions : digest'[s] = {}
    BY <1>3
  <2>3. reported' \in [Runs -> {0, 1}] /\ digest' \in [Sessions -> SUBSET Runs]
    BY <1>3 DEF SubagentInv, ReportsAgree
  <2>4. QED
    BY <1>3, <2>1, <2>2, <2>3 DEF ReportsAgree
<1>23. QED
  BY <1>19, <1>20, <1>21, <1>22 DEF SubagentInv

LEMMA SubagentInit_Inv ==
  ASSUME SubagentInit
  PROVE  SubagentInv
<1>1. /\ mgr = NewManager /\ disk = Saved(NewManager)
      /\ digest = [s \in Sessions |-> {}] /\ reported = [r \in Runs |-> 0]
  BY DEF SubagentInit
<1>2. /\ mgr \in Manager /\ mgr.queue = <<>> /\ mgr.pending = {}
      /\ mgr.live = {} /\ mgr.resumable = {} /\ mgr.synth = {}
      /\ \A r \in Runs : /\ mgr.st[r] = "none" /\ mgr.task[r] = 0
                         /\ mgr.attempts[r] = 0 /\ mgr.starts[r] = 0
  BY <1>1, NewManagerIs
<1>3. ActiveRuns(mgr) = {} /\ Running(mgr) = {} /\ {r \in Runs : mgr.st[r] = "queued"} = {}
  BY <1>2 DEF ActiveRuns, Running, Active
<1>4. QueueAgrees(mgr, {})
  <2>1. ToSet(mgr.queue) = {} /\ IsInjective(mgr.queue) /\ Len(mgr.queue) = 0
    BY <1>2 DEF ToSet, IsInjective
  <2>2. QED
    BY <1>2, <1>3, <2>1, LimitsAssumption DEF QueueAgrees
<1>5. TasksAgree(mgr, {}) /\ MarksAgree(mgr, {})
  BY <1>2 DEF TasksAgree, MarksAgree
<1>6. BudgetAgrees(mgr, {})
  BY <1>2, LimitsAssumption DEF BudgetAgrees
<1>7. LimitsHold(mgr, {})
  <2>1. Cardinality({}) = 0
    BY FS_EmptySet
  <2>2. \A x : {r \in ActiveRuns(mgr) \cup {} : mgr.sess[r] = x} = {}
    BY <1>3
  <2>3. QED
    BY <1>3, <2>1, <2>2, LimitsAssumption DEF LimitsHold, RunningCount
<1>8. Agree(mgr, {}) /\ Busy(mgr)
  BY <1>2, <1>4, <1>5, <1>6, <1>7 DEF Agree, Busy
<1>9. FileAgrees
  <2>1. disk = Saved(mgr)
    BY <1>1
  <2>2. QED
    BY <1>8, <2>1, SavedIs DEF FileAgrees
<1>10. ReportsAgree
  BY <1>1 DEF ReportsAgree
<1>11. QED
  BY <1>8, <1>9, <1>10 DEF SubagentInv

LEMMA SubagentNext_Inv ==
  ASSUME SubagentInv, [SubagentNext]_subagentVars
  PROVE  SubagentInv'
<1>1. ASSUME NEW r \in Runs, NEW s \in Sessions, Spawn(r, s) PROVE SubagentInv'
  BY <1>1, SpawnKeeps
<1>2. ASSUME NEW r \in Runs, Resume(r) PROVE SubagentInv'
  BY <1>2, ResumeKeeps
<1>3. ASSUME NEW r \in Runs, CancelRun(r) PROVE SubagentInv'
  <2>1. {r} \in SUBSET Runs /\ CancelRuns({r})
    BY <1>3 DEF CancelRun
  <2>2. QED
    BY <2>1, CancelKeeps
<1>4. ASSUME NEW s \in Sessions, CancelSession(s) PROVE SubagentInv'
  <2> DEFINE S == {r \in ActiveRuns(mgr) : mgr.sess[r] = s}
  <2>1. S \in SUBSET Runs /\ CancelRuns(S)
    BY <1>4 DEF CancelSession, ActiveRuns
  <2> HIDE DEF S
  <2>2. QED
    BY <2>1, CancelKeeps
<1>5. ASSUME NEW s \in Sessions, ListDigest(s) PROVE SubagentInv'
  BY <1>5, ListKeeps
<1>6. ASSUME NEW s \in Sessions, MarkDigest(s) PROVE SubagentInv'
  BY <1>6, MarkKeeps
<1>7. ASSUME NEW s \in Sessions, LoseDigest(s) PROVE SubagentInv'
  BY <1>7, LoseKeeps
<1>8. ASSUME NEW r, ReplayRow(r) PROVE SubagentInv'
  BY <1>8, ReplayKeeps
<1>9. CASE MaintenanceSweep \/ LateSweep
  BY <1>9, SweepKeeps
<1>10. ASSUME NEW t, BeginTask(t) \/ VanishTask(t) PROVE SubagentInv'
  BY <1>10, BeginKeeps
<1>11. ASSUME NEW t, NEW outcome \in {"done", "failed"}, FinishTask(t, outcome) PROVE SubagentInv'
  BY <1>11, FinishKeeps
<1>12. CASE Restart
  BY <1>12, RestartKeeps
<1>13. CASE StartupReplay \/ UNCHANGED subagentVars
  <2>1. UNCHANGED <<mgr, disk, digest, reported>>
    BY <1>13 DEF StartupReplay, subagentVars
  <2>2. QED
    BY <2>1 DEF SubagentInv, FileAgrees, ReportsAgree
<1>14. QED
  BY <1>1, <1>2, <1>3, <1>4, <1>5, <1>6, <1>7, <1>8, <1>9, <1>10, <1>11, <1>12, <1>13
  DEF SubagentNext

LEMMA SubagentInvHolds == SubagentSpec => []SubagentInv
<1>1. SubagentInit => SubagentInv
  BY SubagentInit_Inv
<1>2. SubagentInv /\ [SubagentNext]_subagentVars => SubagentInv'
  BY SubagentNext_Inv
<1>3. QED
  BY <1>1, <1>2, PTL DEF SubagentSpec

\* No run has more starts than it has attempts and one, so the tasks are of the type that
\* Consistent gives them.
LEMMA InvConsistent ==
  ASSUME SubagentInv
  PROVE  Consistent
<1>1. Agree(mgr, {}) /\ mgr \in Manager /\ mgr.queue \in Seq(Runs) /\ mgr.live \subseteq Workers
  BY DEF SubagentInv, Agree, Manager
<1>2. QueueAgrees(mgr, {}) /\ TasksAgree(mgr, {}) /\ MarksAgree(mgr, {})
      /\ BudgetAgrees(mgr, {}) /\ LimitsHold(mgr, {})
  BY <1>1 DEF Agree
<1>3. ASSUME NEW r \in Runs
      PROVE  /\ mgr.st[r] \in Active \cup Terminal \cup {"none", "pruned"}
             /\ mgr.st[r] = "queued" <=> Contains(mgr.queue, r)
             /\ mgr.st[r] \in Active <=> r \in mgr.pending
             /\ mgr.task[r] = IF mgr.st[r] = "running" THEN mgr.starts[r] ELSE 0
             /\ r \in mgr.resumable => mgr.st[r] \in Terminal /\ HasBudget(mgr, r)
             /\ r \in mgr.synth => mgr.st[r] \in Terminal \cup {"pruned"}
  <2>1. mgr.st[r] \in Active \cup Terminal \cup {"none", "pruned"}
    BY <1>1 DEF Manager, Statuses
  <2>2. Contains(mgr.queue, r) <=> r \in ToSet(mgr.queue)
    BY <1>1 DEF Contains, ToSet
  <2>3. mgr.st[r] = "queued" <=> Contains(mgr.queue, r)
    BY <1>2, <2>2 DEF QueueAgrees
  <2>4. mgr.st[r] \in Active <=> r \in mgr.pending
    BY <1>2 DEF QueueAgrees, ActiveRuns
  <2>5. QED
    BY <1>2, <2>1, <2>3, <2>4 DEF TasksAgree, MarksAgree
<1>4. ASSUME NEW r \in Runs PROVE Cardinality({t \in mgr.live : t.run = r}) <= 1
  <2> DEFINE T == {t \in mgr.live : t.run = r}
  <2>1. \A t, u \in T : t = u
    BY <1>2 DEF TasksAgree
  <2>2. T = {} \/ \E t : T = {t}
    BY <2>1
  <2> HIDE DEF T
  <2>3. Cardinality(T) = 0 \/ Cardinality(T) = 1
    BY <2>2, FS_EmptySet, FS_Singleton
  <2>4. Cardinality(T) <= 1
    BY <2>3
  <2>5. QED
    BY <2>4 DEF T
<1>5. mgr.live \subseteq Task
  <2>1. ASSUME NEW t \in mgr.live PROVE t \in Task
    <3>1. /\ t \in [run : Runs, n : Nat, at : {"created", "running", "doomed", "unwinding"}]
          /\ t.n = mgr.starts[t.run] /\ t.n > 0
      BY <1>1, <1>2 DEF TasksAgree, Workers
    <3>2. t.run \in Runs /\ t.n \in Nat
      BY <3>1
    <3>3. mgr.attempts[t.run] <= MaxResume /\ mgr.starts[t.run] <= mgr.attempts[t.run] + 1
      BY <1>2, <3>2 DEF BudgetAgrees
    <3>4. mgr.attempts[t.run] \in Nat /\ mgr.starts[t.run] \in Nat
      BY <1>1, <3>2 DEF Manager
    <3>5. t.n \in 1..(MaxResume + 2)
      BY <3>1, <3>2, <3>3, <3>4, LimitsAssumption
    <3>6. QED
      BY <3>1, <3>5 DEF Task
  <2>2. QED
    BY <2>1
<1>6. \A t \in mgr.live : mgr.st[t.run] \in {"running", "expired", "pruned"}
  BY <1>2 DEF TasksAgree
<1>7. \A s \in Sessions : Outstanding(mgr, s) <= Quota
  <2>1. \A s \in Sessions : s \in Owners
    BY DEF Owners
  <2>2. ActiveRuns(mgr) \cup {} = ActiveRuns(mgr)
    OBVIOUS
  <2>3. QED
    BY <1>2, <2>1, <2>2 DEF LimitsHold, Outstanding
<1>8. QED
  BY <1>2, <1>3, <1>4, <1>5, <1>6, <1>7 DEF Consistent, QueueAgrees, LimitsHold

\* The manager's tables agree, for every number of runs and sessions and every limit: what
\* core/subagent.py assumes of _queue, _pending_runners, _tasks and the runs' states.
THEOREM TablesAgree == SubagentSpec => []Consistent
<1>1. SubagentInv => Consistent
  BY InvConsistent
<1>2. QED
  BY <1>1, SubagentInvHolds, PTL

\* No slot is free while a run waits: every release of a slot in core/subagent.py is
\* followed, under the same lock, by a drain of the queue.
THEOREM SlotsBusy == SubagentSpec => []NoIdleSlot
<1>1. SubagentInv => NoIdleSlot
  BY DEF SubagentInv, Busy, NoIdleSlot
<1>2. QED
  BY <1>1, SubagentInvHolds, PTL

\* No run is started more often than max_resume_attempts allows, over every restart and
\* replay: an attempt is counted and saved before the start it pays for.
THEOREM BudgetKept == SubagentSpec => []BudgetHolds
<1>1. SubagentInv => BudgetHolds
  <2> SUFFICES ASSUME SubagentInv, NEW r \in Runs PROVE mgr.starts[r] <= MaxResume + 1
    BY DEF BudgetHolds
  <2>1. mgr.attempts[r] <= MaxResume /\ mgr.starts[r] <= mgr.attempts[r] + 1
    BY DEF SubagentInv, Agree, BudgetAgrees
  <2>2. mgr.attempts[r] \in Nat /\ mgr.starts[r] \in Nat
    BY DEF SubagentInv, Agree, Manager
  <2>3. QED
    BY <2>1, <2>2, LimitsAssumption
<1>2. QED
  BY <1>1, SubagentInvHolds, PTL

\* The result of a run goes into at most one reply: a turn marks what it has reported, in
\* the manager and on the disk, and no turn lists what is marked.
THEOREM NeverReportedTwice == SubagentSpec => []ReportedOnce
<1>1. SubagentInv => ReportedOnce
  BY DEF SubagentInv, ReportsAgree, ReportedOnce
<1>2. QED
  BY <1>1, SubagentInvHolds, PTL
===============================================================================
