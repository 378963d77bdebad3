------------------------- MODULE TelegramIngressProofs -------------------------
(***************************************************************************)
(* Proofs about TelegramIngress for any number of updates, albums,         *)
(* failures, refreshes and crashes.                                        *)
(***************************************************************************)
EXTENDS TelegramIngress, NaturalsInduction, FiniteSetTheorems, WellFoundedInduction, TLAPS

\* Somebody handles the update: the poll loop, or a coroutine of the webhook.
PollHas(u) == poll # "idle" /\ Head(batch) = u
HookHas(u) == inHand[u] + emitted[u] > 0

\* The types the proofs need; handlers run in a process of their kind.
Typed ==
  /\ up \in BOOLEAN /\ polling \in BOOLEAN /\ hook \in BOOLEAN
  /\ sent \subseteq Updates /\ unconfirmed \subseteq sent
  /\ batch \in Seq(sent) /\ poll \in {"idle", "handling", "emitted"}
  /\ poll # "idle" => batch # <<>> /\ polling
  /\ inHand \in [Updates -> Nat] /\ emitted \in [Updates -> Nat]
  /\ \A u \in Updates : inHand[u] + emitted[u] <= 1
  /\ \A u \in Updates : HookHas(u) => u \in sent /\ hook
  /\ polling \/ hook => up
  /\ refreshes \in Nat /\ crashes \in Nat /\ emits \in [Updates -> Nat]

\* Emits of u that no signature remembers yet, and the refresh that lets both
\* transports run beside each other.
PollEmitted(u) == IF poll = "emitted" /\ Head(batch) = u THEN 1 ELSE 0
Unsigned(u) == IF u \in Albums THEN 0 ELSE PollEmitted(u) + emitted[u]
Both == IF polling /\ hook THEN 1 ELSE 0

\* A process pays for one emit of an update, and a refresh for one more.
EmitsPaid == \A u \in Updates :
  /\ emits[u] <= 1 + crashes + refreshes
  /\ u \notin signatures => emits[u] <= crashes + refreshes - Both + Unsigned(u)
  /\ u \in buffer => emits[u] <= crashes + refreshes /\ u \in signatures

EmitInv == Typed /\ EmitsPaid

\* With a watermark: it stands on handled updates, and all that were handled are
\* at or below it or kept above it.
OffsetInv ==
  /\ safe \in Nat
  /\ handled \subseteq sent /\ dedupe \cup dedupeDisk \subseteq handled
  /\ completed \subseteq handled
  /\ \A u \in 1..safe : u \in handled
  /\ \A u \in handled : u <= safe \/ u \in completed

-------------------------------------------------------------------------------
(* The offset store.                                                           *)

\* A nonempty set of numbers has a least one.
LEMMA LeastOf ==
  ASSUME NEW S, S \subseteq Nat, S # {}
  PROVE  \E x \in S : \A y \in S : x <= y
<1>1. PICK x \in S : \A y \in S : ~(<<y, x>> \in OpToRel(<, Nat))
  BY NatLessThanWellFounded, WFMin
<1>2. ASSUME NEW y \in S, y < x PROVE FALSE
  <2>1. <<y, x>> \in Nat \X Nat /\ <<y, x>>[1] < <<y, x>>[2]
    BY <1>2
  <2>2. <<y, x>> \in OpToRel(<, Nat)
    BY <2>1 DEF OpToRel
  <2>3. QED
    BY <1>1, <2>2
<1>3. \A y \in S : x <= y
  BY <1>2
<1>4. QED
  BY <1>3

\* Above any number there is one that a finite set lacks.
LEMMA FreeNumber ==
  ASSUME NEW S, IsFiniteSet(S), NEW base \in Nat
  PROVE  \E n \in Nat : n > base /\ n \notin S
<1> DEFINE above == (base + 1)..(base + 1 + Cardinality(S))
<1>1. Cardinality(S) \in Nat
  BY FS_CardinalityType
<1>2. IsFiniteSet(above) /\ Cardinality(above) = Cardinality(S) + 1
  BY <1>1, FS_Interval
<1>3. SUFFICES ASSUME \A n \in Nat : n > base => n \in S PROVE FALSE
  OBVIOUS
<1>4. above \in SUBSET S
  BY <1>1, <1>3
<1>5. Cardinality(above) <= Cardinality(S)
  BY <1>4, FS_Subset
<1>6. QED
  BY <1>1, <1>2, <1>5

\* The watermark climbs over completed updates only, and as far as they reach.
LEMMA ClimbIs ==
  ASSUME NEW base \in Nat, NEW done \in SUBSET Nat, IsFiniteSet(done)
  PROVE  LET s == Climb(base, done)
         IN  s \in Nat /\ s >= base /\ s + 1 \notin done /\ \A u \in (base + 1)..s : u \in done
<1> DEFINE P(s) == s >= base /\ s + 1 \notin done /\ \A u \in (base + 1)..s : u \in done
           free == {n \in Nat : n > base /\ n \notin done}
<1>1. free \subseteq Nat /\ free # {}
  BY FreeNumber
<1>2. PICK n \in free : \A k \in free : n <= k
  BY <1>1, LeastOf
<1>3. n - 1 \in Nat /\ n - 1 >= base /\ (n - 1) + 1 \notin done
  BY <1>2
<1>4. \A u \in (base + 1)..(n - 1) : u \in done
  BY <1>2
<1>5. n - 1 \in {base} \cup done
  BY <1>3, <1>4
<1>6. \E s \in {base} \cup done : P(s)
  BY <1>3, <1>4, <1>5
<1>7. Climb(base, done) = CHOOSE s \in {base} \cup done : P(s)
  BY DEF Climb
<1> HIDE DEF P
<1>8. Climb(base, done) \in {base} \cup done /\ P(Climb(base, done))
  BY <1>6, <1>7
<1>9. QED
  BY <1>8 DEF P

\* mark_completed: the watermark passes only what is completed, and what is
\* completed is at or below it or kept.
LEMMA CompleteIs ==
  ASSUME NEW u \in Updates, NEW tracked \in BOOLEAN, Complete(u, tracked),
         safe \in Nat, completed \subseteq Updates
  PROVE  /\ safe' \in Nat /\ safe' >= safe
         /\ completed' \subseteq completed \cup {u} /\ \A k \in completed' : k > safe'
         /\ \A k \in (safe + 1)..safe' : k \in completed \cup {u}
         /\ safe' + 1 \notin completed /\ (u > safe => safe' + 1 # u)
         /\ \A k \in completed \cup {u} : k <= safe' \/ k \in completed'
<1> DEFINE above == IF Stale(u) THEN completed ELSE completed \cup {u}
           top == Climb(safe, above)
<1>1. /\ u \in Nat /\ above \in SUBSET Nat /\ above \subseteq completed \cup {u}
      /\ completed \subseteq above
  BY IngressAssumption DEF Stale
<1>2. IsFiniteSet(above)
  <2>1. above \in SUBSET Updates
    BY DEF Stale
  <2>2. QED
    BY <2>1, FS_Subset, IngressAssumption
<1>3. safe # None
  BY DEF None
<1>4. safe' = (IF safe = None THEN None ELSE top) /\ completed' = Pruned(above, safe')
  BY <1>3 DEF Complete
<1>5. top \in Nat /\ top >= safe /\ top + 1 \notin above /\ \A k \in (safe + 1)..top : k \in above
  BY <1>1, <1>2, ClimbIs
<1>6. u > safe => u \in above
  BY <1>1 DEF Stale
<1>7. u \in above \/ u <= safe
  BY <1>1 DEF Stale
<1> HIDE DEF above, top
<1>8. safe' = top /\ completed' = {k \in above : k > top}
  BY <1>3, <1>4 DEF Pruned
<1>9. \A k \in completed \cup {u} : k <= top \/ k \in {m \in above : m > top}
  BY <1>1, <1>5, <1>7
<1>10. QED
  BY <1>1, <1>5, <1>6, <1>8, <1>9

-------------------------------------------------------------------------------
(* Types.                                                                      *)

LEMMA CurrentIs ==
  ASSUME batch \in Seq(sent), batch # <<>>
  PROVE  Current \in sent /\ Current = batch[1] /\ Tail(batch) \in Seq(sent)
BY DEF Current

LEMMA OldestIs ==
  ASSUME NEW S \in SUBSET Updates, NEW n \in 0..Cardinality(S), IsFiniteSet(S), NEW rows \in Oldest(S, n)
  PROVE  rows \in Seq(S) /\ DOMAIN rows = 1..n /\ Len(rows) = n
<1>1. n \in Nat /\ rows \in [1..n -> S]
  BY FS_CardinalityType DEF Oldest
<1>2. QED
  BY <1>1

\* What the webhook answers confirms one update or none.
LEMMA AnsweredIs ==
  ASSUME NEW u, NEW ok, Answered(u, ok)
  PROVE  /\ sent' = sent /\ webhookSet' = webhookSet
         /\ unconfirmed' = unconfirmed \/ (unconfirmed' = unconfirmed \ {u} /\ (ok \/ ~FailFast))
BY DEF Answered, server

\* An emit touches the history, the buffer and the signatures of its update alone.
LEMMA EmitIs ==
  ASSUME NEW u \in Updates, Emit(u), emits \in [Updates -> Nat]
  PROVE  /\ emits' \in [Updates -> Nat]
         /\ \A k \in Updates : k # u => emits'[k] = emits[k]
         /\ \/ u \in signatures /\ UNCHANGED <<buffer, signatures, emits>>
            \/ /\ u \in Albums /\ u \notin signatures /\ emits' = emits
               /\ buffer' = buffer \cup {u} /\ signatures' = signatures \cup {u}
            \/ /\ u \notin Albums /\ u \notin signatures /\ emits'[u] = emits[u] + 1
               /\ buffer' = buffer /\ signatures' = signatures
BY DEF Emit, inbox

\* A coroutine moves on: one count falls, and the other rises or stays.
LEMMA CountUp ==
  ASSUME NEW f \in [Updates -> Nat], NEW u \in Updates, NEW g, g = [f EXCEPT ![u] = @ + 1]
  PROVE  g \in [Updates -> Nat] /\ \A k \in Updates : g[k] = IF k = u THEN f[u] + 1 ELSE f[k]
<1>1. f[u] + 1 \in Nat
  OBVIOUS
<1>2. QED
  BY <1>1

LEMMA CountDown ==
  ASSUME NEW f \in [Updates -> Nat], NEW u \in Updates, f[u] > 0, NEW g, g = [f EXCEPT ![u] = @ - 1]
  PROVE  g \in [Updates -> Nat] /\ \A k \in Updates : g[k] = IF k = u THEN f[u] - 1 ELSE f[k]
<1>1. f[u] - 1 \in Nat
  OBVIOUS
<1>2. QED
  BY <1>1

\* Coroutines that go on or end keep their types.
LEMMA HandsTyped ==
  ASSUME Typed, inHand' \in [Updates -> Nat], emitted' \in [Updates -> Nat],
         \A k \in Updates : inHand'[k] + emitted'[k] <= inHand[k] + emitted[k],
         sent' = sent, unconfirmed' \subseteq sent, batch' = batch, poll' = poll,
         up' = up, polling' = polling, hook' = hook, refreshes' = refreshes, crashes' = crashes,
         emits' \in [Updates -> Nat]
  PROVE  Typed'
<1>1. \A k \in Updates : inHand'[k] + emitted'[k] <= 1 /\ (inHand'[k] + emitted'[k] > 0 => k \in sent /\ hook)
  <2>1. TAKE k \in Updates
  <2>2. /\ inHand[k] \in Nat /\ emitted[k] \in Nat /\ inHand'[k] \in Nat /\ emitted'[k] \in Nat
        /\ inHand'[k] + emitted'[k] <= inHand[k] + emitted[k] /\ inHand[k] + emitted[k] <= 1
        /\ (inHand[k] + emitted[k] > 0 => k \in sent /\ hook)
    BY DEF Typed, HookHas
  <2>3. QED
    BY <2>2
<1>2. QED
  BY <1>1 DEF Typed, HookHas

LEMMA TypedKeeps ==
  ASSUME Typed, [Next]_vars
  PROVE  Typed'
<1> USE DEF Typed, HookHas
<1>1. CASE GetUpdates
  <2>1. unconfirmed' \in SUBSET Updates /\ IsFiniteSet(unconfirmed')
    <3>1. unconfirmed' \in SUBSET Updates
      BY <1>1 DEF GetUpdates
    <3>2. QED
      BY <3>1, FS_Subset, IngressAssumption
  <2>2. PICK n \in 0..Cardinality(unconfirmed') : batch' \in Oldest(unconfirmed', n)
    BY <1>1 DEF GetUpdates
  <2>3. batch' \in Seq(unconfirmed')
    BY <2>1, <2>2, OldestIs
  <2>4. unconfirmed' \subseteq sent /\ sent' = sent
    BY <1>1 DEF GetUpdates
  <2>5. batch' \in Seq(sent')
    BY <2>3, <2>4
  <2>6. QED
    BY <1>1, <2>4, <2>5 DEF GetUpdates, process, inbox, bounds
<1>2. CASE PollSkip
  BY <1>2, CurrentIs DEF PollSkip, process, server, inbox, bounds
<1>3. CASE PollBegin
  BY <1>3 DEF PollBegin, process, server, inbox, bounds
<1>4. CASE PollEmit
  <2>1. emits' \in [Updates -> Nat]
    BY <1>4, EmitIs, CurrentIs DEF PollEmit
  <2>2. QED
    BY <1>4, <2>1 DEF PollEmit, process, server, bounds
<1>5. CASE PollCommit
  BY <1>5, CurrentIs DEF PollCommit, Remember, process, server, bounds
<1>6. CASE PollConflict
  BY <1>6 DEF PollConflict, process, handlers, inbox, bounds
<1>7. CASE PollFail
  BY <1>7 DEF PollFail, process, inbox
<1>8. CASE PersistDedupe
  BY <1>8 DEF PersistDedupe, process, server, handlers, inbox, bounds
<1>9. ASSUME NEW u \in Updates, Send(u) PROVE Typed'
  <2>1. sent' = sent \cup {u} /\ unconfirmed' = unconfirmed \cup {u} /\ batch' = batch
    BY <1>9 DEF Send, handlers
  <2>2. batch' \in Seq(sent')
    BY <2>1
  <2>3. QED
    BY <1>9, <2>1, <2>2 DEF Send, process, handlers, inbox, bounds
<1>10. ASSUME NEW u \in Updates, HookSkip(u) PROVE Typed'
  BY <1>10, AnsweredIs DEF HookSkip, process, handlers, inbox, bounds
<1>11. ASSUME NEW u \in Updates, HookBegin(u) PROVE Typed'
  BY <1>11 DEF HookBegin, Pushed, InFlight, process, server, inbox, bounds
<1>12. ASSUME NEW u \in Updates, HookEmit(u) PROVE Typed'
  <2>1. emits' \in [Updates -> Nat]
    BY <1>12, EmitIs DEF HookEmit
  <2>2. /\ inHand' = [inHand EXCEPT ![u] = @ - 1] /\ emitted' = [emitted EXCEPT ![u] = @ + 1]
        /\ inHand[u] > 0
    BY <1>12 DEF HookEmit
  <2>3. emitted' \in [Updates -> Nat] /\ inHand' \in [Updates -> Nat]
    BY <2>2, CountUp, CountDown
  <2>4. \A k \in Updates : inHand'[k] + emitted'[k] <= inHand[k] + emitted[k]
    <3>1. \A k \in Updates : emitted'[k] = IF k = u THEN emitted[u] + 1 ELSE emitted[k]
      BY <2>2, CountUp
    <3>2. \A k \in Updates : inHand'[k] = IF k = u THEN inHand[u] - 1 ELSE inHand[k]
      BY <2>2, CountDown
    <3> SUFFICES ASSUME NEW k \in Updates PROVE inHand'[k] + emitted'[k] <= inHand[k] + emitted[k]
      OBVIOUS
    <3>3. inHand[k] \in Nat /\ emitted[k] \in Nat
      BY DEF Typed
    <3>4. CASE k = u
      <4>1. emitted'[k] = emitted[k] + 1 /\ inHand'[k] = inHand[k] - 1
        BY <3>1, <3>2, <3>4
      <4>2. QED
        BY <3>3, <4>1
    <3>5. CASE k # u
      <4>1. emitted'[k] = emitted[k] /\ inHand'[k] = inHand[k]
        BY <3>1, <3>2, <3>5
      <4>2. QED
        BY <3>3, <4>1
    <3>6. QED
      BY <3>4, <3>5
  <2>5. UNCHANGED <<sent, unconfirmed, batch, poll, up, polling, hook, refreshes, crashes>>
    BY <1>12 DEF HookEmit, process, server, bounds
  <2>6. QED
    BY <2>1, <2>3, <2>4, <2>5, HandsTyped
<1>13. ASSUME NEW u \in Updates, HookCommit(u) PROVE Typed'
  <2>1. emitted' = [emitted EXCEPT ![u] = @ - 1] /\ inHand' = inHand /\ emitted[u] > 0
    BY <1>13 DEF HookCommit
  <2>2. /\ emitted' \in [Updates -> Nat]
        /\ \A k \in Updates : emitted'[k] = IF k = u THEN emitted[u] - 1 ELSE emitted[k]
    BY <2>1, CountDown
  <2>3. \A k \in Updates : inHand'[k] + emitted'[k] <= inHand[k] + emitted[k]
    <3> SUFFICES ASSUME NEW k \in Updates PROVE inHand'[k] + emitted'[k] <= inHand[k] + emitted[k]
      OBVIOUS
    <3>1. inHand[k] \in Nat /\ emitted[k] \in Nat
      BY DEF Typed
    <3>2. QED
      BY <2>1, <2>2, <3>1
  <2>4. sent' = sent /\ unconfirmed' \subseteq sent
    BY <1>13, AnsweredIs DEF HookCommit
  <2>5. UNCHANGED <<batch, poll, up, polling, hook, refreshes, crashes, emits>>
    BY <1>13 DEF HookCommit, Remember, process, bounds
  <2>6. QED
    BY <2>1, <2>2, <2>3, <2>4, <2>5, HandsTyped
<1>14. ASSUME NEW u \in Updates, HookFail(u) PROVE Typed'
  <2>1. inHand' = [inHand EXCEPT ![u] = @ - 1] /\ emitted' = emitted /\ inHand[u] > 0
    BY <1>14 DEF HookFail
  <2>2. /\ inHand' \in [Updates -> Nat]
        /\ \A k \in Updates : inHand'[k] = IF k = u THEN inHand[u] - 1 ELSE inHand[k]
    BY <2>1, CountDown
  <2>3. \A k \in Updates : inHand'[k] + emitted'[k] <= inHand[k] + emitted[k]
    <3> SUFFICES ASSUME NEW k \in Updates PROVE inHand'[k] + emitted'[k] <= inHand[k] + emitted[k]
      OBVIOUS
    <3>1. inHand[k] \in Nat /\ emitted[k] \in Nat
      BY DEF Typed
    <3>2. QED
      BY <2>1, <2>2, <3>1
  <2>4. sent' = sent /\ unconfirmed' \subseteq sent
    BY <1>14, AnsweredIs DEF HookFail
  <2>5. UNCHANGED <<batch, poll, up, polling, hook, refreshes, crashes, emits>>
    BY <1>14 DEF HookFail, process, inbox
  <2>6. QED
    BY <2>1, <2>2, <2>3, <2>4, <2>5, HandsTyped
<1>15. ASSUME NEW ok \in BOOLEAN, Flush(ok) PROVE Typed'
  <2>1. emits' = emits \/ emits' = [u \in Updates |-> IF u \in buffer THEN emits[u] + 1 ELSE emits[u]]
    BY <1>15 DEF Flush
  <2>2. \A u \in Updates : emits[u] \in Nat /\ emits[u] + 1 \in Nat
    OBVIOUS
  <2>3. emits' \in [Updates -> Nat]
    BY <2>1, <2>2
  <2>4. UNCHANGED <<process, server, handlers, refreshes, crashes>>
    BY <1>15 DEF Flush
  <2>5. QED
    BY <2>3, <2>4 DEF process, server, handlers
<1>16. ASSUME NEW ok \in BOOLEAN, Refresh(ok) PROVE Typed'
  BY <1>16 DEF Refresh, handlers, inbox
<1>17. CASE Boot
  BY <1>17 DEF Boot, handlers, inbox, bounds
<1>18. CASE Crash
  <2>1. /\ \A k \in Updates : inHand'[k] + emitted'[k] = 0
        /\ inHand' \in [Updates -> Nat] /\ emitted' \in [Updates -> Nat]
    BY <1>18 DEF Crash
  <2>2. batch' \in Seq(sent')
    BY <1>18 DEF Crash, server
  <2>3. /\ UNCHANGED <<sent, unconfirmed, refreshes, emits>> /\ poll' = "idle" /\ up' = FALSE
        /\ polling' = FALSE /\ hook' = FALSE /\ crashes' = crashes + 1
    BY <1>18 DEF Crash, server
  <2>4. \A k \in Updates : ~HookHas(k)' /\ inHand'[k] + emitted'[k] <= 1
    BY <2>1
  <2>5. sent' \subseteq Updates /\ unconfirmed' \subseteq sent' /\ crashes' \in Nat
    BY <2>3
  <2>6. QED
    BY <2>1, <2>2, <2>3, <2>4, <2>5
<1>19. CASE UNCHANGED vars
  BY <1>19 DEF vars, process, server, handlers, inbox, bounds
<1>20. QED
  BY <1>1, <1>2, <1>3, <1>4, <1>5, <1>6, <1>7, <1>8, <1>9, <1>10, <1>11, <1>12, <1>13, <1>14, <1>15,
     <1>16, <1>17, <1>18, <1>19 DEF Next, Poll, Hook

-------------------------------------------------------------------------------
(* A process emits an update once.                                             *)

LEMMA UnsignedIs ==
  ASSUME Typed, NEW u \in Updates
  PROVE  /\ Both \in {0, 1} /\ PollEmitted(u) \in {0, 1} /\ Unsigned(u) \in Nat
         /\ Unsigned(u) <= 1 + Both
<1>1. /\ emitted[u] \in Nat /\ inHand[u] \in Nat /\ emitted[u] + inHand[u] <= 1
      /\ (emitted[u] > 0 => hook) /\ (poll = "emitted" => polling)
  BY DEF Typed, HookHas
<1>2. QED
  BY <1>1 DEF Both, PollEmitted, Unsigned

LEMMA UnsignedNext ==
  ASSUME Typed', NEW u \in Updates
  PROVE  /\ Both' \in {0, 1} /\ PollEmitted(u)' \in {0, 1} /\ Unsigned(u)' \in Nat
         /\ Unsigned(u)' <= 1 + Both'
<1>1. /\ emitted'[u] \in Nat /\ inHand'[u] \in Nat /\ emitted'[u] + inHand'[u] <= 1
      /\ (emitted'[u] > 0 => hook') /\ (poll' = "emitted" => polling')
  BY DEF Typed, HookHas
<1>2. QED
  BY <1>1 DEF Both, PollEmitted, Unsigned

\* What pays for e emits still does when more is paid in.
LEMMA AccountGrows ==
  ASSUME NEW e \in Nat, NEW c \in Nat, NEW r \in Nat, NEW more \in Nat, NEW b \in {0, 1}, NEW d \in {0, 1},
         NEW n \in Nat, NEW m \in Nat, more >= r, more - d >= r - b
  PROVE  /\ e <= 1 + c + r => e <= 1 + c + more
         /\ e <= c + r => e <= c + more
         /\ m >= n /\ e <= c + r - b + n => e <= c + more - d + m
OBVIOUS

\* A step that emits nothing keeps the account, if only what is signed is forgotten.
LEMMA PaidStays ==
  ASSUME Typed, Typed', EmitsPaid, emits' = emits, crashes' = crashes, refreshes' >= refreshes,
         signatures \subseteq signatures', buffer' \subseteq buffer,
         refreshes' - Both' >= refreshes - Both,
         \A k \in Updates : k \notin signatures' => Unsigned(k)' >= Unsigned(k)
  PROVE  EmitsPaid'
<1> SUFFICES ASSUME NEW k \in Updates
             PROVE  /\ emits'[k] <= 1 + crashes' + refreshes'
                    /\ k \notin signatures' => emits'[k] <= crashes' + refreshes' - Both' + Unsigned(k)'
                    /\ k \in buffer' => emits'[k] <= crashes' + refreshes' /\ k \in signatures'
  BY DEF EmitsPaid
<1>1. /\ crashes \in Nat /\ refreshes \in Nat /\ refreshes' \in Nat /\ emits[k] \in Nat
      /\ Both \in {0, 1} /\ Both' \in {0, 1} /\ Unsigned(k) \in Nat /\ Unsigned(k)' \in Nat
  <2>1. Both' \in {0, 1} /\ Unsigned(k)' \in Nat
    BY UnsignedNext
  <2>2. Both \in {0, 1} /\ Unsigned(k) \in Nat
    BY UnsignedIs
  <2>3. crashes \in Nat /\ refreshes \in Nat /\ refreshes' \in Nat /\ emits[k] \in Nat
    BY DEF Typed
  <2>4. QED
    BY <2>1, <2>2, <2>3
<1>2. /\ emits[k] <= 1 + crashes + refreshes
      /\ k \notin signatures => emits[k] <= crashes + refreshes - Both + Unsigned(k)
      /\ k \in buffer => emits[k] <= crashes + refreshes /\ k \in signatures
  BY DEF EmitsPaid
<1>3. k \notin signatures' => k \notin signatures /\ Unsigned(k)' >= Unsigned(k)
  OBVIOUS
<1>4. emits'[k] = emits[k] /\ (k \in buffer' => k \in buffer) /\ (k \in signatures => k \in signatures')
  OBVIOUS
<1> DEFINE n == Unsigned(k)
           m == Unsigned(k)'
           b == Both
           d == Both'
<1> HIDE DEF n, m, b, d
<1>5. /\ emits[k] <= 1 + crashes + refreshes => emits[k] <= 1 + crashes + refreshes'
      /\ emits[k] <= crashes + refreshes => emits[k] <= crashes + refreshes'
      /\ m >= n /\ emits[k] <= crashes + refreshes - b + n => emits[k] <= crashes + refreshes' - d + m
  <2>1. refreshes' >= refreshes /\ refreshes' - d >= refreshes - b
    BY DEF b, d
  <2>2. b \in {0, 1} /\ d \in {0, 1} /\ n \in Nat /\ m \in Nat
    BY <1>1 DEF b, d, n, m
  <2>3. QED
    BY <1>1, <2>1, <2>2, AccountGrows
<1>6. QED
  BY <1>2, <1>3, <1>4, <1>5 DEF n, m, b, d

\* An update handled by the poll loop or a coroutine is emitted, or was before.
LEMMA PaidEmit ==
  ASSUME Typed, Typed', EmitsPaid, NEW u \in Updates, Emit(u),
         UNCHANGED <<crashes, refreshes, polling, hook>>,
         \A k \in Updates : k # u => Unsigned(k)' = Unsigned(k),
         u \notin Albums => Unsigned(u)' = Unsigned(u) + 1
  PROVE  EmitsPaid'
<1>1. Both' = Both
  BY DEF Both
<1>2. \A k \in Updates : /\ Both \in {0, 1} /\ Unsigned(k) \in Nat /\ Unsigned(k)' \in Nat
                         /\ Unsigned(k)' <= 1 + Both
  <2> TAKE k \in Updates
  <2>1. Typed => Both \in {0, 1} /\ Unsigned(k) \in Nat /\ Unsigned(k) <= 1 + Both
    BY UnsignedIs
  <2>2. Typed' => Both' \in {0, 1} /\ Unsigned(k)' \in Nat /\ Unsigned(k)' <= 1 + Both'
    BY UnsignedNext
  <2>3. QED
    BY <1>1, <2>1, <2>2
<1>3. crashes \in Nat /\ refreshes \in Nat /\ emits \in [Updates -> Nat]
  BY DEF Typed
<1>4. u \in Albums => Unsigned(u)' = 0 /\ Unsigned(u) = 0
  BY DEF Unsigned
<1>5. \A k \in Updates : k # u => emits'[k] = emits[k]
  BY <1>3, EmitIs
<1>6. CASE UNCHANGED <<buffer, signatures, emits>> /\ u \in signatures
  BY <1>1, <1>2, <1>3, <1>6 DEF EmitsPaid
<1>7. CASE /\ u \in Albums /\ u \notin signatures /\ emits' = emits
           /\ buffer' = buffer \cup {u} /\ signatures' = signatures \cup {u}
  BY <1>1, <1>2, <1>3, <1>4, <1>7 DEF EmitsPaid
<1>8. CASE /\ u \notin Albums /\ u \notin signatures /\ emits'[u] = emits[u] + 1
           /\ buffer' = buffer /\ signatures' = signatures
  BY <1>1, <1>2, <1>3, <1>5, <1>8 DEF EmitsPaid
<1>9. QED
  BY <1>3, <1>6, <1>7, <1>8, EmitIs

\* What no poll loop has in hand is emitted by coroutines alone.
LEMMA IdlePoll ==
  ASSUME NEW u, poll # "emitted"
  PROVE  PollEmitted(u) = 0
BY DEF PollEmitted

LEMMA PaidKeeps ==
  ASSUME Typed, Typed', EmitsPaid, [Next]_vars
  PROVE  EmitsPaid'
<1>1. refreshes \in Nat /\ crashes \in Nat
  BY DEF Typed
<1>2. ASSUME UNCHANGED <<emits, crashes, refreshes, polling, hook, signatures, buffer>>,
             \A k \in Updates : Unsigned(k)' >= Unsigned(k)
      PROVE  EmitsPaid'
  <2>1. Both' = Both /\ Both \in {0, 1}
    BY <1>2 DEF Both
  <2>2. QED
    BY <1>1, <1>2, <2>1, PaidStays
<1>3. ASSUME UNCHANGED <<emits, crashes, refreshes, polling, hook, signatures, buffer>>,
             UNCHANGED <<batch, poll, emitted>> \/ (poll # "emitted" /\ poll' # "emitted" /\ emitted' = emitted)
      PROVE  EmitsPaid'
  <2>1. \A k \in Updates : Unsigned(k)' = Unsigned(k)
    BY <1>3 DEF Unsigned, PollEmitted
  <2>2. \A k \in Updates : Unsigned(k) \in Nat
    BY UnsignedIs
  <2>3. QED
    BY <1>2, <1>3, <2>1, <2>2
<1>4. CASE GetUpdates \/ PollSkip \/ PollBegin \/ PollConflict \/ PollFail \/ PersistDedupe
  BY <1>3, <1>4 DEF GetUpdates, PollSkip, PollBegin, PollConflict, PollFail, PersistDedupe,
                    process, handlers, inbox, bounds
<1>5. CASE PollEmit
  <2>1. PICK u \in Updates : u = Current
    BY <1>5, CurrentIs DEF PollEmit, Typed
  <2>2. Head(batch) = u /\ batch' = batch /\ emitted' = emitted /\ poll = "handling" /\ poll' = "emitted"
    BY <1>5, <2>1 DEF PollEmit, Current
  <2>3. \A k \in Updates : PollEmitted(k) = 0 /\ PollEmitted(k)' = IF k = u THEN 1 ELSE 0
    BY <2>2 DEF PollEmitted
  <2>4. \A k \in Updates : emitted[k] \in Nat
    BY DEF Typed
  <2>5. \A k \in Updates : k # u => Unsigned(k)' = Unsigned(k)
    BY <2>2, <2>3, <2>4 DEF Unsigned
  <2>6. u \notin Albums => Unsigned(u)' = Unsigned(u) + 1
    BY <2>2, <2>3, <2>4 DEF Unsigned
  <2>7. Emit(u) /\ UNCHANGED <<crashes, refreshes, polling, hook>>
    BY <1>5, <2>1 DEF PollEmit, process, bounds
  <2>8. QED
    BY <2>5, <2>6, <2>7, PaidEmit
<1>6. CASE PollCommit
  <2>1. /\ UNCHANGED <<emits, crashes, refreshes, polling, hook, buffer, emitted>>
        /\ signatures' = signatures \cup {Current} /\ poll = "emitted" /\ poll' = "idle"
    BY <1>6 DEF PollCommit, Remember, process, bounds
  <2>2. \A k \in Updates : k # Current => Unsigned(k)' = Unsigned(k)
    BY <2>1 DEF Unsigned, PollEmitted, Current
  <2>3. \A k \in Updates : k \notin signatures' => Unsigned(k)' >= Unsigned(k)
    BY <2>1, <2>2, UnsignedIs
  <2>4. Both' = Both /\ Both \in {0, 1}
    BY <2>1 DEF Both
  <2>5. QED
    BY <1>1, <2>1, <2>3, <2>4, PaidStays
<1>7. ASSUME NEW u \in Updates, Send(u) \/ HookSkip(u) \/ HookBegin(u) \/ HookFail(u) PROVE EmitsPaid'
  BY <1>3, <1>7 DEF Send, HookSkip, HookBegin, HookFail, process, handlers, inbox, bounds
<1>8. ASSUME NEW u \in Updates, HookEmit(u) PROVE EmitsPaid'
  <2>1. emitted' = [emitted EXCEPT ![u] = @ + 1] /\ emitted \in [Updates -> Nat]
    BY <1>8 DEF HookEmit, Typed
  <2>2. \A k \in Updates : emitted'[k] = IF k = u THEN emitted[u] + 1 ELSE emitted[k]
    BY <2>1, CountUp
  <2>3. poll' = poll /\ batch' = batch /\ Emit(u) /\ UNCHANGED <<crashes, refreshes, polling, hook>>
    BY <1>8 DEF HookEmit, process, bounds
  <2>4. \A k \in Updates : PollEmitted(k)' = PollEmitted(k) /\ PollEmitted(k) \in {0, 1} /\ emitted[k] \in Nat
    BY <2>1, <2>3 DEF PollEmitted
  <2>5. \A k \in Updates : k # u => Unsigned(k)' = Unsigned(k)
    BY <2>2, <2>4 DEF Unsigned
  <2>6. u \notin Albums => Unsigned(u)' = Unsigned(u) + 1
    BY <2>2, <2>4 DEF Unsigned
  <2>7. QED
    BY <2>3, <2>5, <2>6, PaidEmit
<1>9. ASSUME NEW u \in Updates, HookCommit(u) PROVE EmitsPaid'
  <2>1. /\ UNCHANGED <<emits, crashes, refreshes, polling, hook, buffer, poll, batch>>
        /\ signatures' = signatures \cup {u} /\ emitted' = [emitted EXCEPT ![u] = @ - 1]
    BY <1>9 DEF HookCommit, Remember, process, bounds
  <2>2. \A k \in Updates : k # u => emitted'[k] = emitted[k]
    BY <2>1 DEF Typed
  <2>3. \A k \in Updates : k # u => Unsigned(k)' = Unsigned(k)
    BY <2>1, <2>2 DEF Unsigned, PollEmitted
  <2>4. \A k \in Updates : k \notin signatures' => Unsigned(k)' >= Unsigned(k)
    BY <2>1, <2>3, UnsignedIs
  <2>5. Both' = Both /\ Both \in {0, 1}
    BY <2>1 DEF Both
  <2>6. QED
    BY <1>1, <2>1, <2>4, <2>5, PaidStays
<1>10. ASSUME NEW ok \in BOOLEAN, Flush(ok) PROVE EmitsPaid'
  <2>1. UNCHANGED <<crashes, refreshes, polling, hook, signatures, poll, batch, emitted>> /\ buffer' = {}
    BY <1>10 DEF Flush, process, handlers
  <2>2. \A k \in Updates : Unsigned(k)' = Unsigned(k) /\ Both' = Both
    BY <2>1 DEF Unsigned, PollEmitted, Both
  <2>3. \A k \in Updates : \/ emits'[k] = emits[k]
                           \/ k \in buffer /\ emits'[k] = emits[k] + 1
    BY <1>10 DEF Flush
  <2>4. \A k \in Updates : emits[k] \in Nat
    BY DEF Typed
  <2>5. \A k \in Updates : k \in buffer => emits[k] <= crashes + refreshes /\ k \in signatures
    BY DEF EmitsPaid
  <2>6. \A k \in Updates : emits'[k] <= 1 + crashes + refreshes
    BY <1>1, <2>3, <2>4, <2>5 DEF EmitsPaid
  <2>7. \A k \in Updates : k \notin signatures => emits'[k] <= crashes + refreshes - Both + Unsigned(k)
    BY <2>3, <2>5 DEF EmitsPaid
  <2>8. QED
    BY <2>1, <2>2, <2>6, <2>7 DEF EmitsPaid
<1>11. ASSUME NEW ok \in BOOLEAN, Refresh(ok) PROVE EmitsPaid'
  <2>1. /\ UNCHANGED <<emits, crashes, polling, buffer, signatures, poll, batch, emitted>>
        /\ refreshes' = refreshes + 1
    BY <1>11 DEF Refresh, handlers, inbox
  <2>2. Both \in {0, 1} /\ Both' \in {0, 1}
    BY DEF Both
  <2>3. \A k \in Updates : Unsigned(k)' = Unsigned(k) /\ Unsigned(k) \in Nat
    BY <2>1, UnsignedIs DEF Unsigned, PollEmitted
  <2>4. refreshes' >= refreshes /\ refreshes' - Both' >= refreshes - Both
    <3>1. refreshes' = refreshes + 1
      BY <2>1
    <3>3. refreshes' >= refreshes
      BY <1>1, <3>1
    <3>4. CASE Both = 0
      <4>1. CASE Both' = 0
        BY <1>1, <3>1, <3>4, <4>1
      <4>2. CASE Both' = 1
        BY <1>1, <3>1, <3>4, <4>2
      <4>3. QED
        BY <2>2, <3>3, <4>1, <4>2
    <3>5. CASE Both = 1
      <4>1. CASE Both' = 0
        BY <1>1, <3>1, <3>5, <4>1
      <4>2. CASE Both' = 1
        BY <1>1, <3>1, <3>5, <4>2
      <4>3. QED
        BY <2>2, <3>3, <4>1, <4>2
    <3>6. QED
      BY <2>2, <3>4, <3>5
  <2>5. \A k \in Updates : Unsigned(k)' >= Unsigned(k)
    BY <2>3
  <2>6. signatures \subseteq signatures' /\ buffer' \subseteq buffer
    BY <2>1
  <2>7. QED
    BY <2>1, <2>4, <2>5, <2>6, PaidStays
<1>12. CASE Boot
  <2>1. UNCHANGED <<emits, crashes, refreshes, buffer, signatures, poll, batch, emitted>> /\ ~up
    BY <1>12 DEF Boot, handlers, inbox, bounds
  <2>2. Both = 0 /\ Both' = 0
    BY <1>12, <2>1 DEF Boot, Both, Typed
  <2>3. \A k \in Updates : Unsigned(k)' = Unsigned(k) /\ Unsigned(k) \in Nat
    BY <2>1, UnsignedIs DEF Unsigned, PollEmitted
  <2>4. QED
    BY <1>1, <2>1, <2>2, <2>3, PaidStays
<1>13. CASE Crash
  <2>1. /\ emits' = emits /\ crashes' = crashes + 1 /\ refreshes' = refreshes
        /\ buffer' = {} /\ polling' = FALSE /\ poll' = "idle" /\ emitted' = [u \in Updates |-> 0]
    BY <1>13 DEF Crash
  <2>2. Both' = 0 /\ \A k \in Updates : Unsigned(k)' = 0
    BY <2>1 DEF Both, Unsigned, PollEmitted
  <2>3. \A k \in Updates : emits[k] \in Nat /\ emits[k] <= 1 + crashes + refreshes
    BY DEF EmitsPaid, Typed
  <2>4. QED
    BY <1>1, <2>1, <2>2, <2>3 DEF EmitsPaid
<1>14. CASE UNCHANGED vars
  BY <1>3, <1>14 DEF vars, process, handlers, inbox, bounds
<1>15. QED
  BY <1>4, <1>5, <1>6, <1>7, <1>8, <1>9, <1>10, <1>11, <1>12, <1>13, <1>14 DEF Next, Poll, Hook

LEMMA EmitInvariant == Spec => []EmitInv
<1>1. Init => EmitInv
  <2> SUFFICES ASSUME Init PROVE EmitInv
    OBVIOUS
  <2>1. Typed
    <3>1. batch \in Seq(sent) /\ sent = {} /\ unconfirmed = {} /\ poll = "idle" /\ up = FALSE
          /\ polling = FALSE /\ hook = FALSE /\ refreshes = 0 /\ crashes = 0
      BY DEF Init
    <3>2. /\ inHand \in [Updates -> Nat] /\ emitted \in [Updates -> Nat] /\ emits \in [Updates -> Nat]
          /\ \A u \in Updates : inHand[u] + emitted[u] = 0
      BY DEF Init
    <3>3. \A u \in Updates : ~HookHas(u) /\ inHand[u] + emitted[u] <= 1
      BY <3>2 DEF HookHas
    <3>4. QED
      BY <3>1, <3>2, <3>3 DEF Typed
  <2>2. \A u \in Updates : emits[u] = 0 /\ Unsigned(u) = 0 /\ Both = 0
    BY DEF Init, Unsigned, PollEmitted, Both
  <2>3. QED
    BY <2>1, <2>2 DEF Init, EmitInv, EmitsPaid
<1>2. EmitInv /\ [Next]_vars => EmitInv'
  BY TypedKeeps, PaidKeeps DEF EmitInv
<1>3. QED
  BY <1>1, <1>2, PTL DEF Spec

\* Whatever is pushed again, asked for again or retried, and whatever fails: a process
\* emits an update at most once, and once more only when a refresh of the transport let
\* the poll loop and a webhook handle it side by side.
THEOREM OnceTheorem == Spec => []OncePerProcess
<1>1. EmitInv => OncePerProcess
  BY DEF EmitInv, EmitsPaid, OncePerProcess
<1>2. QED
  BY <1>1, EmitInvariant, PTL

-------------------------------------------------------------------------------
(* The watermark.                                                              *)

LEMMA OffsetStays ==
  ASSUME OffsetInv, UNCHANGED <<safe, completed, handled>>, sent \subseteq sent',
         dedupe' \cup dedupeDisk' \subseteq handled
  PROVE  OffsetInv'
BY DEF OffsetInv

LEMMA CompleteKeeps ==
  ASSUME OffsetInv, handled \subseteq Updates, NEW u \in Updates, NEW tracked \in BOOLEAN,
         Complete(u, tracked), handled' = handled \cup {u}, handled' \subseteq sent',
         dedupe' \cup dedupeDisk' \subseteq handled'
  PROVE  OffsetInv'
<1>1. /\ safe' \in Nat /\ safe' >= safe
      /\ completed' \subseteq completed \cup {u}
      /\ \A k \in (safe + 1)..safe' : k \in completed \cup {u}
      /\ \A k \in completed \cup {u} : k <= safe' \/ k \in completed'
  BY CompleteIs DEF OffsetInv
<1>2. completed \subseteq handled /\ safe \in Nat /\ (\A k \in 1..safe : k \in handled)
      /\ \A k \in handled : k <= safe \/ k \in completed
  BY DEF OffsetInv
<1>3. \A k \in 1..safe' : k \in handled'
  <2> TAKE k \in 1..safe'
  <2>1. CASE k <= safe
    BY <1>1, <1>2, <2>1
  <2>2. CASE k > safe
    <3>1. k \in (safe + 1)..safe'
      BY <1>1, <1>2, <2>2
    <3>2. QED
      BY <1>1, <1>2, <3>1
  <2>3. QED
    BY <1>1, <1>2, <2>1, <2>2
<1>4. \A k \in handled' : k <= safe' \/ k \in completed'
  <2> TAKE k \in handled'
  <2>1. k \in Nat
    BY IngressAssumption
  <2>2. CASE k \in completed \cup {u}
    BY <1>1, <2>2
  <2>3. CASE k \in handled /\ k <= safe
    BY <1>1, <1>2, <2>1, <2>3
  <2>4. QED
    BY <1>2, <2>2, <2>3
<1>5. QED
  BY <1>1, <1>2, <1>3, <1>4 DEF OffsetInv

LEMMA OffsetKeeps ==
  ASSUME Typed, OffsetInv, [Next]_vars
  PROVE  OffsetInv'
<1>1. sent \subseteq Updates /\ handled \subseteq Updates
  BY DEF Typed, OffsetInv
<1>2. handled \subseteq sent /\ dedupe \cup dedupeDisk \subseteq handled
  BY DEF OffsetInv
<1>3. ASSUME NEW u \in Updates, Send(u) \/ HookBegin(u) \/ HookEmit(u) \/ HookFail(u) PROVE OffsetInv'
  BY <1>2, <1>3, AnsweredIs, OffsetStays
     DEF Send, HookBegin, Begin, HookEmit, HookFail, offsets, keys, server
<1>4. CASE GetUpdates \/ PollBegin \/ PollEmit \/ PollConflict \/ PollFail \/ PersistDedupe
  BY <1>2, <1>4, OffsetStays
     DEF GetUpdates, PollBegin, Begin, PollEmit, PollConflict, PollFail, PersistDedupe, offsets, keys, server
<1>5. ASSUME NEW ok \in BOOLEAN, Flush(ok) \/ Refresh(ok) PROVE OffsetInv'
  BY <1>2, <1>5, OffsetStays DEF Flush, Refresh, offsets, keys, server
<1>6. CASE Boot \/ Crash \/ UNCHANGED vars
  BY <1>2, <1>6, OffsetStays DEF Boot, Crash, vars, offsets, keys, server
<1>7. CASE PollSkip
  <2>1. UNCHANGED <<sent, dedupe, dedupeDisk, handled>>
    BY <1>7 DEF PollSkip, server, keys
  <2>2. PICK u \in Updates : u = Current
    BY <1>1, <1>7, CurrentIs DEF PollSkip, Typed
  <2>3. CASE Stale(u)
    BY <1>2, <1>7, <2>1, <2>2, <2>3, OffsetStays DEF PollSkip, offsets
  <2>4. CASE ~Stale(u)
    <3>1. u \in handled /\ Complete(u, u \in pending) /\ (u \in pending) \in BOOLEAN
      BY <1>2, <1>7, <2>2, <2>4 DEF PollSkip, Duplicate
    <3>2. handled' = handled \cup {u}
      BY <2>1, <3>1
    <3>3. QED
      BY <1>1, <1>2, <2>1, <3>1, <3>2, CompleteKeeps
  <2>5. QED
    BY <2>3, <2>4
<1>8. CASE PollCommit
  <2>1. PICK u \in sent : u = Current
    BY <1>8, CurrentIs DEF PollCommit, Typed
  <2>2. /\ Complete(u, TRUE) /\ handled' = handled \cup {u} /\ sent' = sent
        /\ dedupe' = dedupe \cup {u} /\ dedupeDisk' = dedupeDisk
    BY <1>8, <2>1 DEF PollCommit, server
  <2>3. QED
    BY <1>1, <1>2, <2>2, CompleteKeeps
<1>9. ASSUME NEW u \in Updates, HookSkip(u) PROVE OffsetInv'
  <2>1. UNCHANGED <<dedupe, dedupeDisk, handled>> /\ sent' = sent
    BY <1>9, AnsweredIs DEF HookSkip, keys
  <2>2. CASE UNCHANGED offsets
    BY <1>2, <2>1, <2>2, OffsetStays DEF offsets
  <2>3. CASE Duplicate(u) /\ Complete(u, Tracked(u))
    <3>1. u \in handled /\ Tracked(u) \in BOOLEAN
      BY <1>2, <2>3 DEF Duplicate, Tracked
    <3>2. handled' = handled \cup {u}
      BY <2>1, <3>1
    <3>3. QED
      BY <1>1, <1>2, <2>1, <2>3, <3>1, <3>2, CompleteKeeps
  <2>4. QED
    BY <1>9, <2>2, <2>3 DEF HookSkip
<1>10. ASSUME NEW u \in Updates, HookCommit(u) PROVE OffsetInv'
  <2>1. u \in sent
    <3>1. inHand[u] \in Nat /\ emitted[u] \in Nat /\ emitted[u] > 0
      BY <1>10 DEF HookCommit, Typed
    <3>2. HookHas(u)
      BY <3>1 DEF HookHas
    <3>3. QED
      BY <3>2 DEF Typed
  <2>2. /\ Complete(u, Tracked(u)) /\ Tracked(u) \in BOOLEAN /\ handled' = handled \cup {u} /\ sent' = sent
        /\ dedupe' = dedupe \cup {u} /\ dedupeDisk' = dedupe \cup {u}
    BY <1>10, AnsweredIs DEF HookCommit, Tracked
  <2>3. QED
    BY <1>1, <1>2, <2>1, <2>2, CompleteKeeps
<1>11. QED
  BY <1>3, <1>4, <1>5, <1>6, <1>7, <1>8, <1>9, <1>10 DEF Next, Poll, Hook

LEMMA OffsetInvariant == ASSUME ~FirstRun PROVE Spec => [](EmitInv /\ OffsetInv)
<1>1. Init => OffsetInv
  BY DEF Init, OffsetInv
<1>2. EmitInv /\ OffsetInv /\ [Next]_vars => OffsetInv'
  BY OffsetKeeps DEF EmitInv
<1>3. QED
  BY <1>1, <1>2, EmitInvariant, PTL DEF Spec

\* Once there is a watermark it never passes an update that was not handled: webhooks out
\* of order, failures, restarts and duplicates leave no gap below it.
THEOREM WatermarkTheorem ==
  ASSUME ~FirstRun
  PROVE  Spec => []WatermarkClosed
<1>1. EmitInv /\ OffsetInv => WatermarkClosed
  <2> SUFFICES ASSUME Typed, OffsetInv PROVE WatermarkClosed
    BY DEF EmitInv
  <2>1. \A u \in sent : u \in Nat \ {0}
    BY IngressAssumption DEF Typed
  <2>2. QED
    BY <2>1 DEF OffsetInv, WatermarkClosed
<1>2. QED
  BY <1>1, OffsetInvariant, PTL

-------------------------------------------------------------------------------
(* What Telegram gives up was emitted.                                         *)

\* What is past its emit, remembered or handled was emitted.
PastEmit(u) == (poll = "emitted" /\ Head(batch) = u) \/ emitted[u] > 0
HandledEmitted == \A u \in Updates \ Albums :
  u \in handled \/ u \in signatures \/ PastEmit(u) => emits[u] > 0

\* What the Bot API does not hold any more was handled.
ConfirmedHandled == \A u \in sent : u \in unconfirmed \/ u \in handled

LEMMA EmittedStays ==
  ASSUME HandledEmitted, handled' = handled, signatures' \subseteq signatures,
         \A u \in Updates : emits'[u] >= emits[u], emits \in [Updates -> Nat], emits' \in [Updates -> Nat],
         \A u \in Updates : PastEmit(u)' => PastEmit(u)
  PROVE  HandledEmitted'
<1> SUFFICES ASSUME NEW u \in Updates \ Albums,
                    u \in handled' \/ u \in signatures' \/ PastEmit(u)'
             PROVE  emits'[u] > 0
  BY DEF HandledEmitted
<1>1. u \in handled \/ u \in signatures \/ PastEmit(u)
  OBVIOUS
<1>2. emits[u] \in Nat /\ emits'[u] \in Nat /\ emits[u] > 0 /\ emits'[u] >= emits[u]
  BY <1>1 DEF HandledEmitted
<1>3. QED
  BY <1>2

LEMMA EmitKeepsEmitted ==
  ASSUME Typed, HandledEmitted, NEW u \in Updates, Emit(u), handled' = handled,
         \A k \in Updates : k # u => (PastEmit(k)' => PastEmit(k))
  PROVE  HandledEmitted'
<1>1. emits \in [Updates -> Nat]
  BY DEF Typed
<1>2. ASSUME NEW k \in Updates \ Albums, k # u, k \in handled' \/ k \in signatures' \/ PastEmit(k)'
      PROVE  emits'[k] > 0
  <2>1. emits'[k] = emits[k] /\ (k \in signatures' => k \in signatures)
    BY <1>1, <1>2, EmitIs
  <2>2. k \in handled \/ k \in signatures \/ PastEmit(k)
    BY <1>2, <2>1
  <2>3. QED
    BY <2>1, <2>2 DEF HandledEmitted
<1>3. ASSUME u \notin Albums PROVE emits'[u] > 0
  <2>1. emits[u] \in Nat /\ (u \in signatures => emits[u] > 0)
    BY <1>1, <1>3 DEF HandledEmitted
  <2>2. (u \in signatures /\ emits' = emits) \/ emits'[u] = emits[u] + 1
    BY <1>1, <1>3, EmitIs
  <2>3. QED
    BY <2>1, <2>2
<1>4. QED
  BY <1>2, <1>3 DEF HandledEmitted

LEMMA EmittedKeeps ==
  ASSUME Typed, Typed', HandledEmitted, [Next]_vars
  PROVE  HandledEmitted'
<1>1. emits \in [Updates -> Nat] /\ emits' \in [Updates -> Nat]
  BY DEF Typed
<1>2. \A u \in Updates : emits[u] \in Nat /\ emitted[u] \in Nat
  BY DEF Typed
<1>3. ASSUME UNCHANGED <<handled, emits>>, signatures' \subseteq signatures,
             \A u \in Updates : PastEmit(u)' => PastEmit(u)
      PROVE  HandledEmitted'
  <2>1. \A u \in Updates : emits'[u] >= emits[u]
    BY <1>2, <1>3
  <2>2. QED
    BY <1>1, <1>3, <2>1, EmittedStays
<1>4. ASSUME UNCHANGED <<handled, emits, signatures, emitted>>,
             UNCHANGED <<batch, poll>> \/ poll' # "emitted"
      PROVE  HandledEmitted'
  BY <1>3, <1>4 DEF PastEmit
<1>5. ASSUME NEW u \in Updates, Send(u) \/ HookSkip(u) \/ HookBegin(u) \/ HookFail(u) PROVE HandledEmitted'
  BY <1>4, <1>5 DEF Send, HookSkip, HookBegin, HookFail, handlers, inbox
<1>6. CASE GetUpdates \/ PollSkip \/ PollBegin \/ PollConflict \/ PollFail \/ PersistDedupe
  BY <1>4, <1>6 DEF GetUpdates, PollSkip, PollBegin, PollConflict, PollFail, PersistDedupe, handlers, inbox
<1>7. ASSUME NEW ok \in BOOLEAN, Refresh(ok) PROVE HandledEmitted'
  BY <1>4, <1>7 DEF Refresh, handlers, inbox
<1>8. CASE Boot \/ UNCHANGED vars
  BY <1>4, <1>8 DEF Boot, vars, handlers, inbox
<1>9. CASE Crash
  BY <1>3, <1>9 DEF Crash, PastEmit
<1>10. ASSUME NEW ok \in BOOLEAN, Flush(ok) PROVE HandledEmitted'
  <2>1. \A u \in Updates : emits'[u] >= emits[u]
    BY <1>2, <1>10 DEF Flush
  <2>2. UNCHANGED <<handled, signatures, emitted, poll, batch>>
    BY <1>10 DEF Flush, handlers
  <2>3. QED
    BY <1>1, <2>1, <2>2, EmittedStays DEF PastEmit
<1>11. CASE PollEmit
  <2>1. PICK u \in Updates : u = Current
    BY <1>11, CurrentIs DEF PollEmit, Typed
  <2>2. Emit(u) /\ UNCHANGED <<handled, batch, emitted>> /\ Head(batch) = u
    BY <1>11, <2>1 DEF PollEmit, Current
  <2>3. \A k \in Updates : k # u => (PastEmit(k)' => PastEmit(k))
    BY <2>2 DEF PastEmit
  <2>4. QED
    BY <2>2, <2>3, EmitKeepsEmitted
<1>12. ASSUME NEW u \in Updates, HookEmit(u) PROVE HandledEmitted'
  <2>1. Emit(u) /\ UNCHANGED <<handled, batch, poll>> /\ \A k \in Updates : k # u => emitted'[k] = emitted[k]
    BY <1>12 DEF HookEmit, Typed
  <2>2. \A k \in Updates : k # u => (PastEmit(k)' => PastEmit(k))
    BY <2>1 DEF PastEmit
  <2>3. QED
    BY <2>1, <2>2, EmitKeepsEmitted
<1>13. ASSUME NEW u \in Updates, PastEmit(u), Remember(u), handled' = handled \cup {u},
              \A k \in Updates : PastEmit(k)' => PastEmit(k)
       PROVE  HandledEmitted'
  <2>1. signatures' = signatures \cup {u} /\ emits' = emits
    BY <1>13 DEF Remember
  <2>2. \A k \in Updates : k \in handled' \/ k \in signatures' \/ PastEmit(k)'
                              => k \in handled \/ k \in signatures \/ PastEmit(k)
    BY <1>13, <2>1
  <2>3. QED
    BY <2>1, <2>2 DEF HandledEmitted
<1>14. CASE PollCommit
  <2>1. PICK u \in Updates : u = Current
    BY <1>14, CurrentIs DEF PollCommit, Typed
  <2>2. /\ PastEmit(u) /\ Remember(u) /\ handled' = handled \cup {u} /\ poll' = "idle" /\ emitted' = emitted
    BY <1>14, <2>1 DEF PollCommit, Current, PastEmit
  <2>3. \A k \in Updates : PastEmit(k)' => PastEmit(k)
    BY <2>2 DEF PastEmit
  <2>4. QED
    BY <1>13, <2>2, <2>3
<1>15. ASSUME NEW u \in Updates, HookCommit(u) PROVE HandledEmitted'
  <2>1. /\ PastEmit(u) /\ Remember(u) /\ handled' = handled \cup {u} /\ UNCHANGED <<batch, poll>>
        /\ \A k \in Updates : k # u => emitted'[k] = emitted[k]
    BY <1>15 DEF HookCommit, PastEmit, Typed
  <2>2. \A k \in Updates : PastEmit(k)' => PastEmit(k)
    BY <2>1 DEF PastEmit
  <2>3. QED
    BY <1>13, <2>1, <2>2
<1>16. QED
  BY <1>5, <1>6, <1>7, <1>8, <1>9, <1>10, <1>11, <1>12, <1>14, <1>15 DEF Next, Poll, Hook

LEMMA ConfirmedKeeps ==
  ASSUME FailFast, Typed, OffsetInv, ConfirmedHandled, [Next]_vars
  PROVE  ConfirmedHandled'
<1>1. ASSUME UNCHANGED server, handled \subseteq handled' PROVE ConfirmedHandled'
  BY <1>1 DEF ConfirmedHandled, server
<1>2. ASSUME NEW u \in Updates, Send(u) PROVE ConfirmedHandled'
  BY <1>2 DEF Send, ConfirmedHandled
<1>3. CASE GetUpdates
  <2>1. UNCHANGED <<sent, handled>> /\ unconfirmed' = {u \in unconfirmed : u >= NextOffset}
    BY <1>3 DEF GetUpdates
  <2>2. \A u \in sent : u \in Nat \ {0} /\ (u >= NextOffset \/ u \in handled)
    BY IngressAssumption DEF Typed, OffsetInv, NextOffset
  <2>3. QED
    BY <2>1, <2>2 DEF ConfirmedHandled
<1>4. ASSUME NEW u \in Updates, HookSkip(u) \/ HookFail(u) PROVE ConfirmedHandled'
  <2>1. Answered(u, FALSE) /\ handled' = handled
    BY <1>4 DEF HookSkip, HookFail
  <2>2. sent' = sent /\ unconfirmed' = unconfirmed
    BY <2>1, AnsweredIs
  <2>3. QED
    BY <2>1, <2>2 DEF ConfirmedHandled
<1>5. ASSUME NEW u \in Updates, HookCommit(u) PROVE ConfirmedHandled'
  <2>1. Answered(u, TRUE) /\ handled' = handled \cup {u}
    BY <1>5 DEF HookCommit
  <2>2. sent' = sent /\ (unconfirmed' = unconfirmed \/ unconfirmed' = unconfirmed \ {u})
    BY <2>1, AnsweredIs
  <2>3. QED
    BY <2>1, <2>2 DEF ConfirmedHandled
<1>6. ASSUME NEW u \in Updates, HookBegin(u) \/ HookEmit(u) PROVE ConfirmedHandled'
  BY <1>1, <1>6 DEF HookBegin, HookEmit
<1>7. CASE PollSkip \/ PollBegin \/ PollEmit \/ PollCommit \/ PersistDedupe \/ Crash
  BY <1>1, <1>7 DEF PollSkip, PollBegin, PollEmit, PollCommit, PersistDedupe, Crash
<1>8. CASE PollConflict \/ PollFail \/ Boot \/ UNCHANGED vars
  BY <1>8 DEF PollConflict, PollFail, Boot, vars, server, ConfirmedHandled
<1>9. ASSUME NEW ok \in BOOLEAN, Flush(ok) \/ Refresh(ok) PROVE ConfirmedHandled'
  BY <1>9 DEF Flush, Refresh, server, ConfirmedHandled
<1>10. QED
  BY <1>2, <1>3, <1>4, <1>5, <1>6, <1>7, <1>8, <1>9 DEF Next, Poll, Hook

LEMMA ConfirmedInvariant ==
  ASSUME ~FirstRun, FailFast
  PROVE  Spec => [](HandledEmitted /\ ConfirmedHandled)
<1>1. Init => HandledEmitted /\ ConfirmedHandled
  BY DEF Init, HandledEmitted, ConfirmedHandled, PastEmit
<1>2. EmitInv /\ EmitInv' /\ HandledEmitted /\ [Next]_vars => HandledEmitted'
  BY EmittedKeeps DEF EmitInv
<1>3. EmitInv /\ OffsetInv /\ ConfirmedHandled /\ [Next]_vars => ConfirmedHandled'
  BY ConfirmedKeeps DEF EmitInv
<1>4. QED
  BY <1>1, <1>2, <1>3, OffsetInvariant, PTL DEF Spec

\* Telegram forgets an update only when it was emitted into the durable inbound journal:
\* nothing is confirmed, by offset or by an answer, before it was handled.
THEOREM ForgetTheorem ==
  ASSUME ~FirstRun, FailFast
  PROVE  Spec => []NothingForgotten
<1>1. EmitInv /\ HandledEmitted /\ ConfirmedHandled => NothingForgotten
  <2> SUFFICES ASSUME EmitInv, HandledEmitted, ConfirmedHandled,
                      NEW u \in sent \ Albums, Forgotten(u)
               PROVE  FALSE
    BY DEF NothingForgotten
  <2>1. u \in Updates \ Albums /\ emits[u] = 0 /\ u \notin unconfirmed
    BY DEF EmitInv, Typed, Forgotten
  <2>2. u \in handled
    BY <2>1 DEF ConfirmedHandled
  <2>3. QED
    BY <2>1, <2>2 DEF HandledEmitted
<1>2. QED
  BY <1>1, EmitInvariant, ConfirmedInvariant, PTL

-------------------------------------------------------------------------------
(* What is known to be processed is not processed again.                       *)

InBatch(k) == \E j \in 1..Len(batch) : batch[j] = k
ToEmit(u) == (poll = "handling" /\ Head(batch) = u) \/ inHand[u] > 0

\* Dedupe keys on disk are known to the running process; updates arrive in the
\* order of their ids; the watermark has climbed as far as it can.
KnownInv ==
  /\ buffer \subseteq Albums
  /\ up => dedupeDisk \subseteq dedupe
  /\ persistDue => up
  /\ \A v \in sent, k \in Updates : k < v => k \in sent
  /\ safe + 1 \notin completed

\* A batch is in order, and what it leaves out below was handled or is given up.
BatchInv ==
  /\ \A i, j \in 1..Len(batch) : i < j => batch[i] < batch[j]
  /\ \A i \in 1..Len(batch), k \in Updates :
        k < batch[i] => k \in handled \/ k \notin unconfirmed \/ InBatch(k)

\* A completed update above a gap is in the file of dedupe keys; or nobody can
\* fill the gap any more while its key is not in memory.
GapsInv == \A u \in completed, k \in Updates :
  k < u => \/ u \in dedupeDisk
           \/ k \in handled
           \/ k \notin unconfirmed /\ ~InBatch(k) /\ (HookHas(k) => u \in dedupe)

\* What is about to be emitted is not known to be processed.
ToEmitNew == \A u \in Updates \ signatures : ToEmit(u) => u \notin dedupe /\ u > safe

NewInv == KnownInv /\ BatchInv /\ GapsInv /\ ToEmitNew

\* An update that was handled is below the watermark or kept above it.
LEMMA HandledIs ==
  ASSUME Typed, OffsetInv, NEW u \in handled
  PROVE  u \in Updates /\ (u <= safe \/ u \in completed)
BY DEF Typed, OffsetInv

\* Completing what is completed moves nothing.
LEMMA CompleteAgain ==
  ASSUME Typed, OffsetInv, KnownInv, NEW u \in completed, NEW tracked \in BOOLEAN, Complete(u, tracked)
  PROVE  safe' = safe /\ completed' \subseteq completed
<1>1. completed \subseteq Updates /\ safe \in Nat /\ u \in Updates
  BY DEF Typed, OffsetInv
<1>2. /\ safe' \in Nat /\ safe' >= safe /\ completed' \subseteq completed \cup {u}
      /\ \A k \in (safe + 1)..safe' : k \in completed \cup {u}
  BY <1>1, CompleteIs
<1>3. safe + 1 \notin completed \cup {u}
  BY DEF KnownInv
<1>4. QED
  BY <1>1, <1>2, <1>3

\* The watermark climbs over nothing that is not known: it climbs only when v fills the
\* gap above it, and what was completed above that gap has its key.
LEMMA ClimbKnown ==
  ASSUME Typed, OffsetInv, KnownInv, GapsInv, up, NEW v \in Updates, NEW tracked \in BOOLEAN,
         Complete(v, tracked), InBatch(v) \/ HookHas(v),
         NEW u \in Updates, u # v, u > safe, u <= safe'
  PROVE  u \in dedupe
<1>1. completed \subseteq Updates /\ safe \in Nat /\ v \in Nat /\ u \in Nat
  BY IngressAssumption DEF Typed, OffsetInv
<1>2. /\ safe' \in Nat /\ safe' >= safe
      /\ \A k \in (safe + 1)..safe' : k \in completed \cup {v}
  BY <1>1, CompleteIs
<1>3. safe + 1 \notin completed
  BY DEF KnownInv
<1>4. safe + 1 \in (safe + 1)..safe'
  BY <1>1, <1>2
<1>5. v = safe + 1
  BY <1>2, <1>3, <1>4
<1>6. u \in completed /\ v < u
  BY <1>1, <1>2, <1>5
<1>7. v \notin handled
  BY <1>1, <1>3, <1>5, HandledIs
<1>8. u \in dedupeDisk \/ u \in dedupe
  BY <1>6, <1>7 DEF GapsInv
<1>9. QED
  BY <1>8 DEF KnownInv

LEMMA BatchStays ==
  ASSUME BatchInv, batch' = batch, handled \subseteq handled',
         \A k \in sent : k \in unconfirmed' => k \in unconfirmed,
         \A v \in sent, k \in Updates : k < v => k \in sent, Typed
  PROVE  BatchInv'
<1>1. \A k : InBatch(k)' <=> InBatch(k)
  BY DEF InBatch
<1>2. \A i \in 1..Len(batch) : batch[i] \in sent
  BY DEF Typed
<1>3. QED
  BY <1>1, <1>2 DEF BatchInv

\* The first of a batch is handled, and goes.
LEMMA BatchTail ==
  ASSUME Typed, BatchInv, batch # <<>>, batch' = Tail(batch), Current \in handled',
         handled \subseteq handled', unconfirmed' \subseteq unconfirmed
  PROVE  /\ BatchInv'
         /\ \A k \in Updates : InBatch(k)' => InBatch(k) /\ k > Current
         /\ \A k \in Updates : k < Current => k \in handled \/ k \notin unconfirmed
<1>1. /\ batch \in Seq(sent) /\ Len(batch) \in Nat /\ Len(batch) >= 1 /\ Current = batch[1]
      /\ \A i \in 1..Len(batch) : batch[i] \in Nat
  <2>1. batch \in Seq(sent) /\ sent \subseteq Nat
    BY IngressAssumption DEF Typed
  <2>2. \A i \in 1..Len(batch) : batch[i] \in sent
    BY <2>1
  <2>3. Len(batch) \in Nat /\ Len(batch) # 0
    BY <2>1
  <2>4. Current = batch[1]
    BY <2>1, CurrentIs
  <2>5. \A i \in 1..Len(batch) : batch[i] \in Nat
    <3>1. sent \subseteq Nat
      BY <2>1
    <3>2. QED
      BY <2>2, <3>1
  <2>6. Len(batch) >= 1
    BY <2>3
  <2>7. QED
    BY <2>1, <2>3, <2>4, <2>5, <2>6
<1>2. /\ Len(batch') = Len(batch) - 1
      /\ \A j \in 1..Len(batch') : j + 1 \in 1..Len(batch) /\ batch'[j] = batch[j + 1] /\ j + 1 > 1
  BY <1>1
<1>3. \A i, j \in 1..Len(batch) : i < j => batch[i] < batch[j]
  BY DEF BatchInv
<1>4. \A k : InBatch(k)' <=> \E j \in 1..Len(batch') : batch'[j] = k
  BY DEF InBatch
<1>5. \A k \in Updates : InBatch(k)' => InBatch(k) /\ k > Current
  <2> SUFFICES ASSUME NEW k \in Updates, NEW j \in 1..Len(batch'), batch'[j] = k
               PROVE  InBatch(k) /\ k > Current
    BY <1>4
  <2>1. j + 1 \in 1..Len(batch) /\ batch[j + 1] = k /\ j + 1 > 1 /\ 1 \in 1..Len(batch)
    BY <1>1, <1>2
  <2>2. batch[1] < batch[j + 1]
    BY <1>3, <2>1
  <2>3. QED
    BY <1>1, <2>1, <2>2 DEF InBatch
<1>6. \A k : InBatch(k) => InBatch(k)' \/ k = Current
  <2> SUFFICES ASSUME NEW k, NEW j \in 1..Len(batch), batch[j] = k, j # 1 PROVE InBatch(k)'
    BY <1>1 DEF InBatch
  <2>1. j - 1 \in 1..Len(batch') /\ (j - 1) + 1 = j
    BY <1>1, <1>2
  <2>2. batch'[j - 1] = k
    BY <1>2, <2>1
  <2>3. QED
    BY <1>4, <2>1, <2>2
<1>7. \A i, j \in 1..Len(batch') : i < j => batch'[i] < batch'[j]
  <2> SUFFICES ASSUME NEW i \in 1..Len(batch'), NEW j \in 1..Len(batch'), i < j PROVE batch'[i] < batch'[j]
    OBVIOUS
  <2>1. i + 1 \in 1..Len(batch) /\ j + 1 \in 1..Len(batch) /\ i + 1 < j + 1
    BY <1>2
  <2>2. batch[i + 1] < batch[j + 1]
    BY <1>3, <2>1
  <2>3. QED
    BY <1>2, <2>2
<1>8. \A i \in 1..Len(batch'), k \in Updates :
         k < batch'[i] => k \in handled' \/ k \notin unconfirmed' \/ InBatch(k)'
  <2> SUFFICES ASSUME NEW i \in 1..Len(batch'), NEW k \in Updates, k < batch'[i]
               PROVE  k \in handled' \/ k \notin unconfirmed' \/ InBatch(k)'
    OBVIOUS
  <2>1. i + 1 \in 1..Len(batch) /\ k < batch[i + 1]
    BY <1>2
  <2>2. k \in handled \/ k \notin unconfirmed \/ InBatch(k)
    BY <2>1 DEF BatchInv
  <2>3. QED
    BY <1>6, <2>2
<1>9. \A k \in Updates : k < Current => k \in handled \/ k \notin unconfirmed
  <2> SUFFICES ASSUME NEW k \in Updates, k < batch[1] PROVE k \in handled \/ k \notin unconfirmed
    BY <1>1
  <2>1. ~InBatch(k)
    <3> SUFFICES ASSUME NEW j \in 1..Len(batch), batch[j] = k PROVE FALSE
      BY DEF InBatch
    <3>1. 1 \in 1..Len(batch) /\ (j = 1 \/ 1 < j)
      BY <1>1
    <3>2. batch[1] <= batch[j]
      BY <1>1, <1>3, <3>1
    <3>3. QED
      BY <1>1, <3>2
  <2>2. QED
    BY <1>1, <2>1 DEF BatchInv
<1>10. QED
  BY <1>5, <1>7, <1>8, <1>9 DEF BatchInv

LEMMA BatchEmpty == ASSUME batch' = <<>> PROVE BatchInv' /\ \A k : ~InBatch(k)'
BY DEF BatchInv, InBatch

\* getUpdates returns the oldest of what it did not confirm.
LEMMA BatchFetched ==
  ASSUME Typed, GetUpdates
  PROVE  BatchInv' /\ \A k \in Updates : InBatch(k)' => k \in unconfirmed'
<1>1. unconfirmed' \in SUBSET Updates /\ IsFiniteSet(unconfirmed')
  <2>1. unconfirmed' \in SUBSET Updates
    BY DEF GetUpdates, Typed
  <2>2. QED
    BY <2>1, FS_Subset, IngressAssumption
<1>2. PICK n \in 0..Cardinality(unconfirmed') : batch' \in Oldest(unconfirmed', n)
  BY DEF GetUpdates
<1>3. batch' \in Seq(unconfirmed') /\ Len(batch') = n
  BY <1>1, <1>2, OldestIs
<1>4. /\ \A i, j \in 1..n : i < j => batch'[i] < batch'[j]
      /\ \A i \in 1..n, u \in unconfirmed' : u < batch'[i] => \E j \in 1..n : batch'[j] = u
  BY <1>2 DEF Oldest
<1>5. \A k : InBatch(k)' <=> \E j \in 1..n : batch'[j] = k
  BY <1>3 DEF InBatch
<1>6. \A j \in 1..n : batch'[j] \in unconfirmed'
  BY <1>3
<1>7. QED
  BY <1>3, <1>4, <1>5, <1>6 DEF BatchInv

LEMMA GapsStay ==
  ASSUME GapsInv, completed' \subseteq completed, completed \subseteq Updates,
         dedupeDisk \subseteq dedupeDisk', dedupe \subseteq dedupe', handled \subseteq handled',
         \A u \in completed, k \in Updates : k < u /\ k \notin unconfirmed =>
            k \notin unconfirmed' /\ (InBatch(k)' => InBatch(k)) /\ (HookHas(k)' => HookHas(k))
  PROVE  GapsInv'
BY DEF GapsInv

\* An update is committed.  Below it everything was handled or is given up, or its key is
\* written to the file at once.
LEMMA GapsCommit ==
  ASSUME Typed, OffsetInv, GapsInv, NEW v \in Updates, NEW tracked \in BOOLEAN, Complete(v, tracked),
         handled' = handled \cup {v}, dedupe' = dedupe \cup {v}, dedupeDisk \subseteq dedupeDisk',
         unconfirmed' \subseteq unconfirmed,
         \A k \in Updates : (InBatch(k)' => InBatch(k)) /\ (HookHas(k)' => HookHas(k)),
         \/ v \in dedupeDisk'
         \/ \A k \in Updates : k < v => k \in handled \/ (k \notin unconfirmed /\ ~InBatch(k)')
  PROVE  GapsInv'
<1>1. completed \subseteq Updates /\ safe \in Nat
  BY DEF Typed, OffsetInv
<1>2. completed' \subseteq completed \cup {v}
  BY <1>1, CompleteIs
<1> SUFFICES ASSUME NEW u \in completed', NEW k \in Updates, k < u, u \notin dedupeDisk', k \notin handled'
             PROVE  k \notin unconfirmed' /\ ~InBatch(k)' /\ (HookHas(k)' => u \in dedupe')
  BY DEF GapsInv
<1>3. CASE u = v
  BY <1>3
<1>4. CASE u \in completed
  <2>1. k \notin unconfirmed /\ ~InBatch(k) /\ (HookHas(k) => u \in dedupe)
    BY <1>4 DEF GapsInv
  <2>2. QED
    BY <2>1
<1>5. QED
  BY <1>2, <1>3, <1>4

\* What the handlers have in hand, and what they pass on.
LEMMA HookTakes ==
  ASSUME Typed, NEW u \in Updates, HookBegin(u), NEW k \in Updates
  PROVE  /\ k # u => inHand'[k] = inHand[k] /\ emitted'[k] = emitted[k]
         /\ k # u /\ HookHas(k)' => HookHas(k)
<1>1. inHand' = [inHand EXCEPT ![u] = @ + 1] /\ emitted' = emitted /\ inHand \in [Updates -> Nat]
  BY DEF HookBegin, Typed
<1>2. \A m \in Updates : inHand'[m] = IF m = u THEN inHand[u] + 1 ELSE inHand[m]
  BY <1>1, CountUp
<1>3. QED
  BY <1>1, <1>2 DEF HookHas

LEMMA HookMoves ==
  ASSUME Typed, NEW u \in Updates, HookEmit(u) \/ HookFail(u) \/ HookCommit(u), NEW k \in Updates
  PROVE  /\ HookHas(k)' => HookHas(k)
         /\ inHand'[k] <= inHand[k] /\ inHand[k] \in Nat /\ inHand'[k] \in Nat
<1>1. inHand \in [Updates -> Nat] /\ emitted \in [Updates -> Nat]
  BY DEF Typed
<1>2. inHand[k] \in Nat /\ emitted[k] \in Nat
  BY <1>1
<1>3. CASE HookEmit(u)
  <2>1. /\ inHand' = [inHand EXCEPT ![u] = @ - 1] /\ emitted' = [emitted EXCEPT ![u] = @ + 1]
        /\ inHand[u] > 0
    BY <1>3 DEF HookEmit
  <2>2. inHand'[k] = IF k = u THEN inHand[u] - 1 ELSE inHand[k]
    BY <1>1, <2>1, CountDown
  <2>3. emitted'[k] = IF k = u THEN emitted[u] + 1 ELSE emitted[k]
    BY <1>1, <2>1, CountUp
  <2>4. QED
    BY <1>2, <2>1, <2>2, <2>3 DEF HookHas
<1>4. CASE HookFail(u)
  <2>1. inHand' = [inHand EXCEPT ![u] = @ - 1] /\ emitted' = emitted /\ inHand[u] > 0
    BY <1>4 DEF HookFail
  <2>2. inHand'[k] = IF k = u THEN inHand[u] - 1 ELSE inHand[k]
    BY <1>1, <2>1, CountDown
  <2>3. QED
    BY <1>2, <2>1, <2>2 DEF HookHas
<1>5. CASE HookCommit(u)
  <2>1. emitted' = [emitted EXCEPT ![u] = @ - 1] /\ inHand' = inHand /\ emitted[u] > 0
    BY <1>5 DEF HookCommit
  <2>2. emitted'[k] = IF k = u THEN emitted[u] - 1 ELSE emitted[k]
    BY <1>1, <2>1, CountDown
  <2>3. QED
    BY <1>2, <2>1, <2>2 DEF HookHas
<1>6. QED
  BY <1>3, <1>4, <1>5

\* A skipped duplicate was completed before: skipping it moves no watermark.
LEMMA SkipStays ==
  ASSUME Typed, OffsetInv, KnownInv, (\E u \in Updates : HookSkip(u)) \/ PollSkip
  PROVE  safe' = safe /\ completed' \subseteq completed
<1>1. \A u : u \in dedupe => u \in handled
  BY DEF OffsetInv
<1>2. ASSUME NEW u \in Updates, NEW tracked \in BOOLEAN, Duplicate(u), ~Stale(u), Complete(u, tracked)
      PROVE  safe' = safe /\ completed' \subseteq completed
  <2>1. u \in completed
    BY <1>1, <1>2, HandledIs DEF Duplicate, Stale
  <2>2. QED
    BY <1>2, <2>1, CompleteAgain
<1>3. ASSUME NEW u \in Updates, HookSkip(u) PROVE safe' = safe /\ completed' \subseteq completed
  <2>1. UNCHANGED offsets \/ (Duplicate(u) /\ ~Stale(u) /\ Complete(u, Tracked(u)))
    BY <1>3 DEF HookSkip
  <2>2. Tracked(u) \in BOOLEAN
    BY DEF Tracked
  <2>3. QED
    BY <1>2, <2>1, <2>2 DEF offsets
<1>4. CASE PollSkip
  <2>1. PICK u \in Updates : u = Current
    BY <1>4, CurrentIs DEF PollSkip, Typed
  <2>2. UNCHANGED offsets \/ (Duplicate(u) /\ ~Stale(u) /\ Complete(u, u \in pending))
    BY <1>4, <2>1 DEF PollSkip
  <2>3. (u \in pending) \in BOOLEAN
    OBVIOUS
  <2>4. QED
    BY <1>2, <2>2, <2>3 DEF offsets
<1>5. QED
  BY <1>3, <1>4

\* The next above the watermark is not the update just passed.
LEMMA AboveTop ==
  ASSUME NEW base \in Nat, NEW top \in Nat, NEW u \in Nat, top >= base, u > base => top + 1 # u
  PROVE  top + 1 # u
OBVIOUS

\* After an update was completed, the next above the watermark is missing.
LEMMA NextMissing ==
  ASSUME Typed, OffsetInv, NEW u \in Updates, NEW tracked \in BOOLEAN, Complete(u, tracked)
  PROVE  safe' + 1 \notin completed' /\ safe' \in Nat /\ safe' >= safe
<1>1. completed \subseteq Updates /\ safe \in Nat /\ u \in Nat
  BY IngressAssumption DEF Typed, OffsetInv
<1>2. /\ safe' \in Nat /\ safe' >= safe /\ completed' \subseteq completed \cup {u}
      /\ safe' + 1 \notin completed /\ (u > safe => safe' + 1 # u)
  BY <1>1, CompleteIs
<1>3. safe' + 1 # u
  <2> DEFINE top == safe'
  <2>1. top \in Nat /\ top >= safe /\ (u > safe => top + 1 # u)
    BY <1>2
  <2> HIDE DEF top
  <2>2. top + 1 # u
    BY <1>1, <2>1, AboveTop
  <2>3. QED
    BY <2>2 DEF top
<1>4. QED
  BY <1>2, <1>3

LEMMA KnownKeeps ==
  ASSUME Typed, OffsetInv, KnownInv, [Next]_vars
  PROVE  KnownInv'
<1>1. ASSUME UNCHANGED <<sent, buffer>>, up' = up, dedupeDisk' \subseteq dedupeDisk \cup dedupe',
             dedupe \subseteq dedupe', persistDue' => persistDue \/ up,
             safe' = safe, completed' \subseteq completed
      PROVE  KnownInv'
  BY <1>1 DEF KnownInv
<1>2. ASSUME NEW u \in Updates, Send(u) PROVE KnownInv'
  BY <1>2 DEF Send, KnownInv, process, offsets, keys, inbox
<1>3. ASSUME NEW u \in Updates, HookSkip(u) PROVE KnownInv'
  <2>1. safe' = safe /\ completed' \subseteq completed
    BY <1>3, SkipStays
  <2>2. UNCHANGED <<sent, buffer, up, dedupe, dedupeDisk, persistDue>>
    BY <1>3, AnsweredIs DEF HookSkip, process, keys, inbox
  <2>3. QED
    BY <1>1, <2>1, <2>2
<1>4. ASSUME NEW u \in Updates, HookBegin(u) \/ HookFail(u) PROVE KnownInv'
  BY <1>1, <1>4, AnsweredIs DEF HookBegin, Begin, HookFail, process, server, offsets, keys, inbox
<1>5. ASSUME NEW u \in Updates, Emit(u), UNCHANGED <<process, server, offsets, keys>> PROVE KnownInv'
  <2>1. buffer' \subseteq buffer \cup (Albums \cap {u})
    BY <1>5 DEF Emit, inbox
  <2>2. QED
    BY <1>5, <2>1 DEF KnownInv, process, server, offsets, keys
<1>6. ASSUME NEW u \in Updates, HookEmit(u) PROVE KnownInv'
  BY <1>5, <1>6 DEF HookEmit
<1>7. CASE PollEmit
  <2>1. PICK u \in Updates : u = Current
    BY <1>7, CurrentIs DEF PollEmit, Typed
  <2>2. QED
    BY <1>5, <1>7, <2>1 DEF PollEmit
<1>8. CASE PollSkip
  <2>1. safe' = safe /\ completed' \subseteq completed
    BY <1>8, SkipStays
  <2>2. QED
    BY <1>1, <1>8, <2>1 DEF PollSkip, process, server, keys, inbox
<1>9. CASE GetUpdates \/ PollBegin \/ PollConflict \/ PollFail
  BY <1>1, <1>9 DEF GetUpdates, PollBegin, Begin, PollConflict, PollFail, process, server, offsets, keys, inbox
<1>10. CASE PersistDedupe
  BY <1>1, <1>10 DEF PersistDedupe, process, server, offsets, inbox
<1>11. ASSUME NEW ok \in BOOLEAN, Flush(ok) \/ Refresh(ok) PROVE KnownInv'
  BY <1>11 DEF Flush, Refresh, KnownInv, process, server, offsets, keys, inbox
<1>12. CASE Boot \/ Crash \/ UNCHANGED vars
  BY <1>12 DEF Boot, Crash, vars, KnownInv, process, server, offsets, keys, inbox
<1>13. CASE PollCommit
  <2>1. PICK u \in Updates : u = Current
    BY <1>13, CurrentIs DEF PollCommit, Typed
  <2>2. Complete(u, TRUE) /\ up
    BY <1>13, <2>1 DEF PollCommit, Typed
  <2>3. safe' + 1 \notin completed'
    BY <2>2, NextMissing
  <2>4. /\ dedupe' = dedupe \cup {Current} /\ UNCHANGED <<up, dedupeDisk, sent, buffer>>
    BY <1>13 DEF PollCommit, Remember, process, server
  <2>5. QED
    BY <2>2, <2>3, <2>4 DEF KnownInv
<1>14. ASSUME NEW u \in Updates, HookCommit(u) PROVE KnownInv'
  <2>1. Complete(u, Tracked(u)) /\ Tracked(u) \in BOOLEAN
    BY <1>14 DEF HookCommit, Tracked
  <2>2. safe' + 1 \notin completed'
    BY <2>1, NextMissing
  <2>3. /\ dedupe' = dedupe \cup {u} /\ dedupeDisk' = dedupe \cup {u}
        /\ UNCHANGED <<up, persistDue, sent, buffer>>
    BY <1>14, AnsweredIs DEF HookCommit, Remember, process
  <2>4. QED
    BY <2>2, <2>3 DEF KnownInv
<1>15. QED
  BY <1>2, <1>3, <1>4, <1>6, <1>7, <1>8, <1>9, <1>10, <1>11, <1>12, <1>13, <1>14 DEF Next, Poll, Hook

LEMMA BatchKeeps ==
  ASSUME Typed, OffsetInv, KnownInv, BatchInv, [Next]_vars
  PROVE  BatchInv'
<1>1. \A v \in sent, k \in Updates : k < v => k \in sent
  BY DEF KnownInv
<1>2. ASSUME batch' = batch, handled \subseteq handled', unconfirmed' \subseteq unconfirmed PROVE BatchInv'
  BY <1>1, <1>2, BatchStays
<1>3. ASSUME NEW u \in Updates, Send(u) PROVE BatchInv'
  BY <1>1, <1>3, BatchStays DEF Send, handlers
<1>4. ASSUME NEW u \in Updates, HookSkip(u) \/ HookFail(u) \/ HookCommit(u) PROVE BatchInv'
  BY <1>2, <1>4, AnsweredIs DEF HookSkip, HookFail, HookCommit, handlers
<1>5. ASSUME NEW u \in Updates, HookBegin(u) \/ HookEmit(u) PROVE BatchInv'
  BY <1>2, <1>5 DEF HookBegin, HookEmit, server
<1>6. CASE PollBegin \/ PollEmit \/ PollConflict \/ PersistDedupe
  BY <1>2, <1>6 DEF PollBegin, PollEmit, PollConflict, PersistDedupe, handlers, server
<1>7. CASE GetUpdates
  BY <1>7, BatchFetched
<1>8. CASE PollSkip
  <2>1. Current \in sent /\ batch # <<>>
    BY <1>8, CurrentIs DEF PollSkip, Typed
  <2>2. Current \in handled
    <3>1. Current \in Nat \ {0}
      BY <2>1, IngressAssumption DEF Typed
    <3>2. QED
      BY <1>8, <3>1 DEF PollSkip, Stale, Duplicate, OffsetInv
  <2>3. batch' = Tail(batch) /\ handled' = handled /\ unconfirmed' = unconfirmed
    BY <1>8 DEF PollSkip, server
  <2>4. QED
    BY <2>1, <2>2, <2>3, BatchTail
<1>9. CASE PollCommit
  <2>1. batch # <<>> /\ batch' = Tail(batch) /\ handled' = handled \cup {Current} /\ unconfirmed' = unconfirmed
    BY <1>9 DEF PollCommit, server, Typed
  <2>2. QED
    BY <2>1, BatchTail
<1>10. CASE PollFail \/ Crash
  BY <1>10, BatchEmpty DEF PollFail, Crash
<1>11. ASSUME NEW ok \in BOOLEAN, Flush(ok) \/ Refresh(ok) PROVE BatchInv'
  BY <1>2, <1>11 DEF Flush, Refresh, server, handlers
<1>12. CASE Boot \/ UNCHANGED vars
  BY <1>2, <1>12 DEF Boot, vars, server, handlers
<1>13. QED
  BY <1>3, <1>4, <1>5, <1>6, <1>7, <1>8, <1>9, <1>10, <1>11, <1>12 DEF Next, Poll, Hook

LEMMA TailIn ==
  ASSUME batch \in Seq(sent), batch # <<>>, batch' = Tail(batch)
  PROVE  \A k : InBatch(k)' => InBatch(k)
<1>1. /\ Len(batch') = Len(batch) - 1 /\ Len(batch) \in Nat
      /\ \A j \in 1..Len(batch') : j + 1 \in 1..Len(batch) /\ batch'[j] = batch[j + 1]
  OBVIOUS
<1>2. QED
  BY <1>1 DEF InBatch

LEMMA GapsKeeps ==
  ASSUME Typed, OffsetInv, KnownInv, BatchInv, GapsInv, [Next]_vars
  PROVE  GapsInv'
<1>1. /\ completed \subseteq Updates /\ completed \subseteq sent
      /\ \A v \in sent, k \in Updates : k < v => k \in sent
  BY DEF Typed, OffsetInv, KnownInv
<1>2. up => dedupeDisk \subseteq dedupe
  BY DEF KnownInv
<1>3. \A k \in Updates : HookHas(k) => up
  BY DEF Typed
<1>4. ASSUME UNCHANGED <<completed, dedupe, handled>>, dedupeDisk \subseteq dedupeDisk',
             unconfirmed' \subseteq unconfirmed,
             batch' = batch \/ batch' = <<>>,
             \A k \in Updates : HookHas(k)' => HookHas(k)
      PROVE  GapsInv'
  <2>1. \A k : InBatch(k)' => InBatch(k)
    BY <1>4, BatchEmpty DEF InBatch
  <2>2. QED
    BY <1>1, <1>4, <2>1, GapsStay
<1>5. ASSUME NEW u \in Updates, Send(u) PROVE GapsInv'
  <2>1. /\ unconfirmed' = unconfirmed \cup {u} /\ u \notin sent
        /\ UNCHANGED <<completed, dedupe, dedupeDisk, handled, batch, inHand, emitted>>
    BY <1>5 DEF Send, offsets, keys, handlers
  <2>2. \A v \in completed, k \in Updates : k < v => k # u
    BY <1>1, <2>1
  <2>3. \A k \in Updates : (InBatch(k)' <=> InBatch(k)) /\ (HookHas(k)' <=> HookHas(k))
    BY <2>1 DEF InBatch, HookHas
  <2>4. \A v \in completed, k \in Updates : k < v /\ k \notin unconfirmed => k \notin unconfirmed'
    BY <2>1, <2>2
  <2>5. QED
    BY <1>1, <2>1, <2>3, <2>4, GapsStay
<1>6. ASSUME NEW u \in Updates, HookSkip(u) PROVE GapsInv'
  <2>1. safe' = safe /\ completed' \subseteq completed
    BY <1>6, SkipStays
  <2>2. UNCHANGED <<dedupe, dedupeDisk, handled, batch, inHand, emitted>> /\ unconfirmed' \subseteq unconfirmed
    BY <1>6, AnsweredIs DEF HookSkip, keys, handlers
  <2>3. \A k \in Updates : (InBatch(k)' <=> InBatch(k)) /\ (HookHas(k)' <=> HookHas(k))
    BY <2>2 DEF InBatch, HookHas
  <2>4. QED
    BY <1>1, <2>1, <2>2, <2>3, GapsStay
<1>7. ASSUME NEW u \in Updates, HookBegin(u) PROVE GapsInv'
  <2>1. /\ UNCHANGED <<completed, dedupe, dedupeDisk, handled, batch, unconfirmed>> /\ u \in unconfirmed
    BY <1>7 DEF HookBegin, Begin, Pushed, offsets, keys, server
  <2>2. \A k \in Updates : k \notin unconfirmed /\ HookHas(k)' => HookHas(k)
    BY <1>7, <2>1, HookTakes
  <2>3. \A k \in Updates : InBatch(k)' <=> InBatch(k)
    BY <2>1 DEF InBatch
  <2>4. QED
    BY <1>1, <2>1, <2>2, <2>3, GapsStay
<1>8. ASSUME NEW u \in Updates, HookEmit(u) \/ HookFail(u) PROVE GapsInv'
  <2>1. UNCHANGED <<completed, dedupe, dedupeDisk, handled, batch>> /\ unconfirmed' \subseteq unconfirmed
    BY <1>8, AnsweredIs DEF HookEmit, HookFail, offsets, keys, server
  <2>2. \A k \in Updates : HookHas(k)' => HookHas(k)
    BY <1>8, HookMoves
  <2>3. QED
    BY <1>4, <2>1, <2>2
<1>9. CASE GetUpdates
  <2>1. UNCHANGED <<completed, dedupe, dedupeDisk, handled, inHand, emitted>> /\ unconfirmed' \subseteq unconfirmed
    BY <1>9 DEF GetUpdates, offsets, keys
  <2>2. \A k \in Updates : k \notin unconfirmed => ~InBatch(k)'
    BY <1>9, <2>1, BatchFetched
  <2>3. \A k \in Updates : HookHas(k)' <=> HookHas(k)
    BY <2>1 DEF HookHas
  <2>4. QED
    BY <1>1, <2>1, <2>2, <2>3, GapsStay
<1>10. CASE PollSkip
  <2>1. safe' = safe /\ completed' \subseteq completed
    BY <1>10, SkipStays
  <2>2. /\ UNCHANGED <<dedupe, dedupeDisk, handled, inHand, emitted, unconfirmed>>
        /\ batch # <<>> /\ batch' = Tail(batch)
    BY <1>10 DEF PollSkip, keys, server
  <2>3. \A k \in Updates : InBatch(k)' => InBatch(k)
    BY <2>2, TailIn DEF Typed
  <2>4. \A k \in Updates : HookHas(k)' <=> HookHas(k)
    BY <2>2 DEF HookHas
  <2>5. QED
    BY <1>1, <2>1, <2>2, <2>3, <2>4, GapsStay
<1>11. CASE PollBegin \/ PollEmit \/ PollConflict \/ PollFail
  <2>1. /\ UNCHANGED <<completed, dedupe, dedupeDisk, handled, inHand, emitted, unconfirmed>>
        /\ batch' = batch \/ batch' = <<>>
    BY <1>11 DEF PollBegin, Begin, PollEmit, PollConflict, PollFail, offsets, keys, handlers, server
  <2>2. \A k \in Updates : HookHas(k)' <=> HookHas(k)
    BY <2>1 DEF HookHas
  <2>3. QED
    BY <1>4, <2>1, <2>2
<1>12. CASE PersistDedupe
  <2>1. UNCHANGED <<completed, dedupe, handled, inHand, emitted, unconfirmed, batch>> /\ dedupeDisk' = dedupe /\ up
    BY <1>12 DEF PersistDedupe, KnownInv, offsets, handlers, server
  <2>2. \A k \in Updates : HookHas(k)' <=> HookHas(k)
    BY <2>1 DEF HookHas
  <2>3. QED
    BY <1>2, <1>4, <2>1, <2>2
<1>13. ASSUME NEW ok \in BOOLEAN, Flush(ok) \/ Refresh(ok) PROVE GapsInv'
  <2>1. UNCHANGED <<completed, dedupe, dedupeDisk, handled, inHand, emitted, unconfirmed, batch>>
    BY <1>13 DEF Flush, Refresh, offsets, keys, handlers, server
  <2>2. \A k \in Updates : HookHas(k)' <=> HookHas(k)
    BY <2>1 DEF HookHas
  <2>3. QED
    BY <1>4, <2>1, <2>2
<1>14. CASE UNCHANGED vars
  <2>1. UNCHANGED <<completed, dedupe, dedupeDisk, handled, inHand, emitted, unconfirmed, batch>>
    BY <1>14 DEF vars, offsets, keys, handlers, server
  <2>2. \A k \in Updates : HookHas(k)' <=> HookHas(k)
    BY <2>1 DEF HookHas
  <2>3. QED
    BY <1>4, <2>1, <2>2
<1>15. ASSUME UNCHANGED <<completed, dedupeDisk, handled, unconfirmed>>,
              \A k \in Updates : ~HookHas(k)', \A k \in Updates : InBatch(k)' => InBatch(k)
       PROVE  GapsInv'
  BY <1>1, <1>15 DEF GapsInv
<1>16. CASE Boot
  <2>1. UNCHANGED <<completed, dedupeDisk, handled, unconfirmed, batch, inHand, emitted>> /\ ~up
    BY <1>16 DEF Boot, offsets, handlers
  <2>2. \A k \in Updates : ~HookHas(k)' /\ (InBatch(k)' => InBatch(k))
    BY <1>3, <2>1 DEF HookHas, InBatch
  <2>3. QED
    BY <1>15, <2>1, <2>2
<1>17. CASE Crash
  <2>1. /\ UNCHANGED <<completed, dedupeDisk, handled, unconfirmed>> /\ batch' = <<>>
        /\ \A k \in Updates : inHand'[k] = 0 /\ emitted'[k] = 0
    BY <1>17 DEF Crash, offsets, server
  <2>2. \A k \in Updates : ~HookHas(k)' /\ ~InBatch(k)'
    BY <2>1, BatchEmpty DEF HookHas
  <2>3. QED
    BY <1>15, <2>1, <2>2
<1>18. CASE PollCommit
  <2>1. PICK v \in Updates : v = Current
    BY <1>18, CurrentIs DEF PollCommit, Typed
  <2>2. /\ Complete(v, TRUE) /\ handled' = handled \cup {v} /\ dedupe' = dedupe \cup {v}
        /\ UNCHANGED <<dedupeDisk, unconfirmed, inHand, emitted>>
        /\ batch # <<>> /\ batch' = Tail(batch)
    BY <1>18, <2>1 DEF PollCommit, server, Typed
  <2>3. /\ \A k \in Updates : InBatch(k)' => InBatch(k) /\ k > v
        /\ \A k \in Updates : k < v => k \in handled \/ k \notin unconfirmed
    BY <2>1, <2>2, BatchTail
  <2>4. \A k \in Updates : k < v => k \in handled \/ (k \notin unconfirmed /\ ~InBatch(k)')
    BY <2>3, IngressAssumption
  <2>5. \A k \in Updates : HookHas(k)' <=> HookHas(k)
    BY <2>2 DEF HookHas
  <2>6. QED
    BY <2>2, <2>3, <2>4, <2>5, GapsCommit
<1>19. ASSUME NEW v \in Updates, HookCommit(v) PROVE GapsInv'
  <2>1. /\ Complete(v, Tracked(v)) /\ Tracked(v) \in BOOLEAN
        /\ handled' = handled \cup {v} /\ dedupe' = dedupe \cup {v} /\ dedupeDisk' = dedupe \cup {v}
        /\ batch' = batch /\ unconfirmed' \subseteq unconfirmed
    BY <1>19, AnsweredIs DEF HookCommit, Tracked
  <2>2. up
    BY <1>3, <1>19 DEF HookCommit, HookHas, Typed
  <2>3. \A k \in Updates : (InBatch(k)' => InBatch(k)) /\ (HookHas(k)' => HookHas(k))
    BY <1>19, <2>1, HookMoves DEF InBatch
  <2>4. QED
    BY <1>2, <2>1, <2>2, <2>3, GapsCommit
<1>20. QED
  BY <1>5, <1>6, <1>7, <1>8, <1>9, <1>10, <1>11, <1>12, <1>13, <1>14, <1>16, <1>17, <1>18, <1>19
     DEF Next, Poll, Hook

\* A step that leaves the keys and the watermark, and takes nothing new in hand.
LEMMA ToEmitStays ==
  ASSUME ToEmitNew, signatures \subseteq signatures', dedupe' \subseteq dedupe, safe' = safe,
         \A u \in Updates : ToEmit(u)' => ToEmit(u)
  PROVE  ToEmitNew'
BY DEF ToEmitNew

\* A commit takes nothing in hand, signs what it commits, and passes nothing unknown.
LEMMA ToEmitCommit ==
  ASSUME Typed, OffsetInv, KnownInv, GapsInv, ToEmitNew, up,
         NEW v \in Updates, NEW tracked \in BOOLEAN, Complete(v, tracked), InBatch(v) \/ HookHas(v),
         dedupe' = dedupe \cup {v}, signatures' = signatures \cup {v},
         \A u \in Updates : u # v => (ToEmit(u)' => ToEmit(u))
  PROVE  ToEmitNew'
<1> SUFFICES ASSUME NEW u \in Updates, u \notin signatures', ToEmit(u)'
             PROVE  u \notin dedupe' /\ u > safe'
  BY DEF ToEmitNew
<1>1. u # v /\ u \notin signatures /\ ToEmit(u)
  OBVIOUS
<1>2. u \notin dedupe /\ u > safe
  BY <1>1 DEF ToEmitNew
<1>3. ~(u <= safe')
  BY <1>1, <1>2, ClimbKnown
<1>4. u \in Nat /\ safe' \in Nat
  BY NextMissing, IngressAssumption
<1>5. QED
  BY <1>1, <1>2, <1>3, <1>4

LEMMA ToEmitKeeps ==
  ASSUME Typed, OffsetInv, KnownInv, GapsInv, ToEmitNew, [Next]_vars
  PROVE  ToEmitNew'
<1>1. ASSUME UNCHANGED <<signatures, dedupe, safe, inHand>>,
             UNCHANGED <<poll, batch>> \/ poll' # "handling"
      PROVE  ToEmitNew'
  BY <1>1, ToEmitStays DEF ToEmit
<1>2. ASSUME NEW u \in Updates, Send(u) PROVE ToEmitNew'
  BY <1>1, <1>2 DEF Send, offsets, keys, handlers, inbox
<1>3. ASSUME NEW u \in Updates, HookSkip(u) PROVE ToEmitNew'
  BY <1>1, <1>3, SkipStays DEF HookSkip, keys, handlers, inbox
<1>4. ASSUME NEW u \in Updates, HookBegin(u) PROVE ToEmitNew'
  <2>1. ~Stale(u) /\ ~Duplicate(u) /\ UNCHANGED <<signatures, dedupe, safe, poll, batch>>
    BY <1>4 DEF HookBegin, Begin, offsets, keys, inbox
  <2>2. u > safe /\ u \notin dedupe
    BY <2>1, IngressAssumption DEF Stale, Duplicate, OffsetInv
  <2>3. \A k \in Updates : k # u /\ ToEmit(k)' => ToEmit(k)
    BY <1>4, <2>1, HookTakes DEF ToEmit
  <2>4. QED
    BY <2>1, <2>2, <2>3 DEF ToEmitNew
<1>5. ASSUME NEW u \in Updates, HookEmit(u) \/ HookFail(u) PROVE ToEmitNew'
  <2>1. UNCHANGED <<dedupe, safe, poll, batch>>
    BY <1>5 DEF HookEmit, HookFail, offsets, keys
  <2>2. signatures \subseteq signatures'
    BY <1>5 DEF HookEmit, HookFail, Emit, inbox
  <2>3. \A k \in Updates : ToEmit(k)' => ToEmit(k)
    <3> TAKE k \in Updates
    <3>1. inHand'[k] <= inHand[k] /\ inHand[k] \in Nat /\ inHand'[k] \in Nat
      BY <1>5, HookMoves
    <3>2. QED
      BY <2>1, <3>1 DEF ToEmit
  <2>4. QED
    BY <2>1, <2>2, <2>3, ToEmitStays
<1>6. CASE GetUpdates \/ PollConflict \/ PollFail \/ PersistDedupe
  BY <1>1, <1>6 DEF GetUpdates, PollConflict, PollFail, PersistDedupe, offsets, keys, handlers, inbox
<1>7. CASE PollSkip
  BY <1>1, <1>7, SkipStays DEF PollSkip, keys, inbox
<1>8. CASE PollBegin
  <2>1. ~Stale(Current) /\ ~Duplicate(Current) /\ UNCHANGED <<signatures, dedupe, safe, inHand, batch>>
    BY <1>8 DEF PollBegin, Begin, keys, inbox
  <2>2. Current \in Nat
    BY <1>8, CurrentIs, IngressAssumption DEF PollBegin, Typed
  <2>3. Current > safe /\ Current \notin dedupe
    BY <2>1, <2>2 DEF Stale, Duplicate, OffsetInv
  <2>4. \A k \in Updates : k # Current /\ ToEmit(k)' => ToEmit(k)
    BY <2>1 DEF ToEmit, Current
  <2>5. QED
    BY <2>1, <2>3, <2>4 DEF ToEmitNew
<1>9. CASE PollEmit
  <2>1. UNCHANGED <<dedupe, safe, inHand>> /\ poll' = "emitted"
    BY <1>9 DEF PollEmit, offsets, keys
  <2>2. signatures \subseteq signatures'
    BY <1>9 DEF PollEmit, Emit, inbox
  <2>3. QED
    BY <2>1, <2>2, ToEmitStays DEF ToEmit
<1>10. ASSUME NEW ok \in BOOLEAN, Flush(ok) \/ Refresh(ok) PROVE ToEmitNew'
  BY <1>1, <1>10 DEF Flush, Refresh, offsets, keys, handlers, inbox
<1>11. CASE UNCHANGED vars
  BY <1>1, <1>11 DEF vars, offsets, keys, handlers, inbox
<1>12. CASE Boot
  <2>1. UNCHANGED <<safe, poll, batch, inHand, signatures>> /\ ~up
    BY <1>12 DEF Boot, offsets, handlers, inbox
  <2>2. \A k \in Updates : ~ToEmit(k)
    <3> TAKE k \in Updates
    <3>1. poll = "idle" /\ ~HookHas(k) /\ inHand[k] \in Nat /\ emitted[k] \in Nat
      BY <2>1 DEF Typed
    <3>2. QED
      BY <3>1 DEF ToEmit, HookHas
  <2>3. QED
    BY <2>1, <2>2 DEF ToEmitNew, ToEmit
<1>13. CASE Crash
  <2>1. poll' = "idle" /\ \A k \in Updates : inHand'[k] = 0
    BY <1>13 DEF Crash
  <2>2. QED
    BY <2>1 DEF ToEmitNew, ToEmit
<1>14. CASE PollCommit
  <2>1. PICK v \in Updates : v = Current
    BY <1>14, CurrentIs DEF PollCommit, Typed
  <2>2. /\ Complete(v, TRUE) /\ dedupe' = dedupe \cup {v} /\ signatures' = signatures \cup {v}
        /\ inHand' = inHand /\ poll' = "idle" /\ up
    BY <1>14, <2>1 DEF PollCommit, Remember, Typed
  <2>3. InBatch(v)
    <3>1. batch \in Seq(sent) /\ batch # <<>>
      BY <1>14 DEF PollCommit, Typed
    <3>2. 1 \in 1..Len(batch) /\ v = batch[1]
      BY <2>1, <3>1, CurrentIs
    <3>3. QED
      BY <3>2 DEF InBatch
  <2>4. \A k \in Updates : ToEmit(k)' => ToEmit(k)
    BY <2>2 DEF ToEmit
  <2>5. QED
    BY <2>2, <2>3, <2>4, ToEmitCommit
<1>15. ASSUME NEW v \in Updates, HookCommit(v) PROVE ToEmitNew'
  <2>1. /\ Complete(v, Tracked(v)) /\ Tracked(v) \in BOOLEAN
        /\ dedupe' = dedupe \cup {v} /\ signatures' = signatures \cup {v}
        /\ UNCHANGED <<inHand, poll, batch>>
    BY <1>15 DEF HookCommit, Remember, Tracked
  <2>2. HookHas(v) /\ up
    BY <1>15 DEF HookCommit, HookHas, Typed
  <2>3. \A k \in Updates : ToEmit(k)' => ToEmit(k)
    BY <2>1 DEF ToEmit
  <2>4. QED
    BY <2>1, <2>2, <2>3, ToEmitCommit
<1>16. QED
  BY <1>2, <1>3, <1>4, <1>5, <1>6, <1>7, <1>8, <1>9, <1>10, <1>11, <1>12, <1>13, <1>14, <1>15
     DEF Next, Poll, Hook

LEMMA NewInvariant == ASSUME ~FirstRun PROVE Spec => [](EmitInv /\ OffsetInv /\ NewInv)
<1>1. Init => NewInv
  <2> SUFFICES ASSUME Init PROVE NewInv
    OBVIOUS
  <2>1. KnownInv /\ GapsInv
    BY DEF Init, KnownInv, GapsInv
  <2>2. BatchInv
    BY DEF Init, BatchInv
  <2>3. ToEmitNew
    BY DEF Init, ToEmitNew, ToEmit
  <2>4. QED
    BY <2>1, <2>2, <2>3 DEF NewInv
<1>2. EmitInv /\ OffsetInv /\ NewInv /\ [Next]_vars => NewInv'
  BY KnownKeeps, BatchKeeps, GapsKeeps, ToEmitKeeps DEF EmitInv, NewInv
<1>3. QED
  BY <1>1, <1>2, OffsetInvariant, PTL DEF Spec

\* Only an update in hand that this process has not signed is emitted, albums apart.
LEMMA EmitsWhatIsInHand ==
  ASSUME Typed, KnownInv, [Next]_vars, NEW u \in Updates \ Albums, emits'[u] > emits[u]
  PROVE  ToEmit(u) /\ u \notin signatures /\ up
<1>1. emits \in [Updates -> Nat] /\ emits[u] \in Nat
  BY DEF Typed
<1>2. emits' # emits /\ emits'[u] # emits[u]
  BY <1>1
<1>3. ASSUME NEW v \in Updates, Emit(v) PROVE u = v /\ u \notin signatures
  BY <1>1, <1>2, <1>3, EmitIs
<1>4. CASE PollEmit
  <2>1. PICK v \in Updates : v = Current
    BY <1>4, CurrentIs DEF PollEmit, Typed
  <2>2. Emit(v) /\ poll = "handling" /\ v = Head(batch) /\ up
    BY <1>4, <2>1 DEF PollEmit, Current, Typed
  <2>3. QED
    BY <1>3, <2>2 DEF ToEmit
<1>5. ASSUME NEW v \in Updates, HookEmit(v) PROVE ToEmit(u) /\ u \notin signatures /\ up
  <2>1. Emit(v) /\ inHand[v] > 0
    BY <1>5 DEF HookEmit
  <2>2. up
    BY <2>1 DEF Typed, HookHas
  <2>3. QED
    BY <1>3, <2>1, <2>2 DEF ToEmit
<1>6. ASSUME NEW ok \in BOOLEAN, Flush(ok) PROVE FALSE
  <2>1. u \notin buffer
    BY DEF KnownInv
  <2>2. emits'[u] = emits[u]
    BY <1>6, <2>1 DEF Flush
  <2>3. QED
    BY <1>2, <2>2
<1>7. ASSUME NEW v \in Updates, Send(v) \/ HookSkip(v) \/ HookBegin(v) \/ HookCommit(v) \/ HookFail(v)
      PROVE  FALSE
  BY <1>2, <1>7 DEF Send, HookSkip, HookBegin, HookCommit, HookFail, Remember, inbox
<1>8. CASE GetUpdates \/ PollSkip \/ PollBegin \/ PollCommit \/ PollConflict \/ PollFail \/ PersistDedupe
  BY <1>2, <1>8 DEF GetUpdates, PollSkip, PollBegin, PollCommit, PollConflict, PollFail, PersistDedupe,
                    Remember, inbox
<1>9. ASSUME NEW ok \in BOOLEAN, Refresh(ok) PROVE FALSE
  BY <1>2, <1>9 DEF Refresh, inbox
<1>10. CASE Boot \/ Crash \/ UNCHANGED vars
  BY <1>2, <1>10 DEF Boot, Crash, vars, inbox
<1>11. QED
  BY <1>4, <1>5, <1>6, <1>7, <1>8, <1>9, <1>10 DEF Next, Poll, Hook

\* With a watermark, an update whose success is on disk, as a dedupe key or below the
\* watermark, is not emitted again: neither a retry nor a restart, nor a delivery out of
\* order, by poll or by webhook.
THEOREM ReprocessTheorem ==
  ASSUME ~FirstRun
  PROVE  Spec => NoReprocess
<1> DEFINE Known == \A u \in Updates \ Albums : emits'[u] > emits[u] => u \notin dedupeDisk /\ u > safe
<1>1. EmitInv /\ NewInv /\ [Next]_vars => Known
  <2> SUFFICES ASSUME EmitInv, NewInv, [Next]_vars, NEW u \in Updates \ Albums, emits'[u] > emits[u]
               PROVE  u \notin dedupeDisk /\ u > safe
    OBVIOUS
  <2>1. ToEmit(u) /\ u \notin signatures /\ up
    BY EmitsWhatIsInHand DEF EmitInv, NewInv
  <2>2. u \notin dedupe /\ u > safe
    BY <2>1 DEF NewInv, ToEmitNew
  <2>3. QED
    BY <2>1, <2>2 DEF NewInv, KnownInv
<1>2. QED
  BY <1>1, NewInvariant, PTL DEF Spec, NoReprocess

===============================================================================
