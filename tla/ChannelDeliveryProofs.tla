------------------------- MODULE ChannelDeliveryProofs -------------------------
(***************************************************************************)
(* Proofs about ChannelDelivery for any replies, replays, limits, failures *)
(* and crashes: a reply is never dropped; and, while an operator's replay  *)
(* ends before the next begins, it is delivered again only if its delivery *)
(* could not be recorded or its key was forgotten.                         *)
(***************************************************************************)
EXTENDS ChannelDelivery, TLAPS, FiniteSetTheorems, SequenceTheorems, WellFoundedInduction

Places == {"idle", "loop", "sending", "arrived", "confirmed", "backoff"}

\* The task has the reply in hand.
Handles(t, e) == task[t].at \notin {"idle", "loop"} /\ task[t].reply = e

\* The types the proofs need; plan, turn and the bounds are left out.
Typed ==
  /\ published \in Nat /\ published <= MaxReplies
  /\ letters \in Seq(Known) /\ journal \subseteq Known
  /\ cache \in Seq(Known) /\ disk \in Seq(Known)
  /\ task \in [Tasks -> [at : Places, reply : Nat, tries : Nat]]
  /\ skipped \in [Replays -> Seq(Known)]
  /\ delivered \in [Replies -> Nat] /\ doubts \in [Replies -> Nat]

\* A task has a reply that there is, and an original send its own; what was not
\* published yet nobody sends.
HandsRight ==
  /\ \A t \in Tasks : task[t].at \notin {"idle", "loop"} => Reply(t) \in Known
  /\ \A e \in Replies : task[e].at # "loop" /\ (~At(e, "idle") => Reply(e) = e)

\* What is remembered, in memory or on disk, was delivered, and so was what the
\* platform has taken.
KeysEarned ==
  /\ \A e \in ToSet(cache) \cup ToSet(disk) : delivered[e] > 0
  /\ \A t \in Tasks : task[t].at \in {"arrived", "confirmed"} => delivered[Reply(t)] > 0

KeepInv == Typed /\ HandsRight /\ KeysEarned /\ NothingDropped

\* One replay at a time, each in its phase; a process that is down has no memory.
OneReplay ==
  /\ \A r, s \in Replays : ~At(r, "idle") /\ ~At(s, "idle") => r = s
  /\ phase = "down" => cache = <<>> /\ letters = <<>> /\ \A t \in Tasks : At(t, "idle")
  /\ phase = "starting" => \A r \in Operators : At(r, "idle")
  /\ phase = "serving" => At(Startup, "idle")
  /\ \A r \in Replays : At(r, "idle") => skipped[r] = <<>>

\* The letter of a reply is in one place: in the queue, with a replay that skipped it,
\* or in the hand of one task; while it is sent for the first time it has no row.
OneLetter ==
  /\ IsInjective(letters)
  /\ \A r \in Replays : IsInjective(skipped[r]) /\ ToSet(letters) \cap ToSet(skipped[r]) = {}
  /\ \A t \in Tasks, e \in Known : Handles(t, e) =>
       /\ e \notin ToSet(letters) /\ \A r \in Replays : e \notin ToSet(skipped[r])
       /\ \A u \in Tasks : Handles(u, e) => u = t
  /\ \A e \in Replies : ~At(e, "idle") => e \notin journal

\* A key that memory lacks is not on disk either, or it has lapsed.
KeysShared ==
  /\ Len(cache) <= MaxEntries /\ Len(disk) <= MaxEntries
  /\ phase # "down" => ToSet(disk) \ ToSet(cache) \subseteq lapsed

\* Nobody will send the reply any more.
Gone(e) ==
  /\ e \notin journal /\ e \notin ToSet(letters) /\ \A r \in Replays : e \notin ToSet(skipped[r])
  /\ \A t \in Tasks : ~Handles(t, e)

\* A delivery is recorded on disk, or the task that made it will; whoever may send
\* the reply again without a look at the keys owes nothing.
Accounted(e) ==
  /\ delivered[e] <= doubts[e] + 1
  /\ \A t \in Tasks : Handles(t, e) /\ task[t].at \in {"sending", "backoff"} => delivered[e] <= doubts[e]
  /\ \A t \in Tasks : Handles(t, e) /\ task[t].at = "confirmed" => e \in ToSet(disk)
  /\ \/ e \in ToSet(disk) \/ Gone(e) \/ delivered[e] <= doubts[e]
     \/ \E t \in Tasks : Handles(t, e) /\ task[t].at = "arrived"

OnceInv ==
  /\ KeepInv /\ OneReplay /\ OneLetter /\ KeysShared
  /\ \A e \in Replies : e \notin lapsed => Accounted(e)
  /\ \A e \in Replies \ Known : delivered[e] = 0

(***************************************************************************)
(* What the helpers on sequences do to the elements of a sequence.         *)
(***************************************************************************)

\* The elements of the sequences that Append, \o, Tail and SubSeq make.
LEMMA AppendIs ==
  ASSUME NEW U, NEW s \in Seq(U), NEW x \in U
  PROVE  /\ Append(s, x) \in Seq(U) /\ Len(Append(s, x)) = Len(s) + 1
         /\ ToSet(Append(s, x)) = ToSet(s) \cup {x}
         /\ IsInjective(s) /\ x \notin ToSet(s) => IsInjective(Append(s, x))
<1>1. /\ Append(s, x) \in Seq(U) /\ Len(Append(s, x)) = Len(s) + 1 /\ Len(s) \in Nat
      /\ \A i \in 1..Len(s) : Append(s, x)[i] = s[i]
      /\ Append(s, x)[Len(s) + 1] = x
  OBVIOUS
<1> DEFINE a == Append(s, x)
<1>2. DOMAIN a = 1..(Len(s) + 1) /\ DOMAIN s = 1..Len(s)
  BY <1>1
<1> HIDE DEF a
<1>3. ToSet(a) = ToSet(s) \cup {x}
  <2>1. \A i \in DOMAIN a : a[i] \in ToSet(s) \cup {x}
    BY <1>1, <1>2 DEF ToSet, a
  <2>2. \A i \in DOMAIN s : i \in DOMAIN a /\ a[i] = s[i]
    BY <1>1, <1>2 DEF a
  <2>3. Len(s) + 1 \in DOMAIN a /\ a[Len(s) + 1] = x
    BY <1>1, <1>2 DEF a
  <2>4. QED
    BY <2>1, <2>2, <2>3 DEF ToSet
<1>4. IsInjective(s) /\ x \notin ToSet(s) => IsInjective(a)
  BY <1>1, <1>2 DEF IsInjective, ToSet, a
<1>5. QED
  BY <1>1, <1>3, <1>4 DEF a

LEMMA ConcatIs ==
  ASSUME NEW U, NEW s \in Seq(U), NEW t \in Seq(U)
  PROVE  /\ s \o t \in Seq(U) /\ Len(s \o t) = Len(s) + Len(t)
         /\ ToSet(s \o t) = ToSet(s) \cup ToSet(t)
         /\ IsInjective(s) /\ IsInjective(t) /\ ToSet(s) \cap ToSet(t) = {} => IsInjective(s \o t)
<1> DEFINE c == s \o t
           m == Len(s)
           n == Len(t)
<1>1. /\ c \in Seq(U) /\ Len(c) = m + n
      /\ m \in Nat /\ n \in Nat
      /\ \A i \in 1..(m + n) : c[i] = IF i <= m THEN s[i] ELSE t[i - m]
      /\ DOMAIN s = 1..m /\ DOMAIN t = 1..n
  BY ConcatProperties
<1>2. DOMAIN c = 1..(m + n)
  BY <1>1
<1> HIDE DEF c, m, n
<1>3. \A i \in DOMAIN c : \/ i \in DOMAIN s /\ c[i] = s[i]
                          \/ i > m /\ i - m \in DOMAIN t /\ c[i] = t[i - m]
  BY <1>1, <1>2
<1>4. ToSet(c) = ToSet(s) \cup ToSet(t)
  <2>1. \A i \in DOMAIN c : c[i] \in ToSet(s) \cup ToSet(t)
    BY <1>3 DEF ToSet
  <2>2. \A i \in DOMAIN s : i \in DOMAIN c /\ c[i] = s[i]
    BY <1>1, <1>2
  <2>3. ASSUME NEW j \in DOMAIN t PROVE m + j \in DOMAIN c /\ c[m + j] = t[j]
    <3>1. j \in 1..n /\ m + j \in 1..(m + n) /\ ~(m + j <= m) /\ (m + j) - m = j
      BY <1>1
    <3>2. QED
      BY <1>1, <1>2, <3>1
  <2>4. QED
    BY <2>1, <2>2, <2>3 DEF ToSet
<1>5. ASSUME IsInjective(s), IsInjective(t), ToSet(s) \cap ToSet(t) = {} PROVE IsInjective(c)
  <2>1. ASSUME NEW i \in DOMAIN c, NEW j \in DOMAIN c, c[i] = c[j] PROVE i = j
    <3>1. CASE i \in DOMAIN s /\ c[i] = s[i] /\ j \in DOMAIN s /\ c[j] = s[j]
      BY <1>5, <2>1, <3>1 DEF IsInjective
    <3>2. CASE /\ i > m /\ i - m \in DOMAIN t /\ c[i] = t[i - m]
               /\ j > m /\ j - m \in DOMAIN t /\ c[j] = t[j - m]
      <4>1. i - m = j - m
        BY <1>5, <2>1, <3>2 DEF IsInjective
      <4>2. QED
        BY <4>1, <1>1, <1>2
    <3>3. QED
      BY <1>3, <1>5, <2>1, <3>1, <3>2 DEF ToSet
  <2>2. QED
    BY <2>1 DEF IsInjective
<1>6. QED
  BY <1>1, <1>4, <1>5 DEF c, m, n

LEMMA TailIs ==
  ASSUME NEW U, NEW s \in Seq(U), s # <<>>
  PROVE  /\ Tail(s) \in Seq(U) /\ Len(Tail(s)) = Len(s) - 1
         /\ ToSet(Tail(s)) \subseteq ToSet(s)
         /\ Head(s) \in ToSet(s)
<1>1. /\ Tail(s) \in Seq(U) /\ Len(Tail(s)) = Len(s) - 1 /\ Len(s) \in Nat \ {0}
      /\ \A i \in 1..(Len(s) - 1) : Tail(s)[i] = s[i + 1]
      /\ Head(s) = s[1]
  OBVIOUS
<1>2. DOMAIN Tail(s) = 1..(Len(s) - 1) /\ DOMAIN s = 1..Len(s)
  BY <1>1
<1>3. QED
  BY <1>1, <1>2 DEF ToSet

LEMMA SubSeqIs ==
  ASSUME NEW U, NEW s \in Seq(U), NEW i \in 1..(Len(s) + 1), NEW j \in 0..Len(s)
  PROVE  /\ SubSeq(s, i, j) \in Seq(U)
         /\ Len(SubSeq(s, i, j)) = IF i <= j THEN j - i + 1 ELSE 0
         /\ \A k \in i..j : s[k] \in ToSet(SubSeq(s, i, j))
         /\ ToSet(SubSeq(s, i, j)) \subseteq ToSet(s)
<1> DEFINE b == SubSeq(s, i, j)
<1>1. Len(s) \in Nat /\ DOMAIN s = 1..Len(s) /\ \A k \in 1..Len(s) : s[k] \in U
  OBVIOUS
<1>2. /\ b \in Seq(U) /\ Len(b) = IF i <= j THEN j - i + 1 ELSE 0
      /\ \A k \in 1..Len(b) : b[k] = s[i + k - 1]
  BY <1>1, SubSeqProperties
<1>3. DOMAIN b = 1..Len(b)
  BY <1>2
<1> HIDE DEF b
<1>4. ASSUME NEW k \in i..j PROVE s[k] \in ToSet(b)
  <2>1. k - i + 1 \in 1..Len(b) /\ i + (k - i + 1) - 1 = k
    BY <1>1, <1>2
  <2>2. QED
    BY <1>2, <1>3, <2>1 DEF ToSet
<1>5. ASSUME NEW k \in DOMAIN b PROVE b[k] \in ToSet(s)
  <2>1. i + k - 1 \in DOMAIN s
    BY <1>1, <1>2, <1>3
  <2>2. QED
    BY <1>2, <1>3, <2>1 DEF ToSet
<1>6. QED
  BY <1>2, <1>4, <1>5 DEF ToSet, b

\* As many numbers as an interval holds.
LEMMA IntervalIs ==
  ASSUME NEW n \in Nat
  PROVE  /\ IsFiniteSet(1..n) /\ Cardinality(1..n) = n
         /\ IsFiniteSet(0..(n - 1)) /\ Cardinality(0..(n - 1)) = n
<1>1. 1 \in Int /\ n \in Int /\ 0 \in Int /\ n - 1 \in Int
  OBVIOUS
<1>2. IsFiniteSet(1..n) /\ Cardinality(1..n) = IF 1 > n THEN 0 ELSE n - 1 + 1
  BY <1>1, FS_Interval
<1>3. IsFiniteSet(0..(n - 1)) /\ Cardinality(0..(n - 1)) = IF 0 > n - 1 THEN 0 ELSE (n - 1) - 0 + 1
  BY <1>1, FS_Interval
<1>4. QED
  BY <1>2, <1>3

\* Only picks, for each of the places in K, the one that it is the n-th of: there is
\* one for every n, and no two places have the same number of others before them.
LEMMA OnlyIs ==
  ASSUME NEW U, NEW s \in Seq(U), NEW S
  PROVE  /\ Only(s, S) \in Seq(U) /\ Len(Only(s, S)) <= Len(s)
         /\ ToSet(Only(s, S)) = ToSet(s) \cap S
         /\ IsInjective(s) => IsInjective(Only(s, S))
<1> DEFINE K == {i \in DOMAIN s : s[i] \in S}
           Before(i) == Cardinality({j \in K : j < i})
           m == Cardinality(K)
           Place(n) == CHOOSE i \in K : Before(i) = n - 1
           o == Only(s, S)
<1>1. Len(s) \in Nat /\ DOMAIN s = 1..Len(s) /\ \A i \in 1..Len(s) : s[i] \in U
  OBVIOUS
<1>2. IsFiniteSet(K) /\ m \in Nat /\ m <= Len(s) /\ K \subseteq Nat
  <2>1. IsFiniteSet(1..Len(s)) /\ Cardinality(1..Len(s)) = Len(s)
    BY <1>1, IntervalIs
  <2>2. K \in SUBSET (1..Len(s))
    BY <1>1
  <2> HIDE DEF K
  <2>3. IsFiniteSet(K) /\ Cardinality(K) <= Len(s)
    BY <2>1, <2>2, FS_Subset
  <2>4. QED
    BY <2>2, <2>3, FS_CardinalityType, <1>1
<1>3. o = [n \in 1..m |-> s[Place(n)]]
  BY DEF Only
<1>4. \A i \in K : i \in DOMAIN s /\ s[i] \in S
  OBVIOUS
<1>5. \A i \in DOMAIN s : s[i] \in S => i \in K
  OBVIOUS
<1> HIDE DEF K, o
<1>6. ASSUME NEW i \in K PROVE Before(i) \in 0..(m - 1)
  <2> DEFINE B == {j \in K : j < i}
  <2>1. i \notin B /\ B \cup {i} \in SUBSET K /\ B \in SUBSET K
    BY <1>2
  <2> HIDE DEF B
  <2>2. IsFiniteSet(B) /\ Cardinality(B) \in Nat
    BY <1>2, <2>1, FS_Subset, FS_CardinalityType
  <2>3. Cardinality(B \cup {i}) = Cardinality(B) + 1
    BY <2>1, <2>2, FS_AddElement
  <2>4. Cardinality(B \cup {i}) <= m
    BY <1>2, <2>1, FS_Subset
  <2>5. Cardinality(B) \in 0..(m - 1)
    BY <1>2, <2>2, <2>3, <2>4
  <2>6. QED
    BY <2>5 DEF B
<1>7. ASSUME NEW i \in K, NEW k \in K, i < k PROVE Before(i) # Before(k)
  <2> DEFINE A == {j \in K : j < i}
             B == {j \in K : j < k}
  <2>1. i \notin A /\ A \cup {i} \in SUBSET B /\ A \in SUBSET K /\ B \in SUBSET K
    <3>1. \A j \in K : j \in Nat
      BY <1>2
    <3>2. \A j \in K : j < i => j < k
      BY <1>7, <3>1
    <3>3. ~(i < i)
      BY <3>1
    <3>4. QED
      BY <1>7, <3>2, <3>3
  <2> HIDE DEF A, B
  <2>2. IsFiniteSet(A) /\ Cardinality(A) \in Nat /\ IsFiniteSet(B) /\ Cardinality(B) \in Nat
    BY <1>2, <2>1, FS_Subset, FS_CardinalityType
  <2>3. Cardinality(A \cup {i}) = Cardinality(A) + 1
    BY <2>1, <2>2, FS_AddElement
  <2>4. Cardinality(A \cup {i}) <= Cardinality(B)
    BY <2>1, <2>2, FS_Subset
  <2>5. Cardinality(A) # Cardinality(B)
    BY <2>2, <2>3, <2>4
  <2>6. QED
    BY <2>5 DEF A, B
<1>8. \A i, k \in K : Before(i) = Before(k) => i = k
  <2> HIDE DEF Before
  <2>1. \A i, k \in K : i < k \/ k < i \/ i = k
    BY <1>2
  <2>2. QED
    BY <1>7, <2>1
<1>9. \A n \in 1..m : Place(n) \in K /\ Before(Place(n)) = n - 1
  <2> DEFINE T == 0..(m - 1)
             f == [i \in K |-> Before(i)]
  <2>1. IsFiniteSet(T) /\ Cardinality(T) = m
    <3>1. IsFiniteSet(0..(m - 1)) /\ Cardinality(0..(m - 1)) = m
      BY <1>2, IntervalIs
    <3>2. QED
      BY <3>1
  <2>2. f \in Injection(K, T)
    <3> HIDE DEF Before
    <3>1. f \in [K -> T]
      BY <1>6
    <3>2. IsInjective(f)
      BY <1>8 DEF IsInjective
    <3>3. QED
      BY <3>1, <3>2 DEF Injection
  <2> HIDE DEF f
  <2>3. f \in Surjection(K, T)
    <3> HIDE DEF T
    <3>1. QED
      BY <1>2, <2>1, <2>2, FS_Injection
  <2>4. \A x \in T : \E i \in K : f[i] = x
    BY <2>3 DEF Surjection
  <2>5. ASSUME NEW n \in 1..m PROVE Place(n) \in K /\ Before(Place(n)) = n - 1
    <3>1. n - 1 \in T
      BY <1>2
    <3>2. PICK i \in K : f[i] = n - 1
      BY <2>4, <3>1
    <3>3. Before(i) = n - 1
      BY <3>2 DEF f
    <3> HIDE DEF Before
    <3>4. QED
      BY <3>3
  <2>6. QED
    BY <2>5
<1>10. \A i \in K : \E n \in 1..m : Place(n) = i
  <2>1. ASSUME NEW i \in K PROVE \E n \in 1..m : Place(n) = i
    <3> DEFINE n == Before(i) + 1
    <3>1. n \in 1..m /\ n - 1 = Before(i)
      BY <1>2, <1>6
    <3>2. Place(n) \in K /\ Before(Place(n)) = Before(i)
      <4> HIDE DEF Place, Before, n
      <4>1. QED
        BY <1>9, <3>1
    <3>3. Place(n) = i
      <4> HIDE DEF Place, Before, n
      <4>1. QED
        BY <1>8, <3>2
    <3>4. QED
      <4> HIDE DEF Place, n
      <4>1. QED
        BY <3>1, <3>3
  <2>2. QED
    BY <2>1
<1> HIDE DEF m
<1>11. \A n, k \in 1..m : Place(n) = Place(k) => n = k
  <2> HIDE DEF Place, Before
  <2>1. ASSUME NEW n \in 1..m, NEW k \in 1..m, Place(n) = Place(k) PROVE n = k
    <3>1. n - 1 = k - 1
      BY <1>9, <2>1
    <3>2. QED
      BY <3>1
  <2>2. QED
    BY <2>1
<1> HIDE DEF Place, Before
<1>12. o \in Seq(U) /\ Len(o) = m /\ DOMAIN o = 1..m
  <2>1. o \in [1..m -> U]
    BY <1>1, <1>3, <1>4, <1>9
  <2>2. QED
    BY <1>2, <2>1
<1>13. ToSet(o) = ToSet(s) \cap S
  <2>1. \A n \in DOMAIN o : o[n] \in ToSet(s) \cap S
    BY <1>3, <1>4, <1>9, <1>12 DEF ToSet
  <2>2. ASSUME NEW i \in DOMAIN s, s[i] \in S PROVE s[i] \in ToSet(o)
    <3>1. PICK n \in 1..m : Place(n) = i
      BY <1>5, <1>10, <2>2
    <3>2. o[n] = s[i] /\ n \in DOMAIN o
      BY <1>3, <1>12, <3>1
    <3>3. QED
      BY <3>2 DEF ToSet
  <2>3. QED
    BY <2>1, <2>2 DEF ToSet
<1>14. IsInjective(s) => IsInjective(o)
  BY <1>3, <1>4, <1>9, <1>11, <1>12 DEF IsInjective
<1>15. QED
  BY <1>2, <1>12, <1>13, <1>14 DEF o

\* A nonempty set of numbers has a least one.
LEMMA LeastIn ==
  ASSUME NEW T, T \subseteq Nat, T # {}
  PROVE  Min(T) \in T
<1>1. PICK x \in T : \A y \in T : ~(<<y, x>> \in OpToRel(<, Nat))
  BY NatLessThanWellFounded, WFMin
<1>2. \A y \in T : x <= y
  <2>1. ASSUME NEW y \in T, y < x PROVE FALSE
    <3>1. <<y, x>> \in Nat \X Nat /\ <<y, x>>[1] < <<y, x>>[2]
      BY <2>1
    <3>2. <<y, x>> \in OpToRel(<, Nat)
      BY <3>1 DEF OpToRel
    <3>3. QED
      BY <1>1, <3>2
  <2>2. QED
    BY <2>1
<1>3. QED
  BY <1>2 DEF Min

\* RemoveFirst takes one copy of an element out: of a sequence without copies, all of it.
LEMMA RemoveIs ==
  ASSUME NEW U, NEW s \in Seq(U), NEW e
  PROVE  /\ RemoveFirst(s, e) \in Seq(U)
         /\ ToSet(RemoveFirst(s, e)) \subseteq ToSet(s)
         /\ IsInjective(s) => /\ IsInjective(RemoveFirst(s, e))
                              /\ ToSet(RemoveFirst(s, e)) = ToSet(s) \ {e}
<1>1. Len(s) \in Nat /\ DOMAIN s = 1..Len(s) /\ \A i \in 1..Len(s) : s[i] \in U
  OBVIOUS
<1>2. CASE ~\E i \in 1..Len(s) : s[i] = e
  BY <1>1, <1>2 DEF RemoveFirst, ToSet
<1>3. CASE \E i \in 1..Len(s) : s[i] = e
  <2> DEFINE I == {i \in 1..Len(s) : s[i] = e}
             k == Min(I)
             a == SubSeq(s, 1, k - 1)
             b == SubSeq(s, k + 1, Len(s))
  <2>1. k \in I
    <3>1. I \subseteq Nat /\ I # {}
      BY <1>1, <1>3
    <3> HIDE DEF I
    <3>2. QED
      BY <3>1, LeastIn
  <2>2. RemoveFirst(s, e) = a \o b
    BY <1>3 DEF RemoveFirst, RemoveAt, SelectInSeq
  <2>3. k \in 1..Len(s) /\ s[k] = e
    BY <2>1
  <2> HIDE DEF k
  <2>4. a \in Seq(U) /\ Len(a) = k - 1 /\ \A i \in 1..(k - 1) : a[i] = s[i]
    BY <1>1, <2>3, SubSeqProperties
  <2>5. b \in Seq(U) /\ Len(b) = Len(s) - k /\ \A i \in 1..(Len(s) - k) : b[i] = s[k + i]
    <3>1. Len(s) \in Nat /\ \A i \in 1..Len(s) : s[i] \in U
      BY <1>1
    <3>2. QED
      BY <2>3, <3>1, SubSeqProperties
  <2>6. DOMAIN a = 1..(k - 1) /\ DOMAIN b = 1..(Len(s) - k)
    BY <2>4, <2>5
  <2> HIDE DEF a, b
  <2>7. ToSet(a) = {s[i] : i \in 1..(k - 1)}
    BY <2>4, <2>6 DEF ToSet
  <2>8. ToSet(b) = {s[i] : i \in (k + 1)..Len(s)}
    <3>1. \A i \in DOMAIN b : k + i \in (k + 1)..Len(s) /\ b[i] = s[k + i]
      BY <1>1, <2>3, <2>5, <2>6
    <3>2. ASSUME NEW i \in (k + 1)..Len(s) PROVE i - k \in DOMAIN b /\ b[i - k] = s[i]
      <4>1. i - k \in 1..(Len(s) - k) /\ k + (i - k) = i
        BY <1>1, <2>3
      <4>2. QED
        BY <2>5, <2>6, <4>1
    <3>3. QED
      BY <3>1, <3>2 DEF ToSet
  <2>9. /\ a \o b \in Seq(U)
        /\ ToSet(a \o b) = ToSet(a) \cup ToSet(b)
        /\ IsInjective(a) /\ IsInjective(b) /\ ToSet(a) \cap ToSet(b) = {} => IsInjective(a \o b)
    BY <2>4, <2>5, ConcatIs
  <2>10. ToSet(a \o b) \subseteq ToSet(s)
    <3>1. \A i \in 1..(k - 1) : s[i] \in ToSet(s)
      BY <1>1, <2>3 DEF ToSet
    <3>2. \A i \in (k + 1)..Len(s) : s[i] \in ToSet(s)
      BY <1>1, <2>3 DEF ToSet
    <3>3. QED
      BY <2>7, <2>8, <2>9, <3>1, <3>2
  <2>11. ASSUME IsInjective(s) PROVE IsInjective(a \o b) /\ ToSet(a \o b) = ToSet(s) \ {e}
    <3>1. \A i, j \in 1..Len(s) : s[i] = s[j] => i = j
      BY <1>1, <2>11 DEF IsInjective
    <3>2. IsInjective(a)
      BY <1>1, <2>3, <2>4, <2>6, <3>1 DEF IsInjective
    <3>3. IsInjective(b)
      <4>1. ASSUME NEW i \in DOMAIN b, NEW j \in DOMAIN b, b[i] = b[j] PROVE i = j
        <5>1. k + i \in 1..Len(s) /\ k + j \in 1..Len(s) /\ s[k + i] = s[k + j]
          BY <1>1, <2>3, <2>5, <2>6, <4>1
        <5>2. k + i = k + j
          BY <3>1, <5>1
        <5>3. QED
          BY <5>2, <2>6, <2>3
      <4>2. QED
        BY <4>1 DEF IsInjective
    <3>4. ToSet(a) \cap ToSet(b) = {} /\ e \notin ToSet(a) /\ e \notin ToSet(b)
      <4>1. \A i \in 1..(k - 1), j \in (k + 1)..Len(s) : s[i] # s[j]
        BY <1>1, <2>3, <3>1
      <4>2. \A i \in 1..(k - 1) : s[i] # e
        BY <1>1, <2>3, <3>1
      <4>3. \A i \in (k + 1)..Len(s) : s[i] # e
        BY <1>1, <2>3, <3>1
      <4>4. QED
        BY <2>7, <2>8, <4>1, <4>2, <4>3
    <3>5. ToSet(s) \ {e} \subseteq ToSet(a) \cup ToSet(b)
      <4>1. ASSUME NEW i \in DOMAIN s, s[i] # e PROVE s[i] \in ToSet(a) \cup ToSet(b)
        <5>1. i \in 1..(k - 1) \/ i \in (k + 1)..Len(s)
          BY <1>1, <2>3, <4>1
        <5>2. QED
          BY <2>7, <2>8, <5>1
      <4>2. QED
        BY <4>1 DEF ToSet
    <3>6. QED
      BY <2>9, <2>10, <3>2, <3>3, <3>4, <3>5
  <2>12. QED
    BY <2>2, <2>9, <2>10, <2>11
<1>4. QED
  BY <1>2, <1>3

(***************************************************************************)
(* The keys and the rows: what is remembered, recalled and restored.       *)
(***************************************************************************)

LEMMA KnownReplies == ASSUME Typed PROVE Known \subseteq Replies
  BY DeliveryAssumption DEF Typed, Known, Replies

LEMMA WithoutIs ==
  ASSUME Typed, NEW s \in Seq(Known), NEW e
  PROVE  /\ Without(s, e) \in Seq(Known) /\ Len(Without(s, e)) <= Len(s)
         /\ ToSet(Without(s, e)) = ToSet(s) \ {e}
<1>1. /\ Without(s, e) \in Seq(Known) /\ Len(Without(s, e)) <= Len(s)
      /\ ToSet(Without(s, e)) = ToSet(s) \cap (Replies \ {e})
  BY OnlyIs DEF Without
<1>2. ToSet(s) \subseteq Replies
  <2>1. \A i \in DOMAIN s : s[i] \in Known
    OBVIOUS
  <2>2. QED
    BY <2>1, KnownReplies DEF ToSet
<1>3. QED
  BY <1>1, <1>2

\* The newest key is always remembered, and the limit is kept.
LEMMA RememberedIs ==
  ASSUME Typed, NEW e \in Known
  PROVE  /\ Remembered(e) \in Seq(Known)
         /\ e \in ToSet(Remembered(e)) /\ ToSet(Remembered(e)) \subseteq ToSet(cache) \cup {e}
         /\ Len(cache) <= MaxEntries => Len(Remembered(e)) <= MaxEntries
<1> DEFINE w == Without(cache, e)
           all == Append(w, e)
<1>1. cache \in Seq(Known)
  BY DEF Typed
<1>2. w \in Seq(Known) /\ Len(w) <= Len(cache) /\ ToSet(w) = ToSet(cache) \ {e}
  BY <1>1, WithoutIs
<1>3. Len(w) \in Nat /\ Len(cache) \in Nat /\ MaxEntries \in Nat \ {0}
  <2>1. MaxEntries \in Nat \ {0}
    BY DeliveryAssumption
  <2>2. QED
    BY <1>1, <1>2, <2>1
<1> HIDE DEF w
<1>4. all \in Seq(Known) /\ Len(all) = Len(w) + 1 /\ ToSet(all) = ToSet(w) \cup {e}
  BY <1>2, AppendIs
<1>5. Remembered(e) = IF Len(all) > MaxEntries THEN Tail(all) ELSE all
  BY DEF Remembered, w
<1>6. CASE Len(all) > MaxEntries
  <2>1. Len(w) \in 1..Len(w) /\ Len(w) + 1 \in 1..(Len(w) + 1)
    BY <1>3, <1>4, <1>6
  <2>2. /\ Tail(all) \in Seq(Known) /\ Len(Tail(all)) = Len(all) - 1
        /\ ToSet(Tail(all)) \subseteq ToSet(all)
    <3>1. all # <<>>
      BY <1>3, <1>4
    <3> HIDE DEF all
    <3>2. QED
      BY <1>4, <3>1, TailIs
  <2>3. Tail(all)[Len(w)] = e /\ Len(w) \in DOMAIN Tail(all)
    BY <1>2, <1>3, <2>1
  <2> HIDE DEF all
  <2>4. e \in ToSet(Tail(all))
    BY <2>3 DEF ToSet
  <2>5. QED
    BY <1>2, <1>3, <1>4, <1>5, <1>6, <2>2, <2>4
<1>7. CASE ~(Len(all) > MaxEntries)
  <2> HIDE DEF all
  <2>1. QED
    BY <1>2, <1>3, <1>4, <1>5, <1>7
<1>8. QED
  BY <1>6, <1>7

\* The keys of the file come before those in memory: what the limit takes is theirs,
\* and without keys in memory there is nothing to take.
LEMMA RecalledIs ==
  ASSUME Typed
  PROVE  /\ Recalled \in Seq(Known)
         /\ ToSet(Recalled) \subseteq ToSet(cache) \cup ToSet(disk)
         /\ Len(cache) <= MaxEntries => /\ Len(Recalled) <= MaxEntries
                                        /\ ToSet(cache) \subseteq ToSet(Recalled)
         /\ cache = <<>> /\ Len(disk) <= MaxEntries => ToSet(Recalled) = ToSet(disk)
<1> DEFINE old == Only(disk, Replies \ ToSet(cache))
           all == old \o cache
           n == Len(all)
           last == SubSeq(all, n - MaxEntries + 1, n)
<1>1. cache \in Seq(Known) /\ disk \in Seq(Known)
  BY DEF Typed
<1>2. /\ old \in Seq(Known) /\ Len(old) <= Len(disk)
      /\ ToSet(old) = ToSet(disk) \cap (Replies \ ToSet(cache))
  BY <1>1, OnlyIs
<1>3. ToSet(disk) \subseteq Replies
  <2>1. \A i \in DOMAIN disk : disk[i] \in Known
    BY <1>1
  <2>2. QED
    BY <2>1, KnownReplies DEF ToSet
<1> HIDE DEF old
<1>4. /\ all \in Seq(Known) /\ n = Len(old) + Len(cache)
      /\ ToSet(all) = ToSet(old) \cup ToSet(cache)
  BY <1>1, <1>2, ConcatIs
<1>5. Len(old) \in Nat /\ Len(cache) \in Nat /\ Len(disk) \in Nat /\ MaxEntries \in Nat \ {0} /\ n \in Nat
  <2>1. MaxEntries \in Nat \ {0}
    BY DeliveryAssumption
  <2>2. QED
    BY <1>1, <1>2, <1>4, <2>1
<1>6. Recalled = IF n > MaxEntries THEN last ELSE all
  BY DEF Recalled, old
<1>7. CASE n > MaxEntries
  <2>1. n - MaxEntries + 1 \in 1..(n + 1) /\ n \in 0..n /\ n - MaxEntries + 1 <= n
    BY <1>5, <1>7
  <2>2. /\ last \in Seq(Known)
        /\ Len(last) = IF n - MaxEntries + 1 <= n THEN n - (n - MaxEntries + 1) + 1 ELSE 0
        /\ \A k \in (n - MaxEntries + 1)..n : all[k] \in ToSet(last)
        /\ ToSet(last) \subseteq ToSet(all)
    <3> HIDE DEF all
    <3>1. QED
      BY <1>4, <2>1, SubSeqIs
  <2>3. ASSUME Len(cache) <= MaxEntries, NEW i \in DOMAIN cache PROVE cache[i] \in ToSet(last)
    <3>1. i \in 1..Len(cache)
      BY <1>1
    <3>2. Len(old) + i \in (n - MaxEntries + 1)..n /\ Len(old) + i \in 1..n
      <4> HIDE DEF n, all
      <4>1. QED
        BY <1>4, <1>5, <2>3, <3>1
    <3>3. all[Len(old) + i] = cache[i]
      BY <1>1, <1>2, <3>1, ConcatProperties
    <3>4. QED
      BY <2>2, <3>2, <3>3
  <2> HIDE DEF n, all, last
  <2>4. Len(last) = MaxEntries
    BY <1>5, <2>1, <2>2
  <2>5. Len(cache) <= MaxEntries => ToSet(cache) \subseteq ToSet(last)
    BY <2>3 DEF ToSet
  <2>6. ~(cache = <<>> /\ Len(disk) <= MaxEntries)
    <3>1. cache = <<>> => Len(cache) = 0
      OBVIOUS
    <3>2. QED
      BY <1>2, <1>4, <1>5, <1>7, <3>1
  <2>7. QED
    BY <1>2, <1>4, <1>5, <1>6, <1>7, <2>2, <2>4, <2>5, <2>6
<1>8. CASE ~(n > MaxEntries)
  <2> HIDE DEF n, all, last
  <2>1. Recalled = all
    BY <1>6, <1>8
  <2>2. n <= MaxEntries
    BY <1>5, <1>8
  <2>3. cache = <<>> => ToSet(cache) = {}
    BY DEF ToSet
  <2>4. QED
    BY <1>2, <1>3, <1>4, <2>1, <2>2, <2>3 DEF n
<1>9. QED
  BY <1>7, <1>8

\* The rows of the journal are restored once each.
LEMMA RowsIs ==
  ASSUME Typed
  PROVE  Rows \in Seq(Known) /\ IsInjective(Rows) /\ ToSet(Rows) = journal
<1> DEFINE all == [e \in Known |-> e]
<1>1. published \in Nat /\ journal \subseteq Known
  BY DEF Typed
<1>2. all \in Seq(Known) /\ DOMAIN all = Known /\ \A e \in Known : all[e] = e
  BY <1>1 DEF Known
<1> HIDE DEF all
<1>3. IsInjective(all) /\ ToSet(all) = Known
  BY <1>2 DEF IsInjective, ToSet
<1>4. /\ Only(all, journal) \in Seq(Known) /\ IsInjective(Only(all, journal))
      /\ ToSet(Only(all, journal)) = ToSet(all) \cap journal
  BY <1>2, <1>3, OnlyIs
<1>5. Rows = Only(all, journal)
  BY DEF Rows, all
<1>6. QED
  BY <1>1, <1>3, <1>4, <1>5

(***************************************************************************)
(* The tasks.                                                              *)
(***************************************************************************)

LEMMA Kinds ==
  /\ Replies \subseteq Tasks /\ Replays \subseteq Tasks /\ Operators \subseteq Replays
  /\ Startup \in Replays /\ Startup \notin Operators /\ Replies \cap Replays = {}
  /\ Replays = Operators \cup {Startup} /\ Replies \subseteq Nat \ {0}
  /\ NoTask \notin Tasks
<1>1. MaxReplies \in Nat /\ MaxReplays \in Nat /\ NoTask \notin Tasks
  BY DeliveryAssumption
<1>2. QED
  BY <1>1 DEF Replies, Replays, Operators, Startup, Tasks

Task == [at : Places, reply : Nat, tries : Nat]

\* The step puts the task at a place, with a reply, and leaves the others alone.
Put(t, place, e) ==
  /\ task' \in [Tasks -> Task]
  /\ \A u \in Tasks \ {t} : task'[u] = task[u]
  /\ task'[t].at = place /\ task'[t].reply = e

LEMMA RecordPut ==
  ASSUME Typed, NEW t \in Tasks, NEW v \in Task, task' = [task EXCEPT ![t] = v]
  PROVE  Put(t, v.at, v.reply)
<1>1. task \in [Tasks -> Task]
  BY DEF Typed, Task
<1> HIDE DEF Task
<1>2. QED
  BY <1>1 DEF Put

LEMMA IdlePut ==
  ASSUME Typed, NEW t \in Tasks, task' = [task EXCEPT ![t] = Idle]
  PROVE  Put(t, "idle", 0)
<1>1. Idle \in Task /\ Idle.at = "idle" /\ Idle.reply = 0
  BY DEF Idle, Task, Places
<1>2. QED
  BY <1>1, RecordPut

LEMMA LoopingPut ==
  ASSUME Typed, NEW t \in Tasks, task' = [task EXCEPT ![t] = Looping]
  PROVE  Put(t, "loop", 0)
<1>1. Looping \in Task /\ Looping.at = "loop" /\ Looping.reply = 0
  BY DEF Looping, Idle, Task, Places
<1>2. QED
  BY <1>1, RecordPut

LEMMA SendingPut ==
  ASSUME Typed, NEW t \in Tasks, NEW e \in Nat, NEW n \in Nat,
         task' = [task EXCEPT ![t] = Sending(e, n)]
  PROVE  Put(t, "sending", e)
<1>1. Sending(e, n) \in Task /\ Sending(e, n).at = "sending" /\ Sending(e, n).reply = e
  BY DEF Sending, Task, Places
<1>2. QED
  BY <1>1, RecordPut

LEMMA MovesPut ==
  ASSUME Typed, NEW t \in Tasks, NEW place \in Places, Moves(t, place)
  PROVE  Put(t, place, Reply(t))
<1> DEFINE v == [task[t] EXCEPT !.at = place]
<1>1. task[t] \in Task
  BY DEF Typed, Task
<1>2. v \in Task /\ v.at = place /\ v.reply = Reply(t)
  BY <1>1 DEF Task, Reply
<1>3. task' = [task EXCEPT ![t] = v]
  BY DEF Moves
<1> HIDE DEF v
<1>4. QED
  BY <1>2, <1>3, RecordPut

LEMMA DonePut ==
  ASSUME Typed, NEW t \in Tasks, Done(t)
  PROVE  Put(t, IF t \in Replays THEN "loop" ELSE "idle", 0)
<1>1. CASE t \in Replays
  BY <1>1, LoopingPut DEF Done
<1>2. CASE t \notin Replays
  BY <1>2, IdlePut DEF Done
<1>3. QED
  BY <1>1, <1>2

LEMMA SamePut ==
  ASSUME Typed, NEW t \in Tasks, task' = task
  PROVE  Put(t, task[t].at, task[t].reply)
  BY DEF Typed, Task, Put

\* What a task does that is not idle.
LEMMA TaskIs ==
  ASSUME KeepInv, NEW t \in Tasks
  PROVE  /\ task[t] \in Task /\ task[t].at \in Places
         /\ task[t].at \notin {"idle", "loop"} => task[t].reply \in Known
         /\ t \in Replies => /\ task[t].at # "loop"
                             /\ task[t].at # "idle" => task[t].reply = t
<1>1. task[t] \in Task
  BY DEF KeepInv, Typed, Task
<1>2. task[t].at \in Places
  BY <1>1 DEF Task
<1>3. QED
  BY <1>1, <1>2 DEF KeepInv, HandsRight, At, Reply

-----------------------------------------------------------------------------
(* Nothing is dropped.                                                     *)

\* One task moves and the rest follows from it: rows go only with a delivery, and an
\* original send ends only with a delivery, a row, or one of the excuses.
LEMMA KeepStep ==
  ASSUME KeepInv, NEW t \in Tasks, NEW p \in Places, NEW g, Put(t, p, g),
         p \notin {"idle", "loop"} => g \in Known' /\ (t \in Replies => g = t),
         t \in Replies => p # "loop",
         published' \in {published, published + 1}, published' <= MaxReplies,
         published' # published => published' \in journal' \/ (published' = t /\ p # "idle"),
         letters' \in Seq(Known'), journal' \subseteq Known',
         cache' \in Seq(Known'), disk' \in Seq(Known'), skipped' \in [Replays -> Seq(Known')],
         delivered' \in [Replies -> Nat], doubts' \in [Replies -> Nat],
         \A e \in Replies : delivered'[e] >= delivered[e],
         \A e \in ToSet(cache') \cup ToSet(disk') :
           e \in ToSet(cache) \cup ToSet(disk) \/ delivered'[e] > 0,
         p \in {"arrived", "confirmed"} => delivered'[g] > 0,
         cutOff \subseteq cutOff', unsaved \subseteq unsaved',
         \A e \in journal : e \in journal' \/ delivered'[e] > 0,
         t \in Replies /\ p = "idle" /\ task[t].at # "idle" =>
           t \in journal' \/ t \in cutOff' \/ t \in unsaved' \/ delivered'[t] > 0
  PROVE  KeepInv'
<1>1. Known \subseteq Known' /\ \A e \in Known' : e \in Known \/ (e = published' /\ e # published)
  <2>1. published \in Nat
    BY DEF KeepInv, Typed
  <2>2. QED
    BY <2>1 DEF Known
<1>2. Known \subseteq Replies /\ Known' \subseteq Replies
  <2>1. MaxReplies \in Nat
    BY DeliveryAssumption
  <2>2. published \in Nat /\ published' \in Nat /\ published <= MaxReplies
    BY DEF KeepInv, Typed
  <2>3. QED
    BY <2>1, <2>2 DEF Known, Replies
<1>3. Typed'
  <2>1. published' \in Nat
    BY DEF KeepInv, Typed
  <2>2. task' \in [Tasks -> [at : Places, reply : Nat, tries : Nat]]
    BY DEF Put, Task
  <2>3. QED
    BY <2>1, <2>2 DEF Typed
<1>4. \A u \in Tasks : /\ task'[u].at = IF u = t THEN p ELSE task[u].at
                       /\ task'[u].reply = IF u = t THEN g ELSE task[u].reply
  BY DEF Put
<1>5. HandsRight'
  <2>1. \A u \in Tasks : task'[u].at \notin {"idle", "loop"} => task'[u].reply \in Known'
    BY <1>1, <1>4, TaskIs
  <2>2. \A e \in Replies : task'[e].at # "loop" /\ (task'[e].at # "idle" => task'[e].reply = e)
    BY <1>4, TaskIs, Kinds
  <2>3. QED
    BY <2>1, <2>2 DEF HandsRight, At, Reply
<1>6. KeysEarned'
  <2>1. \A e \in ToSet(cache) \cup ToSet(disk) : e \in Known /\ delivered[e] > 0
    <3>1. cache \in Seq(Known) /\ disk \in Seq(Known)
      BY DEF KeepInv, Typed
    <3>2. \A e \in ToSet(cache) \cup ToSet(disk) : e \in Known
      BY <3>1 DEF ToSet
    <3>3. QED
      BY <3>2 DEF KeepInv, KeysEarned
  <2>2. \A e \in Known : delivered[e] > 0 => delivered'[e] > 0
    <3>1. \A e \in Known : delivered[e] \in Nat /\ delivered'[e] \in Nat /\ delivered'[e] >= delivered[e]
      BY <1>2 DEF KeepInv, Typed
    <3>2. QED
      BY <3>1
  <2>3. \A u \in Tasks : task[u].at \in {"arrived", "confirmed"} => delivered'[task[u].reply] > 0
    <3>1. \A u \in Tasks : task[u].at \in {"arrived", "confirmed"} =>
            task[u].reply \in Known /\ delivered[task[u].reply] > 0
      BY TaskIs DEF KeepInv, KeysEarned, Reply
    <3>2. QED
      BY <2>2, <3>1
  <2>4. QED
    BY <1>4, <2>1, <2>2, <2>3 DEF KeysEarned, Reply
<1>7. NothingDropped'
  <2>1. ASSUME NEW e \in Known
        PROVE  \/ delivered'[e] > 0 \/ e \in cutOff' \/ e \in unsaved'
               \/ e \in journal' \/ task'[e].at # "idle"
    <3>1. e \in Replies /\ e \in Tasks
      BY <1>2, Kinds
    <3>2. delivered[e] > 0 => delivered'[e] > 0
      <4>1. delivered[e] \in Nat /\ delivered'[e] \in Nat /\ delivered'[e] >= delivered[e]
        BY <3>1 DEF KeepInv, Typed
      <4>2. QED
        BY <4>1
    <3>3. delivered[e] > 0 \/ e \in cutOff \/ e \in unsaved \/ e \in journal \/ task[e].at # "idle"
      BY DEF KeepInv, NothingDropped, At
    <3>4. QED
      BY <1>4, <3>1, <3>2, <3>3
  <2>2. ASSUME NEW e \in Known', e \notin Known PROVE e \in journal' \/ task'[e].at # "idle"
    BY <1>1, <1>4, <2>2
  <2>3. QED
    BY <2>1, <2>2 DEF NothingDropped, At
<1>8. QED
  BY <1>3, <1>5, <1>6, <1>7 DEF KeepInv

\* The range of what the steps use.
LEMMA Ranges ==
  ASSUME KeepInv
  PROVE  /\ Typed /\ published \in Nat /\ published <= MaxReplies /\ Known \subseteq Replies
         /\ letters \in Seq(Known) /\ journal \subseteq Known
         /\ cache \in Seq(Known) /\ disk \in Seq(Known)
         /\ skipped \in [Replays -> Seq(Known)]
         /\ delivered \in [Replies -> Nat] /\ doubts \in [Replies -> Nat]
         /\ \A e \in ToSet(cache) \cup ToSet(disk) : delivered[e] > 0
  BY KnownReplies DEF KeepInv, Typed, KeysEarned

LEMMA SameKnown == ASSUME published' = published PROVE Known' = Known
  BY DEF Known

\* Where an original send, or a replay, stands when a reply is done.
After(t) == IF t \in Replays THEN "loop" ELSE "idle"

LEMMA BeginPut ==
  ASSUME Typed, NEW t \in Tasks, NEW e \in Nat, Begin(t, e)
  PROVE  \/ e \in ToSet(cache) /\ journal' = journal \ {e} /\ Put(t, After(t), 0)
         \/ e \notin ToSet(cache) /\ journal' = journal /\ Put(t, "sending", e)
<1>1. CASE e \in ToSet(cache)
  BY <1>1, DonePut DEF Begin, After
<1>2. CASE e \notin ToSet(cache)
  BY <1>2, SendingPut DEF Begin
<1>3. QED
  BY <1>1, <1>2

LEMMA FailedPut ==
  ASSUME Typed, NEW t \in Tasks, Failed(t)
  PROVE  \/ letters' = letters /\ journal' = journal /\ Put(t, "backoff", Reply(t))
         \/ /\ letters' = Append(letters, Reply(t)) /\ journal' = journal \cup {Reply(t)}
            /\ Put(t, After(t), 0)
<1>1. CASE task[t].tries < MaxAttempts /\ Retryable
  BY <1>1, MovesPut DEF Failed, Places
<1>2. CASE ~(task[t].tries < MaxAttempts /\ Retryable)
  BY <1>2, DonePut DEF Failed, Bury, After
<1>3. QED
  BY <1>1, <1>2

\* No task but an original send is idle when it is done.
LEMMA AfterIs ==
  ASSUME NEW t \in Tasks
  PROVE  /\ After(t) \in Places /\ After(t) \in {"idle", "loop"}
         /\ t \in Replies => After(t) = "idle"
         /\ t \notin Replies => After(t) = "loop"
  BY Kinds DEF After, Places, Tasks

LEMMA KeepPublish == ASSUME KeepInv, NEW e \in Replies, Publish(e) PROVE KeepInv'
<1>1. /\ e = published + 1 /\ published' = e
      /\ IF e \in channels THEN Begin(e, e) /\ letters' = letters ELSE Bury(e) /\ task' = task
      /\ cache' = cache /\ disk' = disk /\ skipped' = skipped
      /\ UNCHANGED history
  BY DEF Publish
<1>2. UNCHANGED <<delivered, doubts, cutOff, unsaved>>
  BY <1>1 DEF history
<1>3. e \in Nat /\ e \in Tasks /\ e <= MaxReplies /\ e # published
  BY DeliveryAssumption, Kinds, Ranges, <1>1 DEF Replies
<1>4. Known \subseteq Known' /\ e \in Known' /\ e \notin Known
  BY <1>1, Ranges DEF Known
<1>5. letters \in Seq(Known') /\ cache \in Seq(Known') /\ disk \in Seq(Known')
      /\ skipped \in [Replays -> Seq(Known')] /\ journal \subseteq Known'
  <2>1. Seq(Known) \subseteq Seq(Known')
    BY <1>4
  <2>2. QED
    BY <1>4, <2>1, Ranges
<1>6. CASE e \in channels
  <2>1. e \notin ToSet(cache)
    BY <1>4, Ranges DEF ToSet
  <2>2. journal' = journal /\ letters' = letters /\ Put(e, "sending", e)
    BY <1>1, <1>3, <1>6, <2>1, BeginPut, Ranges
  <2>3. "sending" \in Places
    BY DEF Places
  <2>4. QED
    BY <1>1, <1>2, <1>3, <1>4, <1>5, <2>2, <2>3, KeepStep, Ranges
<1>7. CASE e \notin channels
  <2>1. letters' = Append(letters, e) /\ journal' = journal \cup {e} /\ Put(e, task[e].at, task[e].reply)
    BY <1>1, <1>3, <1>7, SamePut, Ranges DEF Bury
  <2>2. letters' \in Seq(Known') /\ journal' \subseteq Known'
    BY <1>4, <1>5, <2>1, AppendIs
  <2>3. task[e].at = "idle"
    BY <1>3, <1>4, TaskIs
  <2>4. "idle" \in Places /\ Put(e, "idle", task[e].reply)
    BY <2>1, <2>3 DEF Places
  <2>5. published' \in journal' /\ \A x \in journal : x \in journal'
    BY <1>1, <2>1
  <2>6. cache' \in Seq(Known') /\ disk' \in Seq(Known') /\ skipped' \in [Replays -> Seq(Known')]
    BY <1>1, <1>5
  <2>7. \A x \in ToSet(cache') \cup ToSet(disk') : x \in ToSet(cache) \cup ToSet(disk)
    BY <1>1
  <2>8. /\ delivered' \in [Replies -> Nat] /\ doubts' \in [Replies -> Nat]
        /\ \A x \in Replies : delivered'[x] >= delivered[x]
    BY <1>2, Ranges
  <2>9. published' \in {published, published + 1} /\ published' <= MaxReplies
    BY <1>1, <1>3
  <2>10. cutOff \subseteq cutOff' /\ unsaved \subseteq unsaved'
    BY <1>2
  <2>11. e \in Tasks
    BY <1>3
  <2>12. QED
    BY <2>2, <2>3, <2>4, <2>5, <2>6, <2>7, <2>8, <2>9, <2>10, <2>11, KeepStep
<1>8. QED
  BY <1>6, <1>7

LEMMA KeepArrive == ASSUME KeepInv, NEW t \in Tasks, Arrive(t) PROVE KeepInv'
<1> DEFINE g == task[t].reply
<1>1. /\ task[t].at = "sending" /\ Moves(t, "arrived")
      /\ delivered' = [delivered EXCEPT ![g] = @ + 1]
      /\ UNCHANGED <<published, letters, cache, skipped, journal, disk, doubts, cutOff, unsaved>>
  BY DEF Arrive, At, Reply, memory, files
<1>2. g \in Known /\ (t \in Replies => g = t)
  BY <1>1, TaskIs
<1>3. Put(t, "arrived", g) /\ "arrived" \in Places
  BY <1>1, MovesPut, Ranges DEF Places, Reply
<1> HIDE DEF g
<1>4. Known' = Known
  BY <1>1, SameKnown
<1>5. g \in Replies /\ delivered \in [Replies -> Nat]
  BY <1>2, Ranges
<1>6. /\ delivered' \in [Replies -> Nat] /\ delivered'[g] > 0
      /\ \A e \in Replies : delivered'[e] >= delivered[e]
  BY <1>1, <1>5
<1>7. QED
  BY <1>1, <1>2, <1>3, <1>4, <1>6, KeepStep, Ranges

LEMMA KeepConfirm == ASSUME KeepInv, NEW t \in Tasks, Confirm(t) PROVE KeepInv'
<1> DEFINE g == task[t].reply
<1>1. /\ task[t].at = "arrived" /\ Moves(t, "confirmed")
      /\ cache' = Remembered(g) /\ disk' = cache'
      /\ UNCHANGED <<published, letters, skipped, journal, delivered, doubts, cutOff, unsaved>>
  BY DEF Confirm, At, Reply
<1>2. g \in Known /\ (t \in Replies => g = t)
  BY <1>1, TaskIs
<1>3. Put(t, "confirmed", g) /\ "confirmed" \in Places
  BY <1>1, MovesPut, Ranges DEF Places, Reply
<1>4. delivered[g] > 0
  BY <1>1 DEF KeepInv, KeysEarned, Reply
<1> HIDE DEF g
<1>5. Known' = Known
  BY <1>1, SameKnown
<1>6. cache' \in Seq(Known) /\ ToSet(cache') \subseteq ToSet(cache) \cup {g}
  BY <1>1, <1>2, RememberedIs, Ranges
<1>7. \A e \in Replies : delivered'[e] >= delivered[e]
  BY <1>1, Ranges
<1>8. QED
  BY <1>1, <1>2, <1>3, <1>4, <1>5, <1>6, <1>7, KeepStep, Ranges

LEMMA KeepClear == ASSUME KeepInv, NEW t \in Tasks, Clear(t) PROVE KeepInv'
<1> DEFINE g == task[t].reply
<1>1. /\ task[t].at = "confirmed" /\ Done(t) /\ journal' = journal \ {g}
      /\ UNCHANGED <<published, letters, cache, skipped, disk, delivered, doubts, cutOff, unsaved>>
  BY DEF Clear, At, Reply, memory, history
<1>2. g \in Known /\ (t \in Replies => g = t)
  BY <1>1, TaskIs
<1>3. Put(t, After(t), 0)
  BY <1>1, DonePut, Ranges DEF After
<1>4. delivered[g] > 0
  BY <1>1 DEF KeepInv, KeysEarned, Reply
<1> HIDE DEF g
<1>5. Known' = Known
  BY <1>1, SameKnown
<1>6. \A e \in Replies : delivered'[e] >= delivered[e]
  BY <1>1, Ranges
<1>7. QED
  BY <1>1, <1>2, <1>3, <1>4, <1>5, <1>6, AfterIs, KeepStep, Ranges

LEMMA Doubted ==
  ASSUME KeepInv, NEW t \in Tasks, task[t].at \notin {"idle", "loop"}
  PROVE  [doubts EXCEPT ![Reply(t)] = @ + 1] \in [Replies -> Nat]
<1>1. Reply(t) \in Replies /\ doubts \in [Replies -> Nat]
  BY TaskIs, Ranges DEF Reply
<1> DEFINE g == Reply(t)
<1> HIDE DEF g
<1>2. [doubts EXCEPT ![g] = @ + 1] \in [Replies -> Nat]
  BY <1>1 DEF g
<1>3. QED
  BY <1>2 DEF g

\* An attempt fails, whatever else the step remembers.
LEMMA KeepFailed ==
  ASSUME KeepInv, NEW t \in Tasks, task[t].at \notin {"idle", "loop"}, Failed(t),
         cache' \in Seq(Known), ToSet(cache') \subseteq ToSet(cache) \cup {e \in Known : delivered[e] > 0},
         doubts' \in [Replies -> Nat],
         UNCHANGED <<published, skipped, disk, delivered, cutOff, unsaved>>
  PROVE  KeepInv'
<1> DEFINE g == task[t].reply
<1>1. g \in Known /\ (t \in Replies => g = t)
  BY TaskIs
<1>2. \/ letters' = letters /\ journal' = journal /\ Put(t, "backoff", g)
      \/ /\ letters' = Append(letters, g) /\ journal' = journal \cup {g}
         /\ Put(t, After(t), 0)
  BY FailedPut, Ranges DEF Reply
<1> HIDE DEF g
<1>3. Known' = Known /\ published' = published
  BY SameKnown
<1>4. \A e \in Replies : delivered'[e] >= delivered[e]
  BY Ranges
<1>5. letters' \in Seq(Known) /\ journal' \subseteq Known /\ journal \subseteq journal'
  <2>1. Append(letters, g) \in Seq(Known) /\ letters \in Seq(Known) /\ journal \subseteq Known
    BY <1>1, Ranges, AppendIs
  <2>2. QED
    BY <1>1, <1>2, <2>1
<1>6. "backoff" \in Places
  BY DEF Places
<1>7. CASE Put(t, "backoff", g)
  BY <1>1, <1>3, <1>4, <1>5, <1>6, <1>7, KeepStep, Ranges
<1>8. CASE journal' = journal \cup {g} /\ Put(t, After(t), 0)
  BY <1>1, <1>3, <1>4, <1>5, <1>8, AfterIs, KeepStep, Ranges
<1>9. QED
  BY <1>2, <1>7, <1>8

LEMMA KeepSendRaises == ASSUME KeepInv, NEW t \in Tasks, SendRaises(t) PROVE KeepInv'
<1>1. /\ task[t].at \in {"sending", "arrived"} /\ Failed(t)
      /\ doubts' = IF At(t, "arrived") THEN [doubts EXCEPT ![Reply(t)] = @ + 1] ELSE doubts
      /\ UNCHANGED <<published, cache, skipped, disk, delivered, cutOff, unsaved>>
  BY DEF SendRaises
<1>2. task[t].at \notin {"idle", "loop"}
  BY <1>1
<1>3. doubts' \in [Replies -> Nat]
  BY <1>1, <1>2, Doubted, Ranges
<1>4. QED
  BY <1>1, <1>2, <1>3, KeepFailed, Ranges

LEMMA KeepClearFails == ASSUME KeepInv, NEW t \in Tasks, ClearFails(t) PROVE KeepInv'
<1>1. /\ task[t].at = "confirmed" /\ Failed(t)
      /\ doubts' = [doubts EXCEPT ![Reply(t)] = @ + 1]
      /\ UNCHANGED <<published, cache, skipped, disk, delivered, cutOff, unsaved>>
  BY DEF ClearFails, At
<1>2. task[t].at \notin {"idle", "loop"}
  BY <1>1
<1>3. doubts' \in [Replies -> Nat]
  BY <1>1, <1>2, Doubted, Ranges
<1>4. QED
  BY <1>1, <1>2, <1>3, KeepFailed, Ranges

LEMMA KeepSyncFails == ASSUME KeepInv, NEW t \in Tasks, SyncFails(t) PROVE KeepInv'
<1>1. /\ task[t].at = "arrived" /\ Failed(t) /\ cache' = Remembered(Reply(t))
      /\ doubts' = [doubts EXCEPT ![Reply(t)] = @ + 1]
      /\ UNCHANGED <<published, skipped, disk, delivered, cutOff, unsaved>>
  BY DEF SyncFails, At
<1>2. task[t].at \notin {"idle", "loop"}
  BY <1>1
<1>3. doubts' \in [Replies -> Nat]
  BY <1>1, <1>2, Doubted, Ranges
<1>4. Reply(t) \in Known /\ delivered[Reply(t)] > 0
  BY <1>1, TaskIs DEF KeepInv, KeysEarned, Reply
<1>5. cache' \in Seq(Known) /\ ToSet(cache') \subseteq ToSet(cache) \cup {Reply(t)}
  BY <1>1, <1>4, RememberedIs, Ranges
<1>6. ToSet(cache') \subseteq ToSet(cache) \cup {e \in Known : delivered[e] > 0}
  BY <1>4, <1>5
<1>7. QED
  BY <1>1, <1>2, <1>3, <1>5, <1>6, KeepFailed

LEMMA KeepTryAgain == ASSUME KeepInv, NEW t \in Tasks, TryAgain(t) PROVE KeepInv'
<1> DEFINE g == task[t].reply
<1>1. /\ task[t].at = "backoff" /\ task' = [task EXCEPT ![t] = Sending(g, NextTry(t))]
      /\ UNCHANGED <<published, letters, journal, cache, skipped, disk, delivered, doubts, cutOff, unsaved>>
  BY DEF TryAgain, At, Reply, memory, files, history
<1>2. g \in Known /\ (t \in Replies => g = t) /\ task[t] \in Task
  BY <1>1, TaskIs
<1>3. NextTry(t) \in Nat
  BY <1>2 DEF Task, NextTry
<1>4. g \in Nat
  BY <1>2, Kinds, Ranges
<1>5. Put(t, "sending", g)
  BY <1>1, <1>3, <1>4, SendingPut, Ranges
<1> HIDE DEF g
<1>6. Known' = Known /\ "sending" \in Places
  BY <1>1, SameKnown DEF Places
<1>7. \A e \in Replies : delivered'[e] >= delivered[e]
  BY <1>1, Ranges
<1>8. QED
  BY <1>1, <1>2, <1>5, <1>6, <1>7, KeepStep, Ranges

LEMMA KeepCancel == ASSUME KeepInv, NEW e \in Replies, Cancel(e) PROVE KeepInv'
<1>1. /\ task' = [task EXCEPT ![e] = Idle] /\ cutOff' = cutOff \cup {e}
      /\ UNCHANGED <<published, letters, journal, cache, skipped, disk, delivered, doubts, unsaved>>
  BY DEF Cancel, memory, files
<1>2. e \in Tasks /\ Put(e, "idle", 0)
  BY <1>1, IdlePut, Kinds, Ranges
<1>3. Known' = Known /\ "idle" \in Places
  BY <1>1, SameKnown DEF Places
<1>4. \A d \in Replies : delivered'[d] >= delivered[d]
  BY <1>1, Ranges
<1>5. QED
  BY <1>1, <1>2, <1>3, <1>4, KeepStep, Ranges

LEMMA KeepBuryFails == ASSUME KeepInv, NEW t \in Tasks, BuryFails(t) PROVE KeepInv'
<1> DEFINE g == task[t].reply
<1>1. /\ task[t].at = "sending" /\ letters' = Append(letters, g) /\ unsaved' = unsaved \cup {g}
      /\ task' = [task EXCEPT ![t] = Idle]
      /\ skipped' = [r \in Replays |-> IF r = t THEN <<>> ELSE skipped[r]]
      /\ UNCHANGED <<published, journal, cache, disk, delivered, doubts, cutOff>>
  BY DEF BuryFails, Abort, At, Reply, files
<1>2. g \in Known /\ (t \in Replies => g = t)
  BY <1>1, TaskIs
<1>3. Put(t, "idle", 0)
  BY <1>1, IdlePut, Ranges
<1> HIDE DEF g
<1>4. Known' = Known /\ "idle" \in Places
  BY <1>1, SameKnown DEF Places
<1>5. \A d \in Replies : delivered'[d] >= delivered[d]
  BY <1>1, Ranges
<1>6. letters' \in Seq(Known) /\ skipped' \in [Replays -> Seq(Known)]
  <2>1. letters' \in Seq(Known)
    BY <1>1, <1>2, Ranges, AppendIs
  <2>2. <<>> \in Seq(Known)
    OBVIOUS
  <2>3. QED
    BY <1>1, <2>1, <2>2, Ranges
<1>7. QED
  BY <1>1, <1>2, <1>3, <1>4, <1>5, <1>6, KeepStep, Ranges

\* A replay that begins restores what the files hold.
LEMMA KeepBegin ==
  ASSUME KeepInv, NEW r \in Replays, NEW wanted, BeginReplay(r, wanted)
  PROVE  KeepInv'
<1>1. /\ cache' = Recalled /\ disk' = cache' /\ letters' = IF letters = <<>> THEN Rows ELSE letters
      /\ task' = [task EXCEPT ![r] = Looping]
      /\ UNCHANGED <<published, journal, skipped, delivered, doubts, cutOff, unsaved>>
  BY DEF BeginReplay, history
<1>2. r \in Tasks /\ r \notin Replies /\ Put(r, "loop", 0)
  BY <1>1, LoopingPut, Kinds, Ranges
<1>3. Known' = Known /\ "loop" \in Places
  BY <1>1, SameKnown DEF Places
<1>4. \A d \in Replies : delivered'[d] >= delivered[d]
  BY <1>1, Ranges
<1>5. letters' \in Seq(Known)
  BY <1>1, Ranges, RowsIs
<1>6. cache' \in Seq(Known) /\ ToSet(cache') \subseteq ToSet(cache) \cup ToSet(disk)
  BY <1>1, Ranges, RecalledIs
<1>7. QED
  BY <1>1, <1>2, <1>3, <1>4, <1>5, <1>6, KeepStep, Ranges

\* What a replay's step does with the next letter.
NextLetter(r, e) ==
  \/ UNCHANGED <<letters, skipped, journal, task>>
  \/ /\ e \in ToSet(letters)
     /\ letters' = RemoveFirst(letters, e)
     /\ skipped' = [skipped EXCEPT ![r] = Append(@, e)]
     /\ UNCHANGED <<journal, task>>
  \/ /\ e \in ToSet(letters)
     /\ letters' = RemoveFirst(letters, e)
     /\ Begin(r, e)
     /\ UNCHANGED skipped

LEMMA NextIs ==
  ASSUME NEW r \in Replays, ReplayNext(r)
  PROVE  /\ task[r].at = "loop"
         /\ \E e : NextLetter(r, e)
         /\ UNCHANGED <<phase, published, cache, disk, delivered, doubts, lapsed, cutOff, unsaved>>
<1> DEFINE e == Head(plan[r])
<1>1. NextLetter(r, e)
  BY DEF ReplayNext, NextLetter
<1>2. QED
  BY <1>1 DEF ReplayNext, At, history

LEMMA KeepReplayNext == ASSUME KeepInv, NEW r \in Replays, ReplayNext(r) PROVE KeepInv'
<1>1. /\ task[r].at = "loop"
      /\ UNCHANGED <<published, cache, disk, delivered, doubts, lapsed, cutOff, unsaved>>
  BY NextIs
<1>2. PICK e : NextLetter(r, e)
  BY NextIs
<1>3. r \in Tasks /\ r \notin Replies /\ "loop" \in Places /\ "sending" \in Places /\ Known' = Known
  BY <1>1, Kinds, SameKnown DEF Places
<1>4. \A d \in Replies : delivered'[d] >= delivered[d]
  BY <1>1, Ranges
<1>5. RemoveFirst(letters, e) \in Seq(Known)
  BY RemoveIs, Ranges
<1>6. e \in ToSet(letters) => e \in Known /\ e \in Nat
  <2>1. e \in ToSet(letters) => e \in Known
    BY Ranges DEF ToSet
  <2>2. QED
    BY <2>1, Kinds, Ranges
<1>7. CASE task' = task
  <2>1. Put(r, "loop", task[r].reply)
    BY <1>1, <1>3, <1>7, SamePut, Ranges
  <2>2. letters' \in Seq(Known) /\ skipped' \in [Replays -> Seq(Known)] /\ journal' \subseteq Known
    <3>1. e \in Known => Append(skipped[r], e) \in Seq(Known)
      BY AppendIs, Ranges
    <3>2. \/ skipped' = skipped
          \/ e \in ToSet(letters) /\ skipped' = [skipped EXCEPT ![r] = Append(skipped[r], e)]
      BY <1>2 DEF NextLetter
    <3>3. skipped' \in [Replays -> Seq(Known)]
      BY <1>6, <3>1, <3>2, Ranges
    <3>4. (letters' = letters \/ letters' = RemoveFirst(letters, e)) /\ journal' \subseteq journal
      BY <1>2 DEF NextLetter, Begin
    <3>5. QED
      BY <1>5, <3>3, <3>4, Ranges
  <2>3. \A d \in journal : d \in journal' \/ delivered'[d] > 0
    BY <1>1, <1>2, Ranges DEF NextLetter, Begin
  <2>4. QED
    BY <1>1, <1>3, <1>4, <2>1, <2>2, <2>3, KeepStep, Ranges
<1>8. CASE e \in ToSet(letters) /\ letters' = RemoveFirst(letters, e) /\ Begin(r, e) /\ skipped' = skipped
  <2>1. \/ e \in ToSet(cache) /\ journal' = journal \ {e} /\ Put(r, "loop", 0)
        \/ journal' = journal /\ Put(r, "sending", e)
    BY <1>3, <1>6, <1>8, BeginPut, AfterIs, Ranges
  <2>2. CASE e \in ToSet(cache) /\ journal' = journal \ {e} /\ Put(r, "loop", 0)
    <3>1. delivered[e] > 0
      BY <2>2, Ranges
    <3>2. QED
      BY <1>1, <1>3, <1>4, <1>5, <1>8, <2>2, <3>1, KeepStep, Ranges
  <2>3. CASE journal' = journal /\ Put(r, "sending", e)
    BY <1>1, <1>3, <1>4, <1>5, <1>6, <1>8, <2>3, KeepStep, Ranges
  <2>4. QED
    BY <2>1, <2>2, <2>3
<1>9. QED
  BY <1>2, <1>7, <1>8 DEF NextLetter

LEMMA KeepEndReplay == ASSUME KeepInv, NEW r \in Replays, EndReplay(r) PROVE KeepInv'
<1>1. /\ letters' = letters \o skipped[r] /\ skipped' = [skipped EXCEPT ![r] = <<>>]
      /\ task' = [task EXCEPT ![r] = Idle]
      /\ UNCHANGED <<published, journal, cache, disk, delivered, doubts, cutOff, unsaved>>
  BY DEF EndReplay, PutBack, files, history
<1>2. r \in Tasks /\ r \notin Replies /\ Put(r, "idle", 0) /\ "idle" \in Places /\ Known' = Known
  BY <1>1, IdlePut, Kinds, Ranges, SameKnown DEF Places
<1>3. \A d \in Replies : delivered'[d] >= delivered[d]
  BY <1>1, Ranges
<1>4. letters' \in Seq(Known) /\ skipped' \in [Replays -> Seq(Known)]
  <2>1. skipped[r] \in Seq(Known) /\ <<>> \in Seq(Known)
    BY Ranges
  <2>2. letters \o skipped[r] \in Seq(Known)
    BY <2>1, Ranges, ConcatIs
  <2>3. QED
    BY <1>1, <2>1, <2>2, Ranges
<1>5. QED
  BY <1>1, <1>2, <1>3, <1>4, KeepStep, Ranges

LEMMA KeepExpire == ASSUME KeepInv, Expire PROVE KeepInv'
<1>1. PICK e : /\ cache' = Without(cache, e) /\ disk' = Without(disk, e)
               /\ UNCHANGED <<published, letters, skipped, journal, task, delivered, doubts, cutOff, unsaved>>
  BY DEF Expire
<1>2. Startup \in Tasks /\ Known' = Known
  BY <1>1, Kinds, SameKnown
<1>3. Put(Startup, task[Startup].at, task[Startup].reply) /\ Startup \notin Replies
  BY <1>1, <1>2, SamePut, Ranges, Kinds
<1>4. \A d \in Replies : delivered'[d] >= delivered[d]
  BY <1>1, Ranges
<1>5. /\ cache' \in Seq(Known) /\ ToSet(cache') \subseteq ToSet(cache)
      /\ disk' \in Seq(Known) /\ ToSet(disk') \subseteq ToSet(disk)
  BY <1>1, WithoutIs, Ranges
<1>6. /\ task[Startup].at \in Places
      /\ task[Startup].at \notin {"idle", "loop"} => task[Startup].reply \in Known
      /\ task[Startup].at \in {"arrived", "confirmed"} => delivered[task[Startup].reply] > 0
  BY <1>2, TaskIs DEF KeepInv, KeysEarned, Reply
<1>7. QED
  BY <1>1, <1>2, <1>3, <1>4, <1>5, <1>6, KeepStep, Ranges

\* What a crash adds to the doubts is a number.
LEMMA CrashDoubts ==
  ASSUME KeepInv, NEW e \in Replies
  PROVE  LET lost == {t \in Tasks : At(t, "arrived") /\ Reply(t) = e}
         IN  /\ doubts[e] + Cardinality(lost) \in Nat
             /\ doubts[e] + Cardinality(lost) >= doubts[e]
             /\ lost # {} => doubts[e] + Cardinality(lost) >= doubts[e] + 1
<1> DEFINE lost == {t \in Tasks : At(t, "arrived") /\ Reply(t) = e}
<1>1. MaxReplies \in Nat /\ MaxReplays \in Nat
  BY DeliveryAssumption
<1>2. IsFiniteSet(Tasks)
  <2>1. Tasks = 1..(MaxReplies + 1 + MaxReplays)
    BY <1>1 DEF Tasks, Replies, Replays, Operators, Startup
  <2>2. MaxReplies + 1 + MaxReplays \in Nat
    BY <1>1
  <2>3. QED
    BY <2>1, <2>2, IntervalIs
<1>3. lost \in SUBSET Tasks
  OBVIOUS
<1> HIDE DEF lost
<1>4. IsFiniteSet(lost) /\ Cardinality(lost) \in Nat /\ (lost # {} => Cardinality(lost) # 0)
  BY <1>2, <1>3, FS_Subset, FS_CardinalityType, FS_EmptySet
<1>5. doubts[e] \in Nat
  BY Ranges
<1>6. /\ doubts[e] + Cardinality(lost) \in Nat
      /\ doubts[e] + Cardinality(lost) >= doubts[e]
      /\ lost # {} => doubts[e] + Cardinality(lost) >= doubts[e] + 1
  BY <1>4, <1>5
<1>7. QED
  BY <1>6 DEF lost

LEMMA KeepCrash == ASSUME KeepInv, Crash PROVE KeepInv'
<1>1. /\ letters' = <<>> /\ cache' = <<>> /\ task' = [t \in Tasks |-> Idle]
      /\ skipped' = [r \in Replays |-> <<>>]
      /\ cutOff' = cutOff \cup {e \in Replies : task[e].at # "idle"}
      /\ UNCHANGED <<published, journal, disk, delivered, unsaved>>
  BY DEF Crash, files, At
<1>2. Known' = Known
  BY <1>1, SameKnown
<1>3. Typed'
  <2>1. Idle \in Task
    BY DEF Idle, Task, Places
  <2>2. task' \in [Tasks -> Task]
    BY <1>1, <2>1
  <2>3. <<>> \in Seq(Known)
    OBVIOUS
  <2>4. letters' \in Seq(Known) /\ cache' \in Seq(Known) /\ skipped' \in [Replays -> Seq(Known)]
    BY <1>1, <2>3
  <2>5. doubts' \in [Replies -> Nat]
    <3> DEFINE d(e) == doubts[e] + Cardinality({t \in Tasks : At(t, "arrived") /\ Reply(t) = e})
    <3>1. doubts' = [e \in Replies |-> d(e)]
      BY DEF Crash
    <3>2. \A e \in Replies : d(e) \in Nat
      BY CrashDoubts
    <3> HIDE DEF d
    <3>3. QED
      BY <3>1, <3>2
  <2>6. QED
    BY <1>1, <1>2, <2>2, <2>4, <2>5, Ranges DEF Typed, Task
<1>4. \A t \in Tasks : task'[t].at = "idle"
  BY <1>1 DEF Idle
<1>5. HandsRight'
  BY <1>4, Kinds DEF HandsRight, At
<1>6. KeysEarned'
  <2>1. ToSet(cache') = {}
    BY <1>1 DEF ToSet
  <2>2. QED
    BY <1>1, <1>4, <2>1, Ranges DEF KeysEarned
<1>7. NothingDropped'
  <2>1. \A e \in Known : delivered[e] > 0 \/ e \in cutOff \/ e \in unsaved \/ e \in journal \/ task[e].at # "idle"
    BY DEF KeepInv, NothingDropped, At
  <2>2. QED
    BY <1>1, <1>2, <2>1, Ranges DEF NothingDropped
<1>8. QED
  BY <1>3, <1>5, <1>6, <1>7 DEF KeepInv

LEMMA KeepInit == ASSUME Init PROVE KeepInv
<1>1. /\ published = 0 /\ letters = <<>> /\ journal = {} /\ cache = <<>> /\ disk = <<>>
      /\ task = [t \in Tasks |-> Idle] /\ skipped = [r \in Replays |-> <<>>]
      /\ delivered = [e \in Replies |-> 0] /\ doubts = [e \in Replies |-> 0]
  BY DEF Init
<1>2. Known = {}
  BY <1>1 DEF Known
<1>3. Idle \in Task /\ Idle.at = "idle"
  BY DEF Idle, Task, Places
<1>4. Typed
  <2>1. <<>> \in Seq(Known) /\ 0 <= MaxReplies
    BY DeliveryAssumption
  <2>2. task \in [Tasks -> Task]
    BY <1>1, <1>3
  <2>3. QED
    BY <1>1, <2>1, <2>2 DEF Typed, Task
<1>5. HandsRight
  BY <1>1, <1>3, Kinds DEF HandsRight, At
<1>6. KeysEarned
  <2>1. ToSet(<<>>) = {}
    BY DEF ToSet
  <2>2. QED
    BY <1>1, <1>3, <2>1 DEF KeysEarned
<1>7. QED
  BY <1>2, <1>4, <1>5, <1>6 DEF KeepInv, NothingDropped

\* A reply that was not delivered still has a row in the journal, or is being sent for the
\* first time, unless a /stop, a crash or a failed write accounts for it: for any replies
\* and replays, in any number at the same time, and any limits, failures and crashes.
THEOREM KeepTheorem == Spec => []NothingDropped
<1>1. Init => KeepInv
  BY KeepInit
<1>2. KeepInv /\ [Next]_vars => KeepInv'
  <2> SUFFICES ASSUME KeepInv, [Next]_vars PROVE KeepInv'
    OBVIOUS
  <2>1. ASSUME NEW e \in Replies, Publish(e) \/ Cancel(e) PROVE KeepInv'
    BY <2>1, KeepPublish, KeepCancel
  <2>2. ASSUME NEW t \in Tasks, Send(t) PROVE KeepInv'
    BY <2>2, KeepArrive, KeepConfirm, KeepClear, KeepSendRaises, KeepTryAgain DEF Send
  <2>3. ASSUME NEW t \in Tasks, SyncFails(t) \/ ClearFails(t) \/ BuryFails(t) PROVE KeepInv'
    BY <2>3, KeepSyncFails, KeepClearFails, KeepBuryFails
  <2>4. ASSUME NEW r \in Operators, NEW wanted, OperatorReplay(r, wanted) PROVE KeepInv'
    BY <2>4, KeepBegin, Kinds DEF OperatorReplay
  <2>5. ASSUME NEW r \in Replays, Replay(r) PROVE KeepInv'
    BY <2>5, KeepReplayNext, KeepEndReplay DEF Replay
  <2>6. CASE Expire \/ Crash
    BY <2>6, KeepExpire, KeepCrash
  <2>7. CASE Boot
    BY <2>7, KeepBegin, Kinds DEF Boot
  <2>8. CASE UNCHANGED vars
    <3>1. UNCHANGED <<published, letters, journal, cache, disk, task, skipped, delivered,
                      doubts, cutOff, unsaved>>
      BY <2>8 DEF vars, memory, files, history
    <3>2. QED
      BY <3>1 DEF KeepInv, Typed, HandsRight, KeysEarned, NothingDropped, Known, At, Reply
  <2>9. QED
    BY <2>1, <2>2, <2>3, <2>4, <2>5, <2>6, <2>7, <2>8 DEF Next
<1>3. KeepInv => NothingDropped
  BY DEF KeepInv
<1>4. QED
  BY <1>1, <1>2, <1>3, PTL DEF Spec

-----------------------------------------------------------------------------
(* Delivered once.                                                         *)

\* The replays: one that was there goes on or ends, the others stay idle.
LEMMA ReplayStep ==
  ASSUME OneReplay, NEW t \in Tasks, NEW p, NEW g, Put(t, p, g),
         t \in Replays => task[t].at # "idle",
         phase # "down",
         phase' = phase \/ (phase' = "serving" /\ t = Startup /\ p = "idle"),
         \A r \in Replays \ {t} : skipped'[r] = skipped[r],
         t \in Replays /\ p = "idle" => skipped'[t] = <<>>
  PROVE  OneReplay' /\ phase' # "down"
<1>1. \A u \in Tasks : task'[u].at = IF u = t THEN p ELSE task[u].at
  BY DEF Put
<1>2. phase' # "down"
  OBVIOUS
<1>3. \A r, s \in Replays : task'[r].at # "idle" /\ task'[s].at # "idle" => r = s
  BY <1>1, Kinds DEF OneReplay, At
<1>4. phase' = "starting" => \A r \in Operators : task'[r].at = "idle"
  BY <1>1, Kinds DEF OneReplay, At
<1>5. phase' = "serving" => task'[Startup].at = "idle"
  BY <1>1, Kinds DEF OneReplay, At
<1>6. \A r \in Replays : task'[r].at = "idle" => skipped'[r] = <<>>
  BY <1>1, Kinds DEF OneReplay, At
<1>7. QED
  BY <1>2, <1>3, <1>4, <1>5, <1>6 DEF OneReplay, At

LEMMA HandlesPut ==
  ASSUME NEW t \in Tasks, NEW p, NEW g, Put(t, p, g)
  PROVE  /\ \A e : \A u \in Tasks \ {t} : Handles(u, e)' <=> Handles(u, e)
         /\ \A e : Handles(t, e)' <=> p \notin {"idle", "loop"} /\ g = e
         /\ \A u \in Tasks : task'[u].at = IF u = t THEN p ELSE task[u].at
  BY DEF Handles, Put

\* A task goes on with its reply or lets it go, into the queue if it is a dead letter.
LEMMA LetterStep ==
  ASSUME KeepInv, OneLetter, NEW t \in Tasks, NEW p, NEW g, Put(t, p, g),
         p \notin {"idle", "loop"} => task[t].at \notin {"idle", "loop"} /\ g = task[t].reply,
         t \in Replies => p # "loop",
         \/ letters' = letters /\ journal' \subseteq journal
         \/ /\ task[t].at \notin {"idle", "loop"} /\ p \in {"idle", "loop"}
            /\ letters' = Append(letters, task[t].reply)
            /\ journal' \subseteq journal \cup {task[t].reply},
         \A r \in Replays : skipped'[r] \in {skipped[r], <<>>},
         published' = published
  PROVE  OneLetter'
<1> DEFINE d == task[t].reply
           Buried == /\ task[t].at \notin {"idle", "loop"} /\ p \in {"idle", "loop"}
                     /\ letters' = Append(letters, d) /\ journal' \subseteq journal \cup {d}
<1>1. Buried => /\ d \in Known /\ Handles(t, d) /\ d \notin ToSet(letters)
                /\ \A r \in Replays : d \notin ToSet(skipped[r])
                /\ \A u \in Tasks : Handles(u, d) => u = t
  <2>1. Buried => d \in Known /\ Handles(t, d)
    BY TaskIs DEF Handles
  <2>2. QED
    BY <2>1 DEF OneLetter
<1>2. Buried => /\ ToSet(letters') = ToSet(letters) \cup {d}
                /\ IsInjective(letters')
  <2>1. letters \in Seq(Known) /\ IsInjective(letters)
    BY Ranges DEF OneLetter
  <2>2. QED
    BY <1>1, <2>1, AppendIs
<1>3. (letters' = letters /\ journal' \subseteq journal) \/ Buried
  OBVIOUS
<1>4. \A e : \A u \in Tasks : Handles(u, e)' => Handles(u, e) /\ (Buried => u # t)
  <2>1. \A e : Handles(t, e)' => Handles(t, e) /\ ~Buried
    BY HandlesPut DEF Handles
  <2>2. QED
    BY <2>1, HandlesPut
<1>5. ToSet(<<>>) = {} /\ IsInjective(<<>>)
  BY DEF ToSet, IsInjective
<1>6. \A r \in Replays : IsInjective(skipped'[r]) /\ ToSet(skipped'[r]) \subseteq ToSet(skipped[r])
  BY <1>5 DEF OneLetter
<1>7. ASSUME NEW e \in Replies, task'[e].at # "idle" PROVE e \notin journal'
  <2>1. e \in Tasks /\ task'[e].at = (IF e = t THEN p ELSE task[e].at)
    BY HandlesPut, Kinds
  <2>2. task[e].at # "loop"
    BY <2>1, TaskIs
  <2>3. task[e].at # "idle"
    BY <1>7, <2>1
  <2>4. e \notin journal
    BY <2>3 DEF OneLetter, At
  <2>5. Handles(e, e) /\ (Buried => e # t)
    <3>1. Handles(e, e)
      <4>1. task[e].reply = e
        BY <2>1, <2>3, TaskIs
      <4>2. QED
        BY <2>2, <2>3, <4>1 DEF Handles
    <3>2. QED
      BY <1>7, <2>1, <3>1
  <2>6. ASSUME Buried PROVE e # d
    <3> HIDE DEF Buried, d
    <3>1. QED
      BY <1>1, <2>1, <2>5, <2>6
  <2>7. QED
    BY <1>3, <2>4, <2>6
<1> HIDE DEF Buried, d
<1>8. IsInjective(letters') /\ \A r \in Replays : ToSet(letters') \cap ToSet(skipped'[r]) = {}
  <2>1. IsInjective(letters) /\ \A r \in Replays : ToSet(letters) \cap ToSet(skipped[r]) = {}
    BY DEF OneLetter
  <2>2. \A r \in Replays : ToSet(letters) \cap ToSet(skipped'[r]) = {}
    BY <1>6, <2>1
  <2>3. CASE letters' = letters
    BY <2>1, <2>2, <2>3
  <2>4. CASE Buried
    <3>1. \A r \in Replays : d \notin ToSet(skipped'[r])
      BY <1>1, <1>6, <2>4
    <3>2. QED
      BY <1>2, <2>2, <2>4, <3>1
  <2>5. QED
    BY <1>3, <2>3, <2>4
<1>9. ASSUME NEW u \in Tasks, NEW e \in Known, Handles(u, e)'
      PROVE  /\ e \notin ToSet(letters') /\ \A r \in Replays : e \notin ToSet(skipped'[r])
             /\ \A v \in Tasks : Handles(v, e)' => v = u
  <2>1. Handles(u, e) /\ (Buried => u # t)
    BY <1>4, <1>9
  <2>2. /\ e \notin ToSet(letters) /\ \A r \in Replays : e \notin ToSet(skipped[r])
        /\ \A v \in Tasks : Handles(v, e) => v = u
    BY <2>1 DEF OneLetter
  <2>3. Buried => e # d
    BY <1>1, <2>1
  <2>4. QED
    BY <1>2, <1>3, <1>4, <1>6, <2>2, <2>3
<1>10. Known' = Known
  BY SameKnown
<1>11. QED
  BY <1>6, <1>7, <1>8, <1>9, <1>10 DEF OneLetter, At

\* Nobody takes up a reply that is gone.
LEMMA GoneStep ==
  ASSUME NEW e, Gone(e), NEW t \in Tasks, NEW p, NEW g, Put(t, p, g),
         p \notin {"idle", "loop"} /\ g = e => Handles(t, e) \/ e \in ToSet(letters),
         e \in journal' => e \in journal \/ Handles(t, e),
         e \in ToSet(letters') => \/ e \in ToSet(letters) \/ e \in journal \/ Handles(t, e)
                                  \/ \E r \in Replays : e \in ToSet(skipped[r]),
         \A r \in Replays : e \in ToSet(skipped'[r]) => e \in ToSet(skipped[r]) \cup ToSet(letters)
  PROVE  Gone(e)'
<1>1. \A u \in Tasks : ~Handles(u, e)'
  BY HandlesPut DEF Gone
<1>2. QED
  BY <1>1 DEF Gone

\* What a step of a task may do to the deliveries of a reply and stay accountable.
LEMMA AccountStep ==
  ASSUME KeepInv, NEW e \in Replies, Accounted(e), NEW t \in Tasks, NEW p, NEW g, Put(t, p, g),
         delivered'[e] = delivered[e], doubts' \in [Replies -> Nat], doubts'[e] >= doubts[e],
         e \in ToSet(disk) => e \in ToSet(disk'),
         Gone(e) => Gone(e)',
         p \in {"sending", "backoff"} /\ g = e =>
           \/ Handles(t, e) /\ task[t].at \in {"sending", "backoff"}
           \/ delivered[e] <= doubts'[e],
         p = "confirmed" /\ g = e => e \in ToSet(disk'),
         task[t].at = "arrived" /\ Handles(t, e) =>
           \/ p = "arrived" /\ g = e
           \/ e \in ToSet(disk') \/ Gone(e)' \/ delivered[e] <= doubts'[e]
  PROVE  Accounted(e)'
<1>1. delivered[e] \in Nat /\ doubts[e] \in Nat /\ doubts'[e] \in Nat
  BY Ranges
<1>2. /\ delivered[e] <= doubts[e] => delivered[e] <= doubts'[e]
      /\ delivered[e] <= doubts[e] + 1 => delivered[e] <= doubts'[e] + 1
  BY <1>1
<1>3. delivered'[e] <= doubts'[e] + 1
  BY <1>2 DEF Accounted
<1>4. ASSUME NEW u \in Tasks, Handles(u, e)', task'[u].at \in {"sending", "backoff"}
      PROVE  delivered'[e] <= doubts'[e]
  BY <1>2, <1>4, HandlesPut DEF Accounted
<1>5. ASSUME NEW u \in Tasks, Handles(u, e)', task'[u].at = "confirmed" PROVE e \in ToSet(disk')
  BY <1>5, HandlesPut DEF Accounted
<1>6. \/ e \in ToSet(disk') \/ Gone(e)' \/ delivered'[e] <= doubts'[e]
      \/ \E u \in Tasks : Handles(u, e)' /\ task'[u].at = "arrived"
  <2>1. CASE e \in ToSet(disk) \/ Gone(e) \/ delivered[e] <= doubts[e]
    BY <1>2, <2>1
  <2>2. CASE \E u \in Tasks : Handles(u, e) /\ task[u].at = "arrived"
    <3>1. PICK u \in Tasks : Handles(u, e) /\ task[u].at = "arrived"
      BY <2>2
    <3>2. CASE u = t
      BY <3>1, <3>2, HandlesPut
    <3>3. CASE u # t
      BY <3>1, <3>3, HandlesPut
    <3>4. QED
      BY <3>2, <3>3
  <2>3. QED
    BY <2>1, <2>2 DEF Accounted
<1>7. QED
  BY <1>3, <1>4, <1>5, <1>6 DEF Accounted

LEMMA OnceStep ==
  ASSUME OnceInv, KeepInv', OneReplay', OneLetter', KeysShared', published' = published,
         lapsed \subseteq lapsed',
         \A e \in Replies : e \notin lapsed' => Accounted(e)',
         \A e \in Replies \ Known : delivered'[e] = delivered[e]
  PROVE  OnceInv'
<1>1. Known' = Known
  BY SameKnown
<1>2. QED
  BY <1>1 DEF OnceInv

\* A task that goes on with its reply, or lets it go, without a new delivery.
LEMMA MoveOnce ==
  ASSUME OnceInv, KeepInv', NEW t \in Tasks, NEW p, NEW g, Put(t, p, g), NEW d, d = task[t].reply,
         task[t].at \notin {"idle", "loop"}, t \in Replies => p # "loop",
         p \notin {"idle", "loop"} => g = d,
         \/ letters' = letters /\ journal' \subseteq journal
         \/ /\ p \in {"idle", "loop"} /\ letters' = Append(letters, d)
            /\ journal' \subseteq journal \cup {d},
         phase # "down",
         phase' = phase \/ (phase' = "serving" /\ t = Startup /\ p = "idle"),
         \A r \in Replays \ {t} : skipped'[r] = skipped[r],
         t \in Replays => skipped'[t] = IF p = "idle" THEN <<>> ELSE skipped[t],
         KeysShared', lapsed \subseteq lapsed',
         \A e \in ToSet(disk) : e \in ToSet(disk') \/ e \in lapsed',
         UNCHANGED <<published, delivered>>,
         doubts' \in [Replies -> Nat], \A e \in Replies : doubts'[e] >= doubts[e],
         p \in {"sending", "backoff"} => \/ task[t].at \in {"sending", "backoff"}
                                         \/ delivered[g] <= doubts'[g] \/ g \in lapsed',
         p = "confirmed" => g \in ToSet(disk'),
         task[t].at = "arrived" =>
           \/ d \in ToSet(disk') \/ d \in lapsed'
           \/ Gone(d)' \/ delivered[d] <= doubts'[d]
  PROVE  OnceInv'
<1>1. KeepInv /\ OneReplay /\ OneLetter
  BY DEF OnceInv
<1>2. \A r \in Replays : skipped'[r] \in {skipped[r], <<>>}
  OBVIOUS
<1>3. OneLetter'
  BY <1>1, <1>2, LetterStep
<1>4. OneReplay'
  BY <1>1, ReplayStep
<1>5. ASSUME NEW e, Gone(e) PROVE Gone(e)'
  <2>1. \A r \in Replays : e \in ToSet(skipped'[r]) => e \in ToSet(skipped[r])
    <3>1. ToSet(<<>>) = {}
      BY DEF ToSet
    <3>2. QED
      BY <1>2, <3>1
  <2>2. d \in Known /\ letters \in Seq(Known)
    BY <1>1, TaskIs, Ranges
  <2>3. ToSet(Append(letters, d)) = ToSet(letters) \cup {d}
    BY <2>2, AppendIs
  <2>4. e \in ToSet(letters') => e \in ToSet(letters) \/ e = d
    BY <2>3
  <2>5. e = d => Handles(t, e)
    BY DEF Handles
  <2>6. e \in journal' => e \in journal \/ Handles(t, e)
    BY <2>5
  <2>7. p \notin {"idle", "loop"} /\ g = e => Handles(t, e)
    BY <2>5
  <2>8. QED
    BY <1>5, <2>1, <2>4, <2>5, <2>6, <2>7, GoneStep
<1>6. ASSUME NEW e \in Replies, e \notin lapsed' PROVE Accounted(e)'
  <2>1. Accounted(e)
    BY <1>6 DEF OnceInv
  <2>2. e \in ToSet(disk) => e \in ToSet(disk')
    BY <1>6
  <2>3. Handles(t, e) <=> d = e
    BY DEF Handles
  <2>4. delivered'[e] = delivered[e] /\ doubts'[e] >= doubts[e]
    OBVIOUS
  <2>5. p \in {"sending", "backoff"} /\ g = e =>
          \/ Handles(t, e) /\ task[t].at \in {"sending", "backoff"}
          \/ delivered[e] <= doubts'[e]
    BY <1>6, <2>3
  <2>6. task[t].at = "arrived" /\ Handles(t, e) =>
          e \in ToSet(disk') \/ Gone(e)' \/ delivered[e] <= doubts'[e]
    BY <1>6, <2>3
  <2>7. QED
    BY <1>1, <1>5, <2>1, <2>2, <2>4, <2>5, <2>6, AccountStep
<1>7. QED
  BY <1>3, <1>4, <1>6, OnceStep

\* The keys where no step of the idempotency cache is taken.
LEMMA KeysStep ==
  ASSUME OnceInv, phase # "down", UNCHANGED <<cache, disk, lapsed>>
  PROVE  KeysShared' /\ lapsed \subseteq lapsed' /\ \A e \in ToSet(disk) : e \in ToSet(disk')
  BY DEF OnceInv, KeysShared

\* A task with a reply in hand runs in a process that is up.
LEMMA Upright ==
  ASSUME OnceInv, NEW t \in Tasks, task[t].at # "idle"
  PROVE  phase # "down"
  BY DEF OnceInv, OneReplay, At

LEMMA OnceArrive == ASSUME OnceInv, NEW t \in Tasks, Arrive(t) PROVE OnceInv'
<1>0. PICK g : g = task[t].reply
  OBVIOUS
<1>1. KeepInv /\ OneReplay /\ OneLetter /\ KeepInv'
  BY KeepArrive DEF OnceInv
<1>2. /\ task[t].at = "sending" /\ Moves(t, "arrived") /\ phase # "down"
      /\ delivered' = [delivered EXCEPT ![g] = @ + 1]
      /\ UNCHANGED <<phase, published, letters, cache, skipped, journal, disk, doubts, lapsed>>
  BY <1>0 DEF Arrive, Yielded, At, Reply, memory, files
<1>3. g \in Known /\ g \in Replies /\ Handles(t, g)
  BY <1>0, <1>1, <1>2, TaskIs, Ranges DEF Handles
<1>4. Put(t, "arrived", g)
  BY <1>0, <1>1, <1>2, MovesPut, Ranges DEF Places, Reply
<1>5. \A u \in Tasks : Handles(u, g) => u = t
  BY <1>1, <1>3 DEF OneLetter
<1>6. KeysShared' /\ lapsed \subseteq lapsed'
  BY <1>2, KeysStep
<1>7. OneLetter'
  BY <1>0, <1>1, <1>2, <1>4, LetterStep
<1>8. OneReplay'
  BY <1>1, <1>2, <1>4, ReplayStep
<1>9. \A e \in Replies : e # g => delivered'[e] = delivered[e]
  BY <1>1, <1>2, Ranges
<1>10. ASSUME NEW e \in Replies, e \notin lapsed', e # g PROVE Accounted(e)'
  <2>1. Accounted(e)
    BY <1>2, <1>10 DEF OnceInv
  <2>2. doubts' \in [Replies -> Nat] /\ doubts'[e] >= doubts[e]
    BY <1>1, <1>2, Ranges
  <2>3. Gone(e) => Gone(e)'
    BY <1>2, <1>4, <1>10, GoneStep
  <2>4. ~Handles(t, e)
    BY <1>0, <1>10 DEF Handles
  <2>5. QED
    BY <1>1, <1>2, <1>4, <1>9, <1>10, <2>1, <2>2, <2>3, <2>4, AccountStep
<1>11. ASSUME g \notin lapsed' PROVE Accounted(g)'
  <2>1. delivered[g] <= doubts[g]
    BY <1>2, <1>3, <1>11 DEF OnceInv, Accounted
  <2>2. delivered'[g] <= doubts'[g] + 1
    <3>1. delivered'[g] = delivered[g] + 1 /\ doubts'[g] = doubts[g]
      BY <1>1, <1>2, <1>3, Ranges
    <3>2. delivered[g] \in Nat /\ doubts[g] \in Nat
      BY <1>1, <1>3, Ranges
    <3>3. QED
      BY <2>1, <3>1, <3>2
  <2>3. \A u \in Tasks : Handles(u, g)' => u = t
    BY <1>4, <1>5, HandlesPut
  <2>4. Handles(t, g)' /\ task'[t].at = "arrived"
    BY <1>4, HandlesPut
  <2>5. QED
    BY <2>2, <2>3, <2>4 DEF Accounted
<1>12. \A e \in Replies \ Known : delivered'[e] = delivered[e]
  BY <1>3, <1>9
<1>13. QED
  BY <1>1, <1>2, <1>6, <1>7, <1>8, <1>10, <1>11, <1>12, OnceStep

\* What OnceInv says of a task with a reply in hand.
LEMMA HandIs ==
  ASSUME OnceInv, NEW t \in Tasks, task[t].at \notin {"idle", "loop"}, NEW d, d = task[t].reply
  PROVE  /\ KeepInv /\ phase # "down" /\ d \in Known /\ d \in Replies /\ Handles(t, d)
         /\ t \in Replies => d = t
         /\ delivered[d] \in Nat /\ doubts[d] \in Nat
         /\ d \notin lapsed => Accounted(d) /\ delivered[d] <= doubts[d] + 1
         /\ d \notin lapsed /\ task[t].at \in {"sending", "backoff"} => delivered[d] <= doubts[d]
         /\ d \notin lapsed /\ task[t].at = "confirmed" => d \in ToSet(disk)
<1>1. KeepInv /\ phase # "down"
  BY Upright DEF OnceInv
<1>2. d \in Known /\ d \in Replies /\ Handles(t, d) /\ (t \in Replies => d = t)
  BY <1>1, TaskIs, Ranges DEF Handles
<1>3. delivered[d] \in Nat /\ doubts[d] \in Nat
  BY <1>1, <1>2, Ranges
<1>4. d \notin lapsed => Accounted(d)
  BY <1>2 DEF OnceInv
<1>5. QED
  BY <1>1, <1>2, <1>3, <1>4 DEF Accounted

\* One more delivery that could not be recorded.
LEMMA OneDoubt ==
  ASSUME KeepInv, NEW d \in Replies, doubts' = [doubts EXCEPT ![d] = @ + 1]
  PROVE  /\ doubts' \in [Replies -> Nat] /\ doubts'[d] = doubts[d] + 1
         /\ \A e \in Replies : doubts'[e] >= doubts[e]
<1>1. doubts \in [Replies -> Nat]
  BY Ranges
<1>2. QED
  BY <1>1

LEMMA OnceConfirm == ASSUME OnceInv, NEW t \in Tasks, Confirm(t) PROVE OnceInv'
<1>0. PICK g : g = task[t].reply
  OBVIOUS
<1>1. /\ task[t].at = "arrived" /\ Moves(t, "confirmed") /\ phase' = phase
      /\ cache' = Remembered(g) /\ disk' = cache' /\ lapsed' = lapsed \cup (ToSet(cache) \ ToSet(cache'))
      /\ UNCHANGED <<published, letters, skipped, journal, delivered, doubts>>
  BY <1>0 DEF Confirm, At, Reply
<1>2. /\ KeepInv /\ phase # "down" /\ g \in Known /\ KeepInv' /\ KeysShared
  BY <1>0, <1>1, HandIs, KeepConfirm DEF OnceInv
<1>3. Put(t, "confirmed", g)
  BY <1>0, <1>1, <1>2, MovesPut, Ranges DEF Places, Reply
<1>4. g \in ToSet(disk') /\ Len(cache') <= MaxEntries
  BY <1>1, <1>2, RememberedIs, Ranges DEF KeysShared
<1>5. KeysShared' /\ lapsed \subseteq lapsed'
  BY <1>1, <1>4 DEF KeysShared
<1>6. \A e \in ToSet(disk) : e \in ToSet(disk') \/ e \in lapsed'
  BY <1>1, <1>2 DEF KeysShared
<1>7. doubts' \in [Replies -> Nat] /\ \A e \in Replies : doubts'[e] >= doubts[e]
  BY <1>1, <1>2, Ranges
<1>8. QED
  BY <1>0, <1>1, <1>2, <1>3, <1>4, <1>5, <1>6, <1>7, MoveOnce

LEMMA OnceClear == ASSUME OnceInv, NEW t \in Tasks, Clear(t) PROVE OnceInv'
<1>0. PICK g : g = task[t].reply
  OBVIOUS
<1>1. /\ task[t].at = "confirmed" /\ Done(t) /\ phase' = phase /\ journal' \subseteq journal
      /\ UNCHANGED <<published, letters, cache, skipped, disk, delivered, doubts, lapsed>>
  BY DEF Clear, At, memory, history
<1>2. KeepInv /\ phase # "down" /\ KeepInv'
  BY <1>0, <1>1, HandIs, KeepClear
<1>3. Put(t, After(t), 0)
  BY <1>1, <1>2, DonePut, Ranges DEF After
<1>4. KeysShared' /\ lapsed \subseteq lapsed' /\ \A e \in ToSet(disk) : e \in ToSet(disk')
  BY <1>1, <1>2, KeysStep
<1>5. doubts' \in [Replies -> Nat] /\ \A e \in Replies : doubts'[e] >= doubts[e]
  BY <1>1, <1>2, Ranges
<1>6. t \in Replays => After(t) # "idle"
  BY DEF After
<1>7. QED
  BY <1>0, <1>1, <1>2, <1>3, <1>4, <1>5, <1>6, AfterIs, MoveOnce

\* An attempt fails: its reply owes nothing, or a doubt was noted.
LEMMA OnceFailed ==
  ASSUME OnceInv, KeepInv', NEW t \in Tasks, task[t].at \notin {"idle", "loop"}, Failed(t),
         NEW g, g = task[t].reply,
         KeysShared', lapsed \subseteq lapsed',
         UNCHANGED <<phase, published, skipped, disk, delivered>>,
         doubts' \in [Replies -> Nat], \A e \in Replies : doubts'[e] >= doubts[e],
         g \in lapsed' \/ delivered[g] <= doubts'[g]
  PROVE  OnceInv'
<1>1. KeepInv /\ phase # "down"
  BY HandIs
<1>2. \/ letters' = letters /\ journal' = journal /\ Put(t, "backoff", g)
      \/ /\ letters' = Append(letters, g) /\ journal' = journal \cup {g}
         /\ Put(t, After(t), 0)
  BY <1>1, FailedPut, Ranges DEF Reply
<1>3. t \in Replays => After(t) # "idle"
  BY DEF After
<1>4. CASE letters' = letters /\ journal' = journal /\ Put(t, "backoff", g)
  BY <1>1, <1>4, MoveOnce
<1>5. CASE /\ letters' = Append(letters, g) /\ journal' = journal \cup {g}
           /\ Put(t, After(t), 0)
  BY <1>1, <1>3, <1>5, AfterIs, MoveOnce
<1>6. QED
  BY <1>2, <1>4, <1>5

LEMMA OnceSendRaises == ASSUME OnceInv, NEW t \in Tasks, SendRaises(t) PROVE OnceInv'
<1>0. PICK g : g = task[t].reply
  OBVIOUS
<1>1. /\ task[t].at \in {"sending", "arrived"} /\ Failed(t)
      /\ doubts' = IF task[t].at = "arrived" THEN [doubts EXCEPT ![g] = @ + 1] ELSE doubts
      /\ UNCHANGED <<phase, published, cache, skipped, disk, delivered, lapsed>>
  BY <1>0 DEF SendRaises, At, Reply
<1>2. /\ KeepInv /\ phase # "down" /\ g \in Replies /\ KeepInv'
      /\ delivered[g] \in Nat /\ doubts[g] \in Nat
      /\ g \notin lapsed => delivered[g] <= doubts[g] + 1
      /\ g \notin lapsed /\ task[t].at = "sending" => delivered[g] <= doubts[g]
  BY <1>0, <1>1, HandIs, KeepSendRaises
<1>3. KeysShared' /\ lapsed \subseteq lapsed'
  BY <1>1, <1>2, KeysStep
<1>4. CASE task[t].at = "arrived"
  BY <1>0, <1>1, <1>2, <1>3, <1>4, OneDoubt, OnceFailed
<1>5. CASE task[t].at = "sending"
  <2>1. doubts' \in [Replies -> Nat] /\ \A e \in Replies : doubts'[e] >= doubts[e]
    BY <1>1, <1>2, <1>5, Ranges
  <2>2. QED
    BY <1>0, <1>1, <1>2, <1>3, <1>5, <2>1, OnceFailed
<1>6. QED
  BY <1>1, <1>4, <1>5

LEMMA OnceClearFails == ASSUME OnceInv, NEW t \in Tasks, ClearFails(t) PROVE OnceInv'
<1>0. PICK g : g = task[t].reply
  OBVIOUS
<1>1. /\ task[t].at = "confirmed" /\ Failed(t) /\ doubts' = [doubts EXCEPT ![g] = @ + 1]
      /\ UNCHANGED <<phase, published, cache, skipped, disk, delivered, lapsed>>
  BY <1>0 DEF ClearFails, At, Reply
<1>2. /\ KeepInv /\ phase # "down" /\ g \in Replies /\ KeepInv'
      /\ g \notin lapsed => delivered[g] <= doubts[g] + 1
  BY <1>0, <1>1, HandIs, KeepClearFails
<1>3. KeysShared' /\ lapsed \subseteq lapsed'
  BY <1>1, <1>2, KeysStep
<1>4. QED
  BY <1>0, <1>1, <1>2, <1>3, OneDoubt, OnceFailed

LEMMA OnceSyncFails == ASSUME OnceInv, NEW t \in Tasks, SyncFails(t) PROVE OnceInv'
<1>0. PICK g : g = task[t].reply
  OBVIOUS
<1>1. /\ task[t].at = "arrived" /\ Failed(t) /\ doubts' = [doubts EXCEPT ![g] = @ + 1]
      /\ cache' = Remembered(g) /\ lapsed' = lapsed \cup (ToSet(cache) \ ToSet(cache'))
      /\ UNCHANGED <<phase, published, skipped, disk, delivered>>
  BY <1>0 DEF SyncFails, At, Reply
<1>2. /\ KeepInv /\ phase # "down" /\ g \in Known /\ g \in Replies /\ KeepInv' /\ KeysShared
      /\ g \notin lapsed => delivered[g] <= doubts[g] + 1
  BY <1>0, <1>1, HandIs, KeepSyncFails DEF OnceInv
<1>3. Len(cache') <= MaxEntries
  BY <1>1, <1>2, RememberedIs, Ranges DEF KeysShared
<1>4. KeysShared' /\ lapsed \subseteq lapsed'
  BY <1>1, <1>2, <1>3 DEF KeysShared
<1>5. QED
  BY <1>0, <1>1, <1>2, <1>4, OneDoubt, OnceFailed

LEMMA OnceTryAgain == ASSUME OnceInv, NEW t \in Tasks, TryAgain(t) PROVE OnceInv'
<1>0. PICK g : g = task[t].reply
  OBVIOUS
<1>1. /\ task[t].at = "backoff" /\ task' = [task EXCEPT ![t] = Sending(g, NextTry(t))]
      /\ UNCHANGED <<phase, published, letters, journal, cache, skipped, disk, delivered, doubts, lapsed>>
  BY <1>0 DEF TryAgain, At, Reply, memory, files, history
<1>2. KeepInv /\ phase # "down" /\ g \in Known /\ KeepInv' /\ task[t] \in Task
  BY <1>0, <1>1, HandIs, KeepTryAgain, TaskIs
<1>3. NextTry(t) \in Nat
  BY <1>2 DEF Task, NextTry
<1>4. Put(t, "sending", g)
  <2>1. g \in Nat
    BY <1>2, Kinds, Ranges
  <2>2. QED
    BY <1>1, <1>2, <1>3, <2>1, SendingPut, Ranges
<1>5. KeysShared' /\ lapsed \subseteq lapsed' /\ \A e \in ToSet(disk) : e \in ToSet(disk')
  BY <1>1, <1>2, KeysStep
<1>6. doubts' \in [Replies -> Nat] /\ \A e \in Replies : doubts'[e] >= doubts[e]
  BY <1>1, <1>2, Ranges
<1>7. QED
  BY <1>0, <1>1, <1>2, <1>4, <1>5, <1>6, MoveOnce

\* A /stop that cuts off a send the platform has taken leaves the reply to nobody.
LEMMA OnceCancel == ASSUME OnceInv, NEW e \in Replies, Cancel(e) PROVE OnceInv'
<1>1. /\ task[e].at \in {"sending", "arrived", "backoff"} /\ task' = [task EXCEPT ![e] = Idle]
      /\ UNCHANGED <<phase, published, letters, journal, cache, skipped, disk, delivered, doubts, lapsed>>
  BY DEF Cancel, memory, files
<1>2. e \in Tasks /\ task[e].at \notin {"idle", "loop"} /\ e \notin Replays
  BY <1>1, Kinds
<1>3. task[e].reply = e
  BY <1>1, <1>2, TaskIs DEF OnceInv
<1>4. KeepInv /\ phase # "down" /\ KeepInv' /\ Handles(e, e) /\ e \in Known /\ OneLetter
  BY <1>2, <1>3, HandIs, KeepCancel DEF OnceInv
<1>5. Put(e, "idle", 0)
  BY <1>1, <1>2, <1>4, IdlePut, Ranges
<1>6. KeysShared' /\ lapsed \subseteq lapsed' /\ \A d \in ToSet(disk) : d \in ToSet(disk')
  BY <1>1, <1>4, KeysStep
<1>7. doubts' \in [Replies -> Nat] /\ \A d \in Replies : doubts'[d] >= doubts[d]
  BY <1>1, <1>4, Ranges
<1>8. Gone(e)'
  <2>1. /\ e \notin journal /\ e \notin ToSet(letters) /\ \A r \in Replays : e \notin ToSet(skipped[r])
        /\ \A u \in Tasks : Handles(u, e) => u = e
    BY <1>1, <1>2, <1>4 DEF OneLetter, At
  <2>2. \A u \in Tasks : ~Handles(u, e)'
    BY <1>2, <1>5, <2>1, HandlesPut
  <2>3. QED
    BY <1>1, <2>1, <2>2 DEF Gone
<1>9. QED
  BY <1>1, <1>2, <1>3, <1>4, <1>5, <1>6, <1>7, <1>8, MoveOnce

LEMMA OnceBuryFails == ASSUME OnceInv, NEW t \in Tasks, BuryFails(t) PROVE OnceInv'
<1>0. PICK g : g = task[t].reply
  OBVIOUS
<1>1. /\ task[t].at = "sending" /\ letters' = Append(letters, g) /\ task' = [task EXCEPT ![t] = Idle]
      /\ skipped' = [r \in Replays |-> IF r = t THEN <<>> ELSE skipped[r]]
      /\ phase' = IF t = Startup THEN "serving" ELSE phase
      /\ UNCHANGED <<published, journal, cache, disk, delivered, doubts, lapsed>>
  BY <1>0 DEF BuryFails, Abort, At, Reply, files
<1>2. KeepInv /\ phase # "down" /\ KeepInv'
  BY <1>0, <1>1, HandIs, KeepBuryFails
<1>3. Put(t, "idle", 0)
  BY <1>1, <1>2, IdlePut, Ranges
<1>4. KeysShared' /\ lapsed \subseteq lapsed' /\ \A e \in ToSet(disk) : e \in ToSet(disk')
  <2>1. phase' # "down"
    BY <1>1, <1>2
  <2>2. QED
    BY <1>1, <1>2, KeysStep
<1>5. doubts' \in [Replies -> Nat] /\ \A e \in Replies : doubts'[e] >= doubts[e]
  BY <1>1, <1>2, Ranges
<1>6. /\ \A r \in Replays \ {t} : skipped'[r] = skipped[r]
      /\ t \in Replays => skipped'[t] = <<>>
  BY <1>1
<1>7. journal' \subseteq journal \cup {g}
  BY <1>1
<1>8. QED
  BY <1>0, <1>1, <1>2, <1>3, <1>4, <1>5, <1>6, <1>7, MoveOnce

\* No task has the reply in hand.
Free(d) == \A u \in Tasks : ~Handles(u, d)

LEMMA LettersFree ==
  ASSUME OnceInv
  PROVE  /\ \A d \in ToSet(letters) : Free(d) /\ d \in Known
         /\ \A r \in Replays : \A d \in ToSet(skipped[r]) : Free(d) /\ d \in Known
<1>1. KeepInv /\ OneLetter
  BY DEF OnceInv
<1>2. \A d \in ToSet(letters) : d \in Known
  BY <1>1, Ranges DEF ToSet
<1>3. \A r \in Replays : \A d \in ToSet(skipped[r]) : d \in Known
  <2>1. \A r \in Replays : skipped[r] \in Seq(Known)
    BY <1>1, Ranges
  <2>2. QED
    BY <2>1 DEF ToSet
<1>4. QED
  BY <1>1, <1>2, <1>3 DEF OneLetter, Free

\* A task lets go of nothing, and takes up at most a letter that was waiting.
LEMMA LetterMove ==
  ASSUME KeepInv, OneLetter, NEW t \in Tasks, NEW p, NEW g, Put(t, p, g),
         task[t].at \in {"idle", "loop"},
         IsInjective(letters'), \A d \in ToSet(letters') : Free(d),
         \A r \in Replays : /\ IsInjective(skipped'[r])
                            /\ ToSet(letters') \cap ToSet(skipped'[r]) = {}
                            /\ \A d \in ToSet(skipped'[r]) : Free(d),
         p \notin {"idle", "loop"} =>
           Free(g) /\ g \notin ToSet(letters') /\ \A r \in Replays : g \notin ToSet(skipped'[r]),
         \A e \in Replies : task'[e].at # "idle" => e \notin journal'
  PROVE  OneLetter'
<1>1. ASSUME NEW u \in Tasks, NEW e, Handles(u, e)'
      PROVE  /\ e \notin ToSet(letters') /\ \A r \in Replays : e \notin ToSet(skipped'[r])
             /\ \A v \in Tasks : Handles(v, e)' => v = u
  <2>1. \A v \in Tasks : Handles(v, e)' => \/ v = t /\ p \notin {"idle", "loop"} /\ g = e
                                           \/ v # t /\ Handles(v, e) /\ e \in Known
    BY HandlesPut, TaskIs DEF Handles
  <2>2. CASE u = t /\ p \notin {"idle", "loop"} /\ g = e
    BY <2>1, <2>2 DEF Free
  <2>3. CASE u # t /\ Handles(u, e) /\ e \in Known
    <3>1. ~Free(e)
      BY <2>3 DEF Free
    <3>2. \A v \in Tasks : Handles(v, e) => v = u
      BY <2>3 DEF OneLetter
    <3>3. QED
      BY <2>1, <3>1, <3>2
  <2>4. QED
    BY <1>1, <2>1, <2>2, <2>3
<1>2. QED
  BY <1>1 DEF OneLetter, At

LEMMA OncePublish == ASSUME OnceInv, NEW e \in Replies, Publish(e) PROVE OnceInv'
<1>1. /\ KeepInv /\ OneReplay /\ OneLetter /\ KeysShared /\ KeepInv'
      /\ \A d \in Replies \ Known : delivered[d] = 0
  BY KeepPublish DEF OnceInv
<1>2. /\ e = published + 1 /\ published' = e /\ phase # "down"
      /\ IF e \in channels THEN Begin(e, e) /\ letters' = letters ELSE Bury(e) /\ task' = task
      /\ UNCHANGED <<phase, cache, disk, skipped, delivered, doubts, lapsed>>
  BY DEF Publish, Yielded, history
<1>3. e \in Nat /\ e \in Tasks /\ e \notin Replays
  BY <1>1, Kinds
<1>4. Known \subseteq Known' /\ e \in Known' /\ e \notin Known
  BY <1>1, <1>2, Ranges DEF Known
<1>5. Free(e) /\ task[e].at = "idle"
  <2>1. \A u \in Tasks : Handles(u, e) => e \in Known
    BY <1>1, TaskIs DEF Handles
  <2>2. task[e].at = "idle"
    BY <1>1, <1>3, <1>4, TaskIs
  <2>3. QED
    BY <1>4, <2>1, <2>2 DEF Free
<1>6. e \notin ToSet(letters) /\ (\A r \in Replays : e \notin ToSet(skipped[r])) /\ e \notin journal
      /\ e \notin ToSet(cache)
  <2>1. e \notin ToSet(cache)
    BY <1>1, <1>4, Ranges DEF ToSet
  <2>2. QED
    BY <1>1, <1>4, <2>1, LettersFree, Ranges
<1>7. PICK p, g : /\ Put(e, p, g) /\ ((p = "sending" /\ g = e) \/ p = "idle")
                  /\ \/ p = "sending" /\ letters' = letters /\ journal' = journal
                     \/ p = "idle" /\ letters' = Append(letters, e) /\ journal' = journal \cup {e}
  <2>1. CASE e \in channels
    BY <1>1, <1>2, <1>3, <1>6, <2>1, BeginPut, Ranges
  <2>2. CASE e \notin channels
    BY <1>1, <1>2, <1>3, <1>5, <2>2, SamePut, Ranges DEF Bury
  <2>3. QED
    BY <2>1, <2>2
<1>8. IsInjective(letters') /\ ToSet(letters') \subseteq ToSet(letters) \cup {e}
      /\ (p = "sending" => letters' = letters)
  <2>1. letters \in Seq(Known') /\ IsInjective(letters)
    <3>1. Seq(Known) \subseteq Seq(Known')
      BY <1>4
    <3>2. QED
      BY <1>1, <3>1, Ranges DEF OneLetter
  <2>2. IsInjective(Append(letters, e)) /\ ToSet(Append(letters, e)) = ToSet(letters) \cup {e}
    BY <1>4, <1>6, <2>1, AppendIs
  <2>3. QED
    BY <1>7, <2>1, <2>2
<1>9. OneLetter'
  <2>1. \A d \in Replies : task'[d].at # "idle" => d \notin journal'
    <3>1. \A d \in Replies : task[d].at # "idle" => d \notin journal
      BY <1>1 DEF OneLetter, At
    <3>2. \A d \in Replies : d \in Tasks /\ task'[d].at = (IF d = e THEN p ELSE task[d].at)
      BY <1>3, <1>7, HandlesPut, Kinds
    <3>3. QED
      BY <1>6, <1>7, <3>1, <3>2
  <2>2. \A d \in ToSet(letters') : Free(d)
    BY <1>5, <1>8, LettersFree
  <2>3. \A r \in Replays : /\ IsInjective(skipped'[r])
                           /\ ToSet(letters') \cap ToSet(skipped'[r]) = {}
                           /\ \A d \in ToSet(skipped'[r]) : Free(d)
    <3>1. \A r \in Replays : IsInjective(skipped[r]) /\ ToSet(letters) \cap ToSet(skipped[r]) = {}
      BY <1>1 DEF OneLetter
    <3>2. QED
      BY <1>2, <1>6, <1>8, <3>1, LettersFree
  <2>4. p \notin {"idle", "loop"} =>
           Free(g) /\ g \notin ToSet(letters') /\ \A r \in Replays : g \notin ToSet(skipped'[r])
    BY <1>2, <1>5, <1>6, <1>7
  <2>5. QED
    BY <1>1, <1>3, <1>5, <1>7, <1>8, <2>1, <2>2, <2>3, <2>4, LetterMove
<1>10. OneReplay'
  BY <1>1, <1>2, <1>3, <1>7, ReplayStep
<1>11. KeysShared'
  BY <1>2, KeysStep
<1>12. ASSUME NEW d \in Replies, d \notin lapsed, d # e PROVE Accounted(d)'
  <2>1. Accounted(d)
    BY <1>12 DEF OnceInv
  <2>2. doubts' \in [Replies -> Nat] /\ doubts'[d] >= doubts[d] /\ delivered'[d] = delivered[d]
    BY <1>1, <1>2, Ranges
  <2>3. Gone(d) => Gone(d)'
    <3>1. d \in journal' => d \in journal
      BY <1>7, <1>12
    <3>2. d \in ToSet(letters') => d \in ToSet(letters)
      BY <1>8, <1>12
    <3>3. QED
      BY <1>2, <1>3, <1>7, <1>12, <3>1, <3>2, GoneStep
  <2>4. QED
    BY <1>1, <1>2, <1>3, <1>5, <1>7, <1>12, <2>1, <2>2, <2>3, AccountStep
<1>13. Accounted(e)'
  <2>1. delivered'[e] = 0 /\ doubts'[e] \in Nat
    BY <1>1, <1>2, <1>4, Ranges
  <2>2. delivered'[e] <= doubts'[e] /\ delivered'[e] <= doubts'[e] + 1
    BY <2>1
  <2>3. \A u \in Tasks : Handles(u, e)' => task'[u].at = "sending"
    BY <1>3, <1>5, <1>7, HandlesPut DEF Free
  <2>4. QED
    BY <2>2, <2>3 DEF Accounted
<1>14. \A d \in Replies \ Known' : delivered'[d] = 0
  BY <1>1, <1>2, <1>4
<1>15. QED
  BY <1>1, <1>2, <1>9, <1>10, <1>11, <1>12, <1>13, <1>14 DEF OnceInv

\* A replay begins when there is no other; what it restores nobody has in hand.
LEMMA OnceBegin ==
  ASSUME OnceInv, NEW r \in Replays, NEW wanted, BeginReplay(r, wanted),
         \A s \in Replays : task[s].at = "idle",
         phase # "down" \/ cache = <<>>,
         phase' \in {"starting", "serving"},
         phase' = "starting" <=> r = Startup
  PROVE  OnceInv'
<1>1. /\ KeepInv /\ OneReplay /\ OneLetter /\ KeysShared /\ KeepInv'
  BY KeepBegin DEF OnceInv
<1>2. /\ cache' = Recalled /\ disk' = cache' /\ letters' = IF letters = <<>> THEN Rows ELSE letters
      /\ task' = [task EXCEPT ![r] = Looping]
      /\ UNCHANGED <<published, journal, skipped, delivered, doubts, lapsed>>
  BY DEF BeginReplay, history
<1>3. r \in Tasks /\ r \notin Replies /\ Put(r, "loop", 0) /\ task[r].at = "idle"
  BY <1>1, <1>2, LoopingPut, Kinds, Ranges
<1>4. \A u \in Tasks : task'[u].at = IF u = r THEN "loop" ELSE task[u].at
  BY <1>3, HandlesPut
<1>5. /\ Len(cache') <= MaxEntries
      /\ \A e \in ToSet(disk) : e \in ToSet(disk') \/ e \in lapsed'
  BY <1>1, <1>2, RecalledIs, Ranges DEF KeysShared
<1>6. KeysShared'
  BY <1>2, <1>5 DEF KeysShared
<1>7. OneReplay'
  <2>1. phase' # "down"
    OBVIOUS
  <2>2. \A s, u \in Replays : task'[s].at # "idle" /\ task'[u].at # "idle" => s = u
    BY <1>4, Kinds
  <2>3. phase' = "starting" => \A o \in Operators : task'[o].at = "idle"
    BY <1>4, Kinds
  <2>4. phase' = "serving" => task'[Startup].at = "idle"
    BY <1>4, Kinds
  <2>5. \A s \in Replays : task'[s].at = "idle" => skipped'[s] = <<>>
    BY <1>1, <1>2 DEF OneReplay, At
  <2>6. QED
    BY <2>1, <2>2, <2>3, <2>4, <2>5 DEF OneReplay, At
<1>8. \A s \in Replays : skipped[s] = <<>>
  BY <1>1 DEF OneReplay, At
<1>9. ASSUME NEW d \in journal PROVE Free(d)
  <2>1. ASSUME NEW u \in Tasks, Handles(u, d) PROVE FALSE
    <3>1. u \in Replies
      BY <2>1 DEF Handles, Tasks
    <3>2. task[u].at # "idle" /\ task[u].reply = d
      BY <2>1 DEF Handles
    <3>3. d = u
      BY <1>1, <3>1, <3>2, TaskIs
    <3>4. QED
      BY <1>1, <3>1, <3>2, <3>3 DEF OneLetter, At
  <2>2. QED
    BY <2>1 DEF Free
<1>10. /\ IsInjective(letters') /\ \A d \in ToSet(letters') : Free(d)
       /\ \A d \in ToSet(letters') : d \in ToSet(letters) \/ d \in journal
  <2>1. IsInjective(Rows) /\ ToSet(Rows) = journal
    BY <1>1, RowsIs, Ranges
  <2>2. IsInjective(letters) /\ \A d \in ToSet(letters) : Free(d)
    BY <1>1, LettersFree DEF OneLetter
  <2>3. letters' = Rows \/ letters' = letters
    BY <1>2
  <2>4. CASE letters' = Rows
    BY <1>9, <2>1, <2>4
  <2>5. CASE letters' = letters
    BY <2>2, <2>5
  <2>6. QED
    BY <2>3, <2>4, <2>5
<1>11. OneLetter'
  <2>1. \A s \in Replays : /\ IsInjective(skipped'[s]) /\ ToSet(letters') \cap ToSet(skipped'[s]) = {}
                           /\ \A d \in ToSet(skipped'[s]) : Free(d)
    BY <1>2, <1>8 DEF ToSet, IsInjective
  <2>2. \A e \in Replies : task'[e].at # "idle" => e \notin journal'
    BY <1>1, <1>2, <1>3, <1>4, Kinds DEF OneLetter, At
  <2>3. QED
    BY <1>1, <1>3, <1>10, <2>1, <2>2, LetterMove
<1>12. ASSUME NEW e \in Replies, e \notin lapsed' PROVE Accounted(e)'
  <2>1. Accounted(e)
    BY <1>2, <1>12 DEF OnceInv
  <2>2. doubts' \in [Replies -> Nat] /\ doubts'[e] >= doubts[e] /\ delivered'[e] = delivered[e]
    <3>1. doubts \in [Replies -> Nat] /\ doubts' = doubts /\ delivered' = delivered
      BY <1>1, <1>2, Ranges
    <3>2. QED
      BY <3>1
  <2>3. Gone(e) => Gone(e)'
    BY <1>2, <1>3, <1>10, GoneStep
  <2>4. QED
    BY <1>1, <1>3, <1>5, <1>12, <2>1, <2>2, <2>3, AccountStep
<1>13. QED
  BY <1>1, <1>2, <1>6, <1>7, <1>11, <1>12, OnceStep

LEMMA OnceBoot == ASSUME OnceInv, Boot PROVE OnceInv'
<1>1. /\ phase = "down" /\ phase' = "starting" /\ BeginReplay(Startup, Replies)
  BY DEF Boot
<1>2. cache = <<>> /\ \A t \in Tasks : task[t].at = "idle"
  BY <1>1 DEF OnceInv, OneReplay, At
<1>3. QED
  BY <1>1, <1>2, Kinds, OnceBegin

\* AtOnce = 1: an operator's replay begins when no other is under way.
LEMMA OnceOperator ==
  ASSUME OnceInv, AtOnce = 1, NEW r \in Operators, NEW wanted, OperatorReplay(r, wanted)
  PROVE  OnceInv'
<1> DEFINE busy == {o \in Operators : ~At(o, "idle")}
<1>1. /\ phase = "serving" /\ phase' = phase /\ BeginReplay(r, wanted)
      /\ Cardinality(busy) < 1
  BY DEF OperatorReplay
<1>2. busy = {}
  <2>1. MaxReplies \in Nat /\ MaxReplays \in Nat
    BY DeliveryAssumption
  <2>2. Operators \subseteq 1..(MaxReplies + 1 + MaxReplays) /\ MaxReplies + 1 + MaxReplays \in Nat
    BY <2>1 DEF Operators, Startup
  <2>3. IsFiniteSet(1..(MaxReplies + 1 + MaxReplays))
    BY <2>2, IntervalIs
  <2>4. busy \in SUBSET (1..(MaxReplies + 1 + MaxReplays))
    BY <2>2
  <2> HIDE DEF busy
  <2>5. IsFiniteSet(busy) /\ Cardinality(busy) \in Nat
    BY <2>3, <2>4, FS_Subset, FS_CardinalityType
  <2>6. QED
    BY <1>1, <2>5, FS_EmptySet
<1>3. \A o \in Operators : task[o].at = "idle"
  BY <1>2 DEF At
<1>4. task[Startup].at = "idle"
  BY <1>1 DEF OnceInv, OneReplay, At
<1>5. QED
  BY <1>1, <1>3, <1>4, Kinds, OnceBegin

LEMMA OnceEndReplay == ASSUME OnceInv, NEW r \in Replays, EndReplay(r) PROVE OnceInv'
<1>1. /\ KeepInv /\ OneReplay /\ OneLetter /\ KeysShared /\ KeepInv'
  BY KeepEndReplay DEF OnceInv
<1>2. /\ letters' = letters \o skipped[r] /\ skipped' = [skipped EXCEPT ![r] = <<>>]
      /\ task' = [task EXCEPT ![r] = Idle] /\ task[r].at = "loop"
      /\ phase' = IF r = Startup THEN "serving" ELSE phase
      /\ UNCHANGED <<published, journal, cache, disk, delivered, doubts, lapsed>>
  BY DEF EndReplay, PutBack, At, files, history
<1>3. r \in Tasks /\ r \notin Replies /\ Put(r, "idle", 0) /\ phase # "down"
  BY <1>1, <1>2, IdlePut, Kinds, Ranges, Upright
<1>4. /\ skipped'[r] = <<>> /\ \A s \in Replays \ {r} : skipped'[s] = skipped[s]
  BY <1>1, <1>2, Ranges
<1>5. OneReplay' /\ phase' # "down"
  BY <1>1, <1>2, <1>3, <1>4, ReplayStep
<1>6. KeysShared' /\ lapsed \subseteq lapsed' /\ \A e \in ToSet(disk) : e \in ToSet(disk')
  BY <1>2, <1>3, KeysStep
<1>7. \A s \in Replays \ {r} : skipped[s] = <<>>
  BY <1>1, <1>2 DEF OneReplay, At
<1>8. IsInjective(letters') /\ ToSet(letters') = ToSet(letters) \cup ToSet(skipped[r])
  <2>1. letters \in Seq(Known) /\ skipped[r] \in Seq(Known)
    BY <1>1, Ranges
  <2>2. IsInjective(letters) /\ IsInjective(skipped[r]) /\ ToSet(letters) \cap ToSet(skipped[r]) = {}
    BY <1>1 DEF OneLetter
  <2>3. QED
    BY <1>2, <2>1, <2>2, ConcatIs
<1>9. \A s \in Replays : skipped'[s] = <<>> /\ ToSet(skipped'[s]) = {} /\ IsInjective(skipped'[s])
  <2>1. ToSet(<<>>) = {} /\ IsInjective(<<>>)
    BY DEF ToSet, IsInjective
  <2>2. QED
    BY <1>4, <1>7, <2>1
<1>10. OneLetter'
  <2>1. \A d \in ToSet(letters') : Free(d)
    BY <1>8, LettersFree
  <2>2. \A e \in Replies : task'[e].at # "idle" => e \notin journal'
    BY <1>1, <1>2, <1>3, HandlesPut, Kinds DEF OneLetter, At
  <2>3. QED
    BY <1>1, <1>2, <1>3, <1>8, <1>9, <2>1, <2>2, LetterMove
<1>11. ASSUME NEW e \in Replies, e \notin lapsed' PROVE Accounted(e)'
  <2>1. Accounted(e)
    BY <1>2, <1>11 DEF OnceInv
  <2>2. doubts' \in [Replies -> Nat] /\ doubts'[e] >= doubts[e] /\ delivered'[e] = delivered[e]
    BY <1>1, <1>2, Ranges
  <2>3. Gone(e) => Gone(e)'
    BY <1>2, <1>3, <1>8, <1>9, GoneStep
  <2>4. QED
    BY <1>1, <1>2, <1>3, <1>6, <1>11, <2>1, <2>2, <2>3, AccountStep
<1>12. QED
  BY <1>1, <1>2, <1>5, <1>6, <1>10, <1>11, OnceStep

\* The letter a replay takes next waits in the queue, is put aside, or is begun.
LEMMA OnceReplayNext == ASSUME OnceInv, NEW r \in Replays, ReplayNext(r) PROVE OnceInv'
<1>1. /\ KeepInv /\ OneReplay /\ OneLetter /\ KeysShared /\ KeepInv'
  BY KeepReplayNext DEF OnceInv
<1>2. /\ task[r].at = "loop"
      /\ UNCHANGED <<phase, published, cache, disk, delivered, doubts, lapsed>>
  BY NextIs
<1>3. PICK e : NextLetter(r, e)
  BY NextIs
<1>4. r \in Tasks /\ r \notin Replies /\ phase # "down"
  BY <1>2, Kinds, Upright
<1>5. KeysShared' /\ lapsed \subseteq lapsed' /\ \A d \in ToSet(disk) : d \in ToSet(disk')
  BY <1>2, <1>4, KeysStep
<1>6. doubts' \in [Replies -> Nat] /\ \A d \in Replies : doubts'[d] >= doubts[d] /\ delivered'[d] = delivered[d]
  BY <1>1, <1>2, Ranges
<1>7. journal' \subseteq journal
  BY <1>3 DEF NextLetter, Begin
<1>8. letters' \in {letters, RemoveFirst(letters, e)} /\ IsInjective(letters')
      /\ ToSet(letters') \subseteq ToSet(letters)
      /\ (letters' # letters => e \in ToSet(letters) /\ ToSet(letters') = ToSet(letters) \ {e})
  <2>1. letters \in Seq(Known) /\ IsInjective(letters)
    BY <1>1, Ranges DEF OneLetter
  <2>2. /\ ToSet(RemoveFirst(letters, e)) = ToSet(letters) \ {e}
        /\ IsInjective(RemoveFirst(letters, e))
    BY <2>1, RemoveIs
  <2>3. letters' = letters \/ (letters' = RemoveFirst(letters, e) /\ e \in ToSet(letters))
    BY <1>3 DEF NextLetter
  <2>4. CASE letters' = letters
    BY <2>1, <2>4
  <2>5. CASE letters' = RemoveFirst(letters, e) /\ e \in ToSet(letters)
    BY <2>2, <2>5
  <2>6. QED
    BY <2>3, <2>4, <2>5
<1>9. PICK p, g :
        /\ Put(r, p, g)
        /\ \/ p = "loop" /\ skipped' = skipped
           \/ /\ p = "loop" /\ e \in ToSet(letters) /\ letters' = RemoveFirst(letters, e)
              /\ skipped' = [skipped EXCEPT ![r] = Append(skipped[r], e)]
           \/ /\ p = "sending" /\ g = e /\ e \in ToSet(letters) /\ e \notin ToSet(cache)
              /\ letters' = RemoveFirst(letters, e) /\ skipped' = skipped
  <2>1. CASE task' = task
    <3>1. Put(r, "loop", task[r].reply)
      BY <1>1, <1>2, <1>4, <2>1, SamePut, Ranges
    <3>2. \/ skipped' = skipped
          \/ /\ e \in ToSet(letters) /\ letters' = RemoveFirst(letters, e)
             /\ skipped' = [skipped EXCEPT ![r] = Append(skipped[r], e)]
      BY <1>3 DEF NextLetter
    <3>3. QED
      BY <3>1, <3>2
  <2>2. CASE e \in ToSet(letters) /\ letters' = RemoveFirst(letters, e) /\ Begin(r, e) /\ skipped' = skipped
    <3>1. e \in Nat
      BY <1>1, <2>2, LettersFree, Kinds, Ranges
    <3>2. Put(r, "loop", 0) \/ (Put(r, "sending", e) /\ e \notin ToSet(cache))
      BY <1>1, <1>4, <2>2, <3>1, BeginPut, AfterIs, Ranges
    <3>3. QED
      BY <2>2, <3>2
  <2>3. QED
    BY <1>3, <2>1, <2>2 DEF NextLetter
<1>10. p \in {"loop", "sending"} /\ (p = "sending" => g = e /\ e \in ToSet(letters))
  BY <1>9
<1>11. OneReplay'
  <2>1. \A s \in Replays \ {r} : skipped'[s] = skipped[s]
    BY <1>1, <1>9, Ranges
  <2>2. QED
    BY <1>1, <1>2, <1>4, <1>9, <1>10, <2>1, ReplayStep
<1>12. /\ e \in ToSet(letters) =>
            e \in Known /\ Free(e) /\ \A s \in Replays : e \notin ToSet(skipped[s])
       /\ \A d \in ToSet(letters') : Free(d)
  BY <1>1, <1>8, LettersFree DEF OneLetter
<1>13. \A s \in Replays : /\ IsInjective(skipped'[s])
                          /\ ToSet(letters') \cap ToSet(skipped'[s]) = {}
                          /\ ToSet(skipped'[s]) \subseteq ToSet(skipped[s]) \cup ToSet(letters)
                          /\ \A d \in ToSet(skipped'[s]) : Free(d)
  <2>1. \A s \in Replays : /\ skipped[s] \in Seq(Known) /\ IsInjective(skipped[s])
                           /\ ToSet(letters) \cap ToSet(skipped[s]) = {}
                           /\ \A d \in ToSet(skipped[s]) : Free(d)
    BY <1>1, LettersFree, Ranges DEF OneLetter
  <2>2. CASE skipped' = skipped
    BY <1>8, <2>1, <2>2
  <2>3. CASE /\ e \in ToSet(letters) /\ letters' = RemoveFirst(letters, e)
             /\ skipped' = [skipped EXCEPT ![r] = Append(skipped[r], e)]
    <3>1. e \in Known /\ Free(e) /\ e \notin ToSet(skipped[r])
      BY <1>12, <2>3
    <3>2. /\ ToSet(Append(skipped[r], e)) = ToSet(skipped[r]) \cup {e}
          /\ IsInjective(Append(skipped[r], e))
      BY <2>1, <3>1, AppendIs
    <3>3. ToSet(letters') = ToSet(letters) \ {e}
      <4>1. letters \in Seq(Known) /\ IsInjective(letters)
        BY <1>1, Ranges DEF OneLetter
      <4>2. QED
        BY <2>3, <4>1, RemoveIs
    <3>4. \A s \in Replays : skipped'[s] = IF s = r THEN Append(skipped[r], e) ELSE skipped[s]
      BY <1>1, <2>3, Ranges
    <3>5. ASSUME NEW s \in Replays
          PROVE  /\ IsInjective(skipped'[s])
                 /\ ToSet(letters') \cap ToSet(skipped'[s]) = {}
                 /\ ToSet(skipped'[s]) \subseteq ToSet(skipped[s]) \cup ToSet(letters)
                 /\ \A d \in ToSet(skipped'[s]) : Free(d)
      <4>1. CASE s = r
        BY <2>1, <2>3, <3>1, <3>2, <3>3, <3>4, <4>1
      <4>2. CASE s # r
        BY <1>8, <2>1, <3>4, <4>2
      <4>3. QED
        BY <4>1, <4>2
    <3>6. QED
      BY <3>5
  <2>4. QED
    BY <1>9, <2>2, <2>3
<1>14. p = "sending" => /\ e \notin ToSet(letters') /\ \A s \in Replays : e \notin ToSet(skipped'[s])
  <2>1. letters \in Seq(Known) /\ IsInjective(letters)
    BY <1>1, Ranges DEF OneLetter
  <2>2. e \notin ToSet(RemoveFirst(letters, e))
    BY <2>1, RemoveIs
  <2>3. QED
    BY <1>9, <1>12, <2>2
<1>15. OneLetter'
  <2>1. \A d \in Replies : task'[d].at # "idle" => d \notin journal'
    BY <1>1, <1>4, <1>7, <1>9, HandlesPut, Kinds DEF OneLetter, At
  <2>2. p \notin {"idle", "loop"} =>
           Free(g) /\ g \notin ToSet(letters') /\ \A s \in Replays : g \notin ToSet(skipped'[s])
    BY <1>10, <1>12, <1>14
  <2>3. QED
    BY <1>1, <1>2, <1>4, <1>8, <1>9, <1>12, <1>13, <2>1, <2>2, LetterMove
<1>16. ASSUME NEW d \in Replies, d \notin lapsed' PROVE Accounted(d)'
  <2>1. Accounted(d)
    BY <1>2, <1>16 DEF OnceInv
  <2>2. Gone(d) => Gone(d)'
    BY <1>4, <1>7, <1>8, <1>9, <1>10, <1>13, GoneStep
  <2>3. p = "sending" /\ g = d => delivered[d] <= doubts'[d]
    <3>1. ASSUME p = "sending", g = d PROVE delivered[d] <= doubts[d]
      <4>1. d = e /\ e \in ToSet(letters) /\ e \notin ToSet(cache)
        BY <1>9, <3>1
      <4>2. d \notin ToSet(disk)
        BY <1>1, <1>2, <1>4, <1>16, <4>1 DEF KeysShared
      <4>3. ~Gone(d) /\ \A u \in Tasks : ~Handles(u, d)
        BY <1>12, <4>1 DEF Gone, Free
      <4>4. QED
        BY <2>1, <4>2, <4>3 DEF Accounted
    <3>2. QED
      BY <1>2, <3>1
  <2>4. QED
    BY <1>1, <1>2, <1>4, <1>5, <1>6, <1>9, <1>10, <1>16, <2>1, <2>2, <2>3, AccountStep
<1>17. QED
  BY <1>1, <1>2, <1>5, <1>6, <1>11, <1>15, <1>16, OnceStep

\* A key that lapses is forgotten in both places.
LEMMA OnceExpire == ASSUME OnceInv, Expire PROVE OnceInv'
<1>1. /\ KeepInv /\ OneReplay /\ OneLetter /\ KeysShared /\ KeepInv'
  BY KeepExpire DEF OnceInv
<1>2. PICK h : /\ cache' = Without(cache, h) /\ disk' = Without(disk, h) /\ lapsed' = lapsed \cup {h}
               /\ UNCHANGED <<phase, published, letters, skipped, journal, task, delivered, doubts>>
  BY DEF Expire
<1>3. /\ cache' \in Seq(Known) /\ Len(cache') <= Len(cache) /\ ToSet(cache') = ToSet(cache) \ {h}
      /\ disk' \in Seq(Known) /\ Len(disk') <= Len(disk) /\ ToSet(disk') = ToSet(disk) \ {h}
  BY <1>1, <1>2, WithoutIs, Ranges
<1>4. KeysShared'
  <2>1. /\ Len(cache) \in Nat /\ Len(disk) \in Nat /\ Len(cache') \in Nat /\ Len(disk') \in Nat
        /\ MaxEntries \in Nat
    BY <1>1, <1>3, Ranges, DeliveryAssumption
  <2>2. Len(cache') <= MaxEntries /\ Len(disk') <= MaxEntries
    BY <1>1, <1>3, <2>1 DEF KeysShared
  <2>3. phase' # "down" => ToSet(disk') \ ToSet(cache') \subseteq lapsed'
    BY <1>1, <1>2, <1>3 DEF KeysShared
  <2>4. QED
    BY <2>2, <2>3 DEF KeysShared
<1>5. OneReplay'
  <2>1. cache = <<>> => cache' = <<>>
    <3>1. cache = <<>> => Len(cache') <= 0
      BY <1>3
    <3>2. QED
      BY <1>3, <3>1
  <2>2. QED
    BY <1>1, <1>2, <2>1 DEF OneReplay, At
<1>6. OneLetter'
  BY <1>1, <1>2, SameKnown DEF OneLetter, Handles, At
<1>7. Startup \in Tasks /\ Put(Startup, task[Startup].at, task[Startup].reply)
  BY <1>1, <1>2, SamePut, Ranges, Kinds
<1>8. ASSUME NEW e \in Replies, e \notin lapsed' PROVE Accounted(e)'
  <2>1. Accounted(e) /\ e # h
    BY <1>2, <1>8 DEF OnceInv
  <2>2. doubts' \in [Replies -> Nat] /\ doubts'[e] >= doubts[e] /\ delivered'[e] = delivered[e]
    BY <1>1, <1>2, Ranges
  <2>3. Gone(e) => Gone(e)'
    BY <1>2 DEF Gone, Handles
  <2>4. e \in ToSet(disk) => e \in ToSet(disk')
    BY <1>3, <2>1
  <2>5. task[Startup].at \notin {"idle", "loop"} /\ task[Startup].reply = e => Handles(Startup, e)
    BY DEF Handles
  <2>6. task[Startup].at = "confirmed" /\ task[Startup].reply = e => e \in ToSet(disk')
    BY <1>7, <2>1, <2>4, <2>5 DEF Accounted
  <2>7. task[Startup].at = "arrived" /\ Handles(Startup, e) => task[Startup].reply = e
    BY DEF Handles
  <2>8. QED
    BY <1>1, <1>7, <2>1, <2>2, <2>3, <2>4, <2>5, <2>6, <2>7, AccountStep
<1>9. QED
  BY <1>1, <1>2, <1>4, <1>5, <1>6, <1>8, OnceStep

\* A crash cuts every send off; what had arrived is a delivery that is not recorded.
LEMMA OnceCrash == ASSUME OnceInv, Crash PROVE OnceInv'
<1>1. /\ KeepInv /\ OneReplay /\ OneLetter /\ KeysShared /\ KeepInv'
  BY KeepCrash DEF OnceInv
<1>2. /\ letters' = <<>> /\ cache' = <<>> /\ task' = [t \in Tasks |-> Idle] /\ phase' = "down"
      /\ skipped' = [r \in Replays |-> <<>>]
      /\ UNCHANGED <<published, journal, disk, delivered, lapsed>>
  BY DEF Crash, files
<1>3. ToSet(<<>>) = {} /\ IsInjective(<<>>) /\ Len(<<>>) = 0
  BY DEF ToSet, IsInjective
<1>4. \A t \in Tasks : task'[t].at = "idle" /\ \A e : ~Handles(t, e)'
  BY <1>2 DEF Idle, Handles
<1>5. OneReplay'
  BY <1>2, <1>4, Kinds DEF OneReplay, At
<1>6. OneLetter'
  <2>1. \A e \in Replies : task'[e].at = "idle"
    BY <1>4, Kinds
  <2>2. QED
    BY <1>2, <1>3, <1>4, <2>1 DEF OneLetter, At
<1>7. KeysShared'
  BY <1>1, <1>2, <1>3, DeliveryAssumption DEF KeysShared
<1>8. ASSUME NEW e \in Replies, e \notin lapsed' PROVE Accounted(e)'
  <2>1. Accounted(e)
    BY <1>2, <1>8 DEF OnceInv
  <2> DEFINE lost == {t \in Tasks : At(t, "arrived") /\ Reply(t) = e}
             n == doubts[e] + Cardinality(lost)
  <2>2. n \in Nat /\ n >= doubts[e] /\ (lost # {} => n >= doubts[e] + 1)
    BY <1>1, CrashDoubts
  <2>3. doubts'[e] = n
    BY DEF Crash
  <2>4. (\E t \in Tasks : Handles(t, e) /\ task[t].at = "arrived") => lost # {}
    BY DEF Handles, At, Reply
  <2> HIDE DEF n, lost
  <2>5. delivered[e] \in Nat /\ doubts[e] \in Nat /\ delivered'[e] = delivered[e]
    BY <1>1, <1>2, Ranges
  <2>6. delivered[e] <= doubts[e] + 1
    BY <2>1 DEF Accounted
  <2>7. delivered'[e] <= doubts'[e] + 1
    BY <2>2, <2>3, <2>5, <2>6
  <2>8. e \in ToSet(disk') \/ Gone(e)' \/ delivered'[e] <= doubts'[e]
    <3>1. CASE e \in ToSet(disk)
      BY <1>2, <3>1
    <3>2. CASE Gone(e)
      BY <1>2, <1>3, <1>4, <3>2 DEF Gone
    <3>3. CASE delivered[e] <= doubts[e]
      BY <2>2, <2>3, <2>5, <3>3
    <3>4. CASE \E t \in Tasks : Handles(t, e) /\ task[t].at = "arrived"
      BY <2>2, <2>3, <2>4, <2>5, <2>6, <3>4
    <3>5. QED
      BY <2>1, <3>1, <3>2, <3>3, <3>4 DEF Accounted
  <2>9. QED
    BY <1>4, <2>7, <2>8 DEF Accounted
<1>9. QED
  BY <1>1, <1>2, <1>5, <1>6, <1>7, <1>8, OnceStep

\* The idempotency keys do their work: a reply is delivered once, plus as often as a delivery
\* could not be recorded, until its key lapses.  For any replies and replays, limits, failures
\* and crashes, while an operator's replay ends before the next begins (without it the run
\* delivery_twice has two of them deliver the same reply).
THEOREM OnceTheorem == ASSUME AtOnce = 1 PROVE Spec => []DeliveredOnce
<1>1. Init => OnceInv
  <2> SUFFICES ASSUME Init PROVE OnceInv
    OBVIOUS
  <2>1. KeepInv
    BY KeepInit
  <2>2. /\ phase = "down" /\ letters = <<>> /\ cache = <<>> /\ disk = <<>>
        /\ task = [t \in Tasks |-> Idle] /\ skipped = [r \in Replays |-> <<>>]
        /\ delivered = [e \in Replies |-> 0] /\ doubts = [e \in Replies |-> 0]
    BY DEF Init
  <2>3. ToSet(<<>>) = {} /\ IsInjective(<<>>) /\ Len(<<>>) = 0
    BY DEF ToSet, IsInjective
  <2>4. \A t \in Tasks : task[t].at = "idle" /\ \A e : ~Handles(t, e)
    BY <2>2 DEF Idle, Handles
  <2>5. OneReplay
    BY <2>2, <2>4, Kinds DEF OneReplay, At
  <2>6. OneLetter
    <3>1. \A e \in Replies : task[e].at = "idle"
      BY <2>4, Kinds
    <3>2. QED
      BY <2>2, <2>3, <2>4, <3>1 DEF OneLetter, At
  <2>7. KeysShared
    BY <2>2, <2>3, DeliveryAssumption DEF KeysShared
  <2>8. \A e \in Replies : Accounted(e)
    BY <2>2, <2>4 DEF Accounted
  <2>9. QED
    BY <2>1, <2>2, <2>5, <2>6, <2>7, <2>8 DEF OnceInv
<1>2. OnceInv /\ [Next]_vars => OnceInv'
  <2> SUFFICES ASSUME OnceInv, [Next]_vars PROVE OnceInv'
    OBVIOUS
  <2>1. ASSUME NEW e \in Replies, Publish(e) \/ Cancel(e) PROVE OnceInv'
    BY <2>1, OncePublish, OnceCancel
  <2>2. ASSUME NEW t \in Tasks, Send(t) PROVE OnceInv'
    BY <2>2, OnceArrive, OnceConfirm, OnceClear, OnceSendRaises, OnceTryAgain DEF Send
  <2>3. ASSUME NEW t \in Tasks, SyncFails(t) \/ ClearFails(t) \/ BuryFails(t) PROVE OnceInv'
    BY <2>3, OnceSyncFails, OnceClearFails, OnceBuryFails
  <2>4. ASSUME NEW r \in Operators, NEW wanted, OperatorReplay(r, wanted) PROVE OnceInv'
    BY <2>4, OnceOperator
  <2>5. ASSUME NEW r \in Replays, Replay(r) PROVE OnceInv'
    BY <2>5, OnceReplayNext, OnceEndReplay DEF Replay
  <2>6. CASE Expire \/ Crash \/ Boot
    BY <2>6, OnceExpire, OnceCrash, OnceBoot
  <2>7. CASE UNCHANGED vars
    <3>1. UNCHANGED <<phase, published, letters, journal, cache, disk, task, skipped, delivered,
                      doubts, lapsed, cutOff, unsaved>>
      BY <2>7 DEF vars, memory, files, history
    <3>2. KeepInv /\ OneReplay /\ OneLetter /\ KeysShared /\ Known' = Known
      BY <3>1, SameKnown DEF OnceInv
    <3>3. KeepInv'
      BY <3>1, <3>2 DEF KeepInv, Typed, HandsRight, KeysEarned, NothingDropped, Known, At, Reply
    <3>4. OneReplay' /\ OneLetter' /\ KeysShared'
      BY <3>1, <3>2 DEF OneReplay, OneLetter, KeysShared, Handles, At
    <3>5. \A e \in Replies : e \notin lapsed' => Accounted(e)'
      BY <3>1 DEF OnceInv, Accounted, Gone, Handles
    <3>6. QED
      BY <3>1, <3>3, <3>4, <3>5, OnceStep
  <2>8. QED
    BY <2>1, <2>2, <2>3, <2>4, <2>5, <2>6, <2>7 DEF Next
<1>3. OnceInv => DeliveredOnce
  <2> SUFFICES ASSUME OnceInv, NEW e \in Replies, e \notin lapsed
               PROVE  delivered[e] <= 1 + doubts[e]
    BY DEF DeliveredOnce
  <2>1. delivered[e] <= doubts[e] + 1 /\ doubts[e] \in Nat
    BY Ranges DEF OnceInv, Accounted
  <2>2. QED
    BY <2>1
<1>4. QED
  BY <1>1, <1>2, <1>3, PTL DEF Spec

================================================================================
