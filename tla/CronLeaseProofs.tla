---------------------------- MODULE CronLeaseProofs ----------------------------
(***************************************************************************)
(* Proofs about CronLease for any jobs, instances and tokens, and any      *)
(* number of stops and crashes.                                            *)
(***************************************************************************)
EXTENDS CronLease, TLAPS

\* No edit, no callback that outlives its lease, and not both a run_job and a stop.
Undisturbed == MaxEdits = 0 /\ ~SlowCallbacks /\ (MaxManual = 0 \/ MaxStops = 0)

\* The types the proofs need: what an instance has in memory and plans is left open.
Typed ==
  /\ store \in Rows /\ live \subseteq Tokens /\ owner \in [Tokens -> Instances \union {NoOwner}]
  /\ plan = [i \in Instances |-> plan[i]] /\ claim = [i \in Instances |-> claim[i]]
  /\ lease \in [Instances -> Tokens \union {NoToken}]
  /\ runs \subseteq Runs
  /\ manuals \in Nat /\ edits \in Nat /\ stops \in Nat /\ crashes \in Nat
  /\ successes \in [RunOnce -> Nat]

\* With no edits nothing is saved but by claims, commits, sweeps and stops.
NothingSaved == saver = [i \in Instances |-> "idle"]

\* The runs that may commit: not those of a stopped loop.
Valid == {r \in runs : r.by # "lost"}
Got(i) == claim[i] = "got"

\* A claim that got a lease has its token.
ClaimInv == \A i \in Instances :
  /\ Got(i) => lease[i] \in Tokens /\ Head(plan[i]) \in Jobs
  /\ ~Got(i) => lease[i] = NoToken

\* Tokens are held by one run or one claim, which is of the instance that owns it.
HolderInv ==
  /\ \A r, s \in runs : r.token = s.token => r = s
  /\ \A i, k \in Instances : Got(i) /\ lease[i] = lease[k] => i = k
  /\ \A i \in Instances, r \in runs : Got(i) => lease[i] # r.token
  /\ \A r \in runs : r.token \in live /\ owner[r.token] = r.inst
  /\ \A i \in Instances : Got(i) => lease[i] \in live /\ owner[lease[i]] = i

\* Only a run that has ended is lost, and a run_job is never between stops.
LostInv ==
  /\ \A r \in runs : r.by = "lost" => r.at # "running"
  /\ \A r \in runs : r.by = "manual" => MaxStops = 0

\* The row of a job shows the token of the run or the claim that is valid.
RowInv ==
  /\ \A r \in Valid : r.job \in DOMAIN store => store[r.job].token = r.token
  /\ \A i \in Instances : Got(i) /\ Head(plan[i]) \in DOMAIN store =>
                            store[Head(plan[i])].token = lease[i]

\* A job has one valid run or claim.
JobInv ==
  /\ \A r, s \in Valid : r.job = s.job => r = s
  /\ \A i, k \in Instances : Got(i) /\ Got(k) /\ Head(plan[i]) = Head(plan[k]) => i = k
  /\ \A i \in Instances, r \in Valid : Got(i) => Head(plan[i]) # r.job

\* A run_once job that has succeeded as often as it may is removed or about to be.
OnceInv == \A j \in RunOnce :
  /\ successes[j] <= 1 + stops + crashes
  /\ successes[j] = 1 + stops + crashes =>
       /\ \A r \in Valid : r.job = j => r.at = "ok"
       /\ \A i \in Instances : Got(i) => Head(plan[i]) # j
       /\ j \in DOMAIN store => \E r \in Valid : r.job = j /\ r.at = "ok"

LeaseInv ==
  Typed /\ NothingSaved /\ ClaimInv /\ HolderInv /\ LostInv /\ RowInv /\ JobInv /\ OnceInv

-------------------------------------------------------------------------------
(* The rows of the file.                                                       *)

LEMMA RowsTyped ==
  ASSUME NEW s \in Rows
  PROVE  DOMAIN s \subseteq Jobs /\ s \in [DOMAIN s -> Row]
BY DEF Rows

LEMMA TypedRows ==
  ASSUME NEW D \in SUBSET Jobs, NEW s \in [D -> Row]
  PROVE  s \in Rows
BY DEF Rows

\* Rows taken away are rows, and the others stay what they are.
LEMMA FewerRows ==
  ASSUME NEW s \in Rows, NEW gone
  PROVE  /\ Without(s, gone) \in Rows /\ DOMAIN Without(s, gone) = DOMAIN s \ gone
         /\ \A j \in DOMAIN s \ gone : Without(s, gone)[j] = s[j]
<1>1. DOMAIN s \subseteq Jobs /\ s \in [DOMAIN s -> Row]
  BY RowsTyped
<1>2. Without(s, gone) \in [DOMAIN s \ gone -> Row]
  BY <1>1 DEF Without
<1>3. QED
  BY <1>1, <1>2, TypedRows DEF Without

\* One row may be written.
LEMMA WrittenRow ==
  ASSUME NEW s \in Rows, NEW j \in DOMAIN s, NEW row \in Row
  PROVE  /\ [s EXCEPT ![j] = row] \in Rows /\ DOMAIN [s EXCEPT ![j] = row] = DOMAIN s
         /\ \A k \in DOMAIN s : [s EXCEPT ![j] = row][k] = IF k = j THEN row ELSE s[k]
<1>1. DOMAIN s \subseteq Jobs /\ s \in [DOMAIN s -> Row]
  BY RowsTyped
<1>2. [s EXCEPT ![j] = row] \in [DOMAIN s -> Row]
  BY <1>1
<1>3. QED
  BY <1>1, <1>2, TypedRows

\* The rows with these tokens.
Retokened(s, f) == [j \in DOMAIN s |-> [s[j] EXCEPT !.token = f[j]]]

LEMMA RetokenedRows ==
  ASSUME NEW s \in Rows, NEW f \in [DOMAIN s -> Tokens \union {NoToken}]
  PROVE  /\ Retokened(s, f) \in Rows /\ DOMAIN Retokened(s, f) = DOMAIN s
         /\ \A j \in DOMAIN s : /\ Retokened(s, f)[j].token = f[j]
                               /\ Retokened(s, f)[j].enabled = s[j].enabled
                               /\ Retokened(s, f)[j].next = s[j].next
<1>1. DOMAIN s \subseteq Jobs /\ s \in [DOMAIN s -> Row]
  BY RowsTyped
<1>2. ASSUME NEW j \in DOMAIN s
      PROVE  /\ [s[j] EXCEPT !.token = f[j]] \in Row
             /\ [s[j] EXCEPT !.token = f[j]].token = f[j]
             /\ [s[j] EXCEPT !.token = f[j]].enabled = s[j].enabled
             /\ [s[j] EXCEPT !.token = f[j]].next = s[j].next
  <2>1. s[j] \in Row /\ f[j] \in Tokens \union {NoToken}
    BY <1>1, <1>2
  <2>2. QED
    BY <2>1 DEF Row
<1>3. Retokened(s, f) \in [DOMAIN s -> Row]
  BY <1>2 DEF Retokened
<1>4. QED
  BY <1>1, <1>2, <1>3, TypedRows DEF Retokened

\* Due rows keep their leases.
LEMMA DueRows ==
  ASSUME NEW s \in Rows, NEW j
  PROVE  /\ DueNow(s, j) \in Rows /\ DOMAIN DueNow(s, j) = DOMAIN s
         /\ \A k \in DOMAIN s : /\ DueNow(s, j)[k].token = s[k].token
                                /\ DueNow(s, j)[k].enabled = s[k].enabled
<1>1. DOMAIN s \subseteq Jobs /\ s \in [DOMAIN s -> Row]
  BY RowsTyped
<1>2. CASE j \in DOMAIN s /\ s[j].next = "later"
  <2> DEFINE row == [s[j] EXCEPT !.next = "due"]
  <2>1. s[j] \in Row
    BY <1>1, <1>2
  <2>2. row \in Row /\ row.token = s[j].token /\ row.enabled = s[j].enabled
    BY <2>1 DEF Row
  <2>3. DueNow(s, j) = [s EXCEPT ![j] = row]
    BY <1>2 DEF DueNow
  <2> HIDE DEF row
  <2> DEFINE c == [s EXCEPT ![j] = row]
  <2>4. /\ c \in Rows /\ DOMAIN c = DOMAIN s
        /\ \A k \in DOMAIN s : c[k] = IF k = j THEN row ELSE s[k]
    BY <1>2, <2>2, WrittenRow
  <2> HIDE DEF c
  <2>5. \A k \in DOMAIN s : c[k].token = s[k].token /\ c[k].enabled = s[k].enabled
    BY <2>2, <2>4
  <2>6. QED
    BY <2>3, <2>4, <2>5 DEF c
<1>3. CASE ~(j \in DOMAIN s /\ s[j].next = "later")
  BY <1>3 DEF DueNow
<1>4. QED
  BY <1>2, <1>3

\* A new token is nobody's.
LEMMA NewTokenIsNew ==
  ASSUME Fresh # {}
  PROVE  /\ NewToken \in Tokens /\ NewToken \notin live
         /\ \A j \in DOMAIN store : store[j].token # NewToken
         /\ \A i \in Instances : lease[i] # NewToken
         /\ \A r \in runs : r.token # NewToken
<1>1. NewToken \in Fresh
  BY DEF NewToken
<1>2. NewToken \in Tokens /\ NewToken \notin InUse
  BY <1>1 DEF Fresh
<1>3. QED
  BY <1>2 DEF InUse, TokensIn

-------------------------------------------------------------------------------
(* The steps that touch no run and no claim that has a lease.                  *)

\* Rows may go, be due, or lose a lease that nobody holds.
LEMMA RowsChange ==
  ASSUME LeaseInv, store' \in Rows, saver' = saver,
         UNCHANGED <<live, owner, loops, runs, bounds, successes>>,
         DOMAIN store' \subseteq DOMAIN store,
         \A j \in DOMAIN store' : store[j].token \in live => store'[j].token = store[j].token
  PROVE  LeaseInv'
<1>1. Typed'
  BY DEF LeaseInv, Typed, loops, bounds
<1>2. NothingSaved' /\ ClaimInv' /\ HolderInv' /\ LostInv' /\ JobInv'
  BY DEF LeaseInv, NothingSaved, ClaimInv, HolderInv, LostInv, JobInv, Valid, Got, loops
<1>3. RowInv'
  BY DEF LeaseInv, RowInv, HolderInv, Valid, Got, loops
<1>4. OnceInv'
  BY DEF LeaseInv, OnceInv, Valid, Got, loops, bounds
<1>5. QED
  BY <1>1, <1>2, <1>3, <1>4 DEF LeaseInv

\* A claim without a lease is asked for, refused or dropped.
LEMMA ClaimMoves ==
  ASSUME LeaseInv, NEW i \in Instances, ~Got(i), NEW c, c # "got", NEW p,
         claim' = [claim EXCEPT ![i] = c], plan' = [plan EXCEPT ![i] = p],
         UNCHANGED <<files, lease, saver, runs, bounds, successes>>
  PROVE  LeaseInv'
<1>1. /\ \A k \in Instances : Got(k)' => Got(k) /\ plan'[k] = plan[k]
      /\ \A k \in Instances : Got(k) => Got(k)'
  BY DEF LeaseInv, Typed, Got
<1>2. Typed'
  BY DEF LeaseInv, Typed, files, bounds
<1>3. NothingSaved' /\ ClaimInv'
  BY <1>1 DEF LeaseInv, NothingSaved, ClaimInv
<1>4. HolderInv' /\ LostInv'
  BY <1>1 DEF LeaseInv, HolderInv, LostInv, files
<1>5. RowInv' /\ JobInv'
  BY <1>1 DEF LeaseInv, RowInv, JobInv, Valid, files
<1>6. OnceInv'
  BY <1>1 DEF LeaseInv, OnceInv, Valid, files, bounds
<1>7. QED
  BY <1>2, <1>3, <1>4, <1>5, <1>6 DEF LeaseInv

\* A lease expires that nobody holds.
LEMMA ExpireKeeps ==
  ASSUME LeaseInv, ~SlowCallbacks, NEW t \in Tokens, Expire(t)
  PROVE  LeaseInv'
<1>1. /\ ~Held(t) /\ live' = live \ {t}
      /\ store' = Cleared(store, t) /\ owner' = [owner EXCEPT ![t] = NoOwner]
      /\ UNCHANGED <<loops, saver, runs, bounds, successes>>
  BY DEF Expire
<1>2. (\A r \in runs : r.token # t) /\ \A i \in Instances : lease[i] # t
  BY <1>1 DEF Held
<1>3. /\ store' \in Rows /\ DOMAIN store' = DOMAIN store
      /\ \A j \in DOMAIN store : store'[j].token = IF store[j].token = t THEN NoToken ELSE store[j].token
  <2> DEFINE f == [j \in DOMAIN store |-> IF store[j].token = t THEN NoToken ELSE store[j].token]
  <2>1. store \in Rows /\ DOMAIN store \subseteq Jobs /\ store \in [DOMAIN store -> Row]
    BY RowsTyped DEF LeaseInv, Typed
  <2>2. f \in [DOMAIN store -> Tokens \union {NoToken}]
    BY <2>1 DEF Row
  <2>3. store' = Retokened(store, f)
    BY <1>1, <2>1 DEF Cleared, Row, Retokened
  <2>4. \A j \in DOMAIN store : f[j] = IF store[j].token = t THEN NoToken ELSE store[j].token
    OBVIOUS
  <2> HIDE DEF f
  <2>5. QED
    BY <2>1, <2>2, <2>3, <2>4, RetokenedRows
<1>4. Typed'
  BY <1>1, <1>3 DEF LeaseInv, Typed, loops, bounds
<1>5. NothingSaved' /\ ClaimInv' /\ LostInv' /\ JobInv'
  BY <1>1 DEF LeaseInv, NothingSaved, ClaimInv, LostInv, JobInv, Valid, Got, loops
<1>6. HolderInv'
  <2>1. \A u \in Tokens : u # t => owner'[u] = owner[u]
    BY <1>1 DEF LeaseInv, Typed
  <2>2. (\A r \in runs : r.token \in Tokens) /\ \A i \in Instances : Got(i) => lease[i] \in Tokens
    BY DEF LeaseInv, Typed, Runs, ClaimInv
  <2>3. QED
    BY <1>1, <1>2, <2>1, <2>2 DEF LeaseInv, HolderInv, Got, loops
<1>7. RowInv'
  BY <1>1, <1>2, <1>3 DEF LeaseInv, RowInv, Valid, Got, loops
<1>8. OnceInv'
  BY <1>1, <1>3 DEF LeaseInv, OnceInv, Valid, Got, loops, bounds
<1>9. QED
  BY <1>4, <1>5, <1>6, <1>7, <1>8 DEF LeaseInv

-------------------------------------------------------------------------------
(* Claims and runs.                                                            *)

\* What a lease does to the file: the row of the job shows a new token, and nobody
\* held the job before.
LEMMA LeaseWritten ==
  ASSUME LeaseInv, NEW i \in Instances, NEW j \in DOMAIN store, store[j].token \notin live,
         Fresh # {}, WriteLease(i, j, NewToken)
  PROVE  /\ j \in Jobs /\ NewToken \in Tokens
         /\ store' \in Rows /\ DOMAIN store' = DOMAIN store
         /\ \A k \in DOMAIN store : store'[k].token = IF k = j THEN NewToken ELSE store[k].token
         /\ live' = live \union {NewToken}
         /\ \A t \in Tokens : owner'[t] = IF t = NewToken THEN i ELSE owner[t]
         /\ owner' \in [Tokens -> Instances \union {NoOwner}]
         /\ \A r \in Valid : r.job # j
         /\ \A k \in Instances : Got(k) => Head(plan[k]) # j
         /\ \A k \in Instances : lease[k] # NewToken
         /\ \A r \in runs : r.token # NewToken
<1>1. store \in Rows /\ DOMAIN store \subseteq Jobs /\ store \in [DOMAIN store -> Row]
  BY RowsTyped DEF LeaseInv, Typed
<1>2. j \in DOMAIN store /\ store[j].token \notin live
  OBVIOUS
<1>3. NewToken \in Tokens
  BY NewTokenIsNew
<1>4. /\ store' \in Rows /\ DOMAIN store' = DOMAIN store
      /\ \A k \in DOMAIN store : store'[k].token = IF k = j THEN NewToken ELSE store[k].token
  <2> DEFINE row == [store[j] EXCEPT !.token = NewToken]
  <2>1. store[j] \in Row
    BY <1>1, <1>2
  <2>2. row \in Row /\ row.token = NewToken
    BY <1>3, <2>1 DEF Row
  <2>3. store' = [store EXCEPT ![j] = row]
    BY DEF WriteLease
  <2> HIDE DEF row
  <2>4. /\ store' \in Rows /\ DOMAIN store' = DOMAIN store
        /\ \A k \in DOMAIN store : store'[k] = IF k = j THEN row ELSE store[k]
    BY <1>1, <1>2, <2>2, <2>3, WrittenRow
  <2>5. QED
    BY <2>2, <2>4
<1>5. \A r \in Valid : r.job # j
  BY <1>2 DEF LeaseInv, RowInv, HolderInv, Valid
<1>6. \A k \in Instances : Got(k) => Head(plan[k]) # j
  BY <1>2 DEF LeaseInv, RowInv, HolderInv
<1>7. /\ live' = live \union {NewToken} /\ owner' = [owner EXCEPT ![NewToken] = i]
      /\ owner \in [Tokens -> Instances \union {NoOwner}]
  BY DEF WriteLease, LeaseInv, Typed
<1>8. QED
  BY <1>1, <1>2, <1>3, <1>4, <1>5, <1>6, <1>7, NewTokenIsNew

\* The claim's thread gets a lease for the loop, or for nobody.
LEMMA ClaimThreadKeeps ==
  ASSUME LeaseInv, NEW i \in Instances, ClaimThread(i)
  PROVE  LeaseInv'
<1>1. ~Got(i) /\ UNCHANGED <<saver, runs, bounds, successes>>
  BY DEF ClaimThread, Got, saves
<1>2. CASE ~Claimable(Head(plan[i]), TRUE, FALSE)
  <2> DEFINE rest == IF claim[i] = "asked" THEN Tail(plan[i]) ELSE <<>>
             c == IF rest = <<>> THEN "idle" ELSE "asked"
  <2>1. /\ plan' = [plan EXCEPT ![i] = rest] /\ claim' = [claim EXCEPT ![i] = c]
        /\ UNCHANGED <<files, lease>>
    BY <1>2 DEF ClaimThread, NextClaim
  <2>2. c # "got"
    OBVIOUS
  <2> HIDE DEF rest, c
  <2>3. QED
    BY <1>1, <2>1, <2>2, ClaimMoves
<1>3. CASE Claimable(Head(plan[i]), TRUE, FALSE)
  <2> DEFINE j == Head(plan[i])
             t == NewToken
  <2>1. j \in DOMAIN store /\ store[j].token \notin live /\ Fresh # {} /\ WriteLease(i, j, t)
    BY <1>3 DEF ClaimThread, Claimable
  <2>2. /\ j \in Jobs /\ t \in Tokens
        /\ store' \in Rows /\ DOMAIN store' = DOMAIN store
        /\ \A k \in DOMAIN store : store'[k].token = IF k = j THEN t ELSE store[k].token
        /\ live' = live \union {t}
        /\ \A u \in Tokens : owner'[u] = IF u = t THEN i ELSE owner[u]
        /\ owner' \in [Tokens -> Instances \union {NoOwner}]
        /\ \A r \in Valid : r.job # j
        /\ \A k \in Instances : Got(k) => Head(plan[k]) # j
        /\ \A k \in Instances : lease[k] # t
        /\ \A r \in runs : r.token # t
    BY <1>3, <2>1, LeaseWritten
  <2>3. /\ \A r \in runs : r.token \in Tokens
        /\ \A k \in Instances : Got(k) => lease[k] \in Tokens
    BY DEF LeaseInv, Typed, Runs, ClaimInv
  <2>4. \/ /\ claim' = [claim EXCEPT ![i] = "got"] /\ plan' = plan /\ lease' = [lease EXCEPT ![i] = t]
        \/ NextClaim(i, <<>>) /\ lease' = lease
    BY <1>3 DEF ClaimThread
  <2> HIDE DEF j, t
  <2>5. NothingSaved' /\ LostInv'
    BY <1>1 DEF LeaseInv, NothingSaved, LostInv
  <2>6. CASE NextClaim(i, <<>>) /\ lease' = lease
    <3>1. /\ claim' = [claim EXCEPT ![i] = "idle"] /\ plan' = [plan EXCEPT ![i] = <<>>]
          /\ lease' = lease
      BY <2>6 DEF NextClaim
    <3>2. \A k \in Instances : (Got(k)' <=> Got(k)) /\ (Got(k) => plan'[k] = plan[k])
      BY <1>1, <3>1 DEF LeaseInv, Typed, Got
    <3>3. Typed'
      BY <1>1, <2>2, <3>1 DEF LeaseInv, Typed, bounds
    <3>4. ClaimInv' /\ HolderInv'
      BY <1>1, <2>2, <2>3, <3>1, <3>2 DEF LeaseInv, ClaimInv, HolderInv
    <3>5. RowInv' /\ JobInv'
      BY <1>1, <2>2, <3>1, <3>2 DEF LeaseInv, RowInv, JobInv, Valid
    <3>6. OnceInv'
      BY <1>1, <2>2, <3>2 DEF LeaseInv, OnceInv, Valid, bounds
    <3>7. QED
      BY <2>5, <3>3, <3>4, <3>5, <3>6 DEF LeaseInv
  <2>7. CASE /\ claim' = [claim EXCEPT ![i] = "got"] /\ plan' = plan /\ lease' = [lease EXCEPT ![i] = t]
    <3>1. \A k \in Instances : /\ Got(k)' <=> (k = i \/ Got(k))
                              /\ lease'[k] = IF k = i THEN t ELSE lease[k]
      BY <1>1, <2>7 DEF LeaseInv, Typed, Got
    <3>2. Typed'
      BY <1>1, <2>2, <2>7 DEF LeaseInv, Typed, bounds
    <3>3. ClaimInv'
      BY <1>1, <2>2, <2>7, <3>1 DEF LeaseInv, ClaimInv, j
    <3>4. HolderInv'
      BY <1>1, <2>2, <2>3, <3>1 DEF LeaseInv, HolderInv
    <3>5. RowInv'
      BY <1>1, <2>2, <2>7, <3>1 DEF LeaseInv, RowInv, Valid, j
    <3>6. JobInv'
      BY <1>1, <2>2, <2>7, <3>1 DEF LeaseInv, JobInv, Valid, j
    <3>7. OnceInv'
      <4>1. ASSUME NEW k \in RunOnce, successes[k] = 1 + stops + crashes PROVE k # j
        BY <2>1, <2>2, <4>1 DEF LeaseInv, OnceInv
      <4>2. QED
        BY <1>1, <2>2, <2>7, <3>1, <4>1 DEF LeaseInv, OnceInv, Valid, bounds, j
    <3>8. QED
      BY <2>5, <3>2, <3>3, <3>4, <3>5, <3>6, <3>7 DEF LeaseInv
  <2>8. QED
    BY <2>4, <2>6, <2>7
<1>4. QED
  BY <1>2, <1>3

\* The task of a claim is created; no older one of the job was there.
LEMMA StartRunKeeps ==
  ASSUME LeaseInv, NEW i \in Instances, StartRun(i)
  PROVE  LeaseInv'
<1> DEFINE j == Head(plan[i])
           new == Run(i, j, lease[i], "loop")
           c == IF Tail(plan[i]) = <<>> THEN "idle" ELSE "asked"
<1>1. /\ Got(i) /\ lease' = [lease EXCEPT ![i] = NoToken]
      /\ plan' = [plan EXCEPT ![i] = Tail(plan[i])]
      /\ claim' = [claim EXCEPT ![i] = c]
      /\ UNCHANGED <<files, saver, bounds, successes>>
  BY DEF StartRun, NextClaim, Got, saves
<1>2. /\ claim' = [k \in Instances |-> claim'[k]] /\ claim'[i] # "got"
      /\ \A k \in Instances : k # i => claim'[k] = claim[k]
  BY <1>1 DEF LeaseInv, Typed
<1>3. /\ j \in Jobs /\ lease[i] \in Tokens /\ lease[i] # NoToken /\ lease[i] \in live /\ owner[lease[i]] = i
      /\ \A r \in Valid : r.job # j
      /\ \A r \in runs : r.token # lease[i]
      /\ \A k \in Instances : Got(k) /\ k # i => Head(plan[k]) # j /\ lease[k] # lease[i]
      /\ j \in DOMAIN store => store[j].token = lease[i]
  BY <1>1, CronAssumption DEF LeaseInv, ClaimInv, HolderInv, JobInv, RowInv
<1>4. /\ new \in Runs /\ new.token = lease[i] /\ new.job = j /\ new.inst = i
      /\ new.by = "loop" /\ new.at = "running"
  BY <1>3 DEF Runs, Run
<1>5. runs' = runs \union {new}
  <2>1. \A r \in runs : ~(r \in Tracked(i) /\ r.job = j)
    BY <1>3 DEF Tracked, Valid
  <2>2. runs' = {IF r \in Tracked(i) /\ r.job = j THEN [r EXCEPT !.by = "lost"] ELSE r : r \in runs} \union {new}
    BY DEF StartRun
  <2> HIDE DEF new, j
  <2>3. {IF r \in Tracked(i) /\ r.job = j THEN [r EXCEPT !.by = "lost"] ELSE r : r \in runs} = runs
    BY <2>1
  <2>4. QED
    BY <2>2, <2>3
<1>6. /\ ~Got(i)' /\ lease'[i] = NoToken
      /\ \A k \in Instances : k # i => (Got(k)' <=> Got(k)) /\ plan'[k] = plan[k] /\ lease'[k] = lease[k]
  BY <1>1, <1>2 DEF LeaseInv, Typed, Got
<1> HIDE DEF c
<1> HIDE DEF new
<1> HIDE DEF j
<1>7. Valid' = Valid \union {new}
  BY <1>4, <1>5 DEF Valid
<1>8. Typed'
  BY <1>1, <1>4, <1>5 DEF LeaseInv, Typed, files, bounds
<1>9. NothingSaved' /\ ClaimInv'
  BY <1>1, <1>6 DEF LeaseInv, NothingSaved, ClaimInv
<1>10. HolderInv'
  <2>1. /\ \A r, s \in runs' : r.token = s.token => r = s
        /\ \A r \in runs' : r.token \in live /\ owner[r.token] = r.inst
    BY <1>3, <1>4, <1>5 DEF LeaseInv, HolderInv
  <2>2. /\ \A a, k \in Instances : Got(a)' /\ lease'[a] = lease'[k] => a = k
        /\ \A a \in Instances : Got(a)' => lease[a] \in live /\ owner[lease[a]] = a
    BY <1>1, <1>3, <1>6, CronAssumption DEF LeaseInv, HolderInv, ClaimInv
  <2>3. \A a \in Instances, r \in runs' : Got(a)' => lease'[a] # r.token
    BY <1>3, <1>4, <1>5, <1>6 DEF LeaseInv, HolderInv
  <2>4. QED
    BY <1>1, <1>6, <2>1, <2>2, <2>3 DEF HolderInv, files
<1>11. LostInv'
  BY <1>4, <1>5 DEF LeaseInv, LostInv
<1>12. RowInv'
  BY <1>1, <1>3, <1>4, <1>6, <1>7 DEF LeaseInv, RowInv, files
<1>13. JobInv'
  BY <1>3, <1>4, <1>6, <1>7 DEF LeaseInv, JobInv
<1>14. OnceInv'
  <2>1. ASSUME NEW k \in RunOnce, successes[k] = 1 + stops + crashes PROVE k # j
    BY <1>1, <2>1 DEF LeaseInv, OnceInv, j
  <2>2. QED
    BY <1>1, <1>4, <1>6, <1>7, <2>1 DEF LeaseInv, OnceInv, files, bounds
<1>15. QED
  BY <1>8, <1>9, <1>10, <1>11, <1>12, <1>13, <1>14 DEF LeaseInv

\* run_job runs a job nobody has.
LEMMA RunManuallyKeeps ==
  ASSUME LeaseInv, Undisturbed, NEW i \in Instances, NEW j \in Jobs, NEW force \in BOOLEAN,
         RunManually(i, j, force)
  PROVE  LeaseInv'
<1> DEFINE t == NewToken
           new == Run(i, j, t, "manual")
<1>1. /\ j \in DOMAIN store /\ store[j].token \notin live /\ Fresh # {} /\ WriteLease(i, j, t)
      /\ runs' = runs \union {new} /\ manuals' = manuals + 1 /\ manuals < MaxManual
      /\ UNCHANGED <<loops, saver, edits, stops, crashes, successes>>
  BY DEF RunManually, Claimable, saves
<1>2. /\ t \in Tokens
      /\ store' \in Rows /\ DOMAIN store' = DOMAIN store
      /\ \A k \in DOMAIN store : store'[k].token = IF k = j THEN t ELSE store[k].token
      /\ live' = live \union {t}
      /\ \A u \in Tokens : owner'[u] = IF u = t THEN i ELSE owner[u]
      /\ owner' \in [Tokens -> Instances \union {NoOwner}]
      /\ \A r \in Valid : r.job # j
      /\ \A k \in Instances : Got(k) => Head(plan[k]) # j
      /\ \A k \in Instances : lease[k] # t
      /\ \A r \in runs : r.token # t
  BY <1>1, LeaseWritten
<1>3. /\ \A r \in runs : r.token \in Tokens
      /\ \A k \in Instances : Got(k) => lease[k] \in Tokens
  BY DEF LeaseInv, Typed, Runs, ClaimInv
<1>4. /\ new \in Runs /\ new.token = t /\ new.job = j /\ new.inst = i
      /\ new.by = "manual" /\ new.at = "running"
  BY <1>2 DEF Runs, Run
<1>5. MaxStops = 0
  BY <1>1 DEF Undisturbed, LeaseInv, Typed
<1> HIDE DEF t, new
<1>6. Valid' = Valid \union {new}
  BY <1>1, <1>4 DEF Valid
<1>7. Typed'
  BY <1>1, <1>2, <1>4 DEF LeaseInv, Typed, loops
<1>8. NothingSaved' /\ ClaimInv'
  BY <1>1 DEF LeaseInv, NothingSaved, ClaimInv, Got, loops
<1>9. HolderInv'
  BY <1>1, <1>2, <1>3, <1>4 DEF LeaseInv, HolderInv, Got, loops
<1>10. LostInv'
  BY <1>1, <1>4, <1>5 DEF LeaseInv, LostInv
<1>11. RowInv'
  BY <1>1, <1>2, <1>4, <1>6 DEF LeaseInv, RowInv, Got, loops
<1>12. JobInv'
  BY <1>1, <1>2, <1>4, <1>6 DEF LeaseInv, JobInv, Got, loops
<1>13. OnceInv'
  <2>1. ASSUME NEW k \in RunOnce, successes[k] = 1 + stops + crashes PROVE k # j
    BY <1>1, <1>2, <2>1 DEF LeaseInv, OnceInv
  <2>2. QED
    BY <1>1, <1>2, <1>4, <1>6, <2>1 DEF LeaseInv, OnceInv, Got, loops
<1>14. QED
  BY <1>7, <1>8, <1>9, <1>10, <1>11, <1>12, <1>13 DEF LeaseInv

\* A callback that ends was the only valid one of its job.
LEMMA CallbackEndsKeeps ==
  ASSUME LeaseInv, NEW r \in runs, NEW ok \in BOOLEAN, CallbackEnds(r, ok)
  PROVE  LeaseInv'
<1> DEFINE at == IF ok THEN "ok" ELSE "failed"
           new == [r EXCEPT !.at = at]
<1>1. /\ r.at = "running" /\ runs' = (runs \ {r}) \union {new}
      /\ successes' = IF ok /\ r.job \in RunOnce THEN [successes EXCEPT ![r.job] = @ + 1] ELSE successes
      /\ UNCHANGED <<files, loops, saver, bounds>>
  BY DEF CallbackEnds, saves
<1>2. r \in Runs
  BY DEF LeaseInv, Typed
<1>3. /\ new \in Runs /\ new.token = r.token /\ new.job = r.job /\ new.inst = r.inst /\ new.by = r.by
      /\ new.at = at
  BY <1>2 DEF Runs
<1>4. r \in Valid
  BY <1>1 DEF LeaseInv, LostInv, Valid
<1>5. at \in {"ok", "failed"} /\ (at = "ok" <=> ok)
  OBVIOUS
<1> HIDE DEF at, new
<1>6. Valid' = (Valid \ {r}) \union {new}
  BY <1>1, <1>3, <1>4 DEF Valid
<1>7. Typed' /\ NothingSaved' /\ ClaimInv'
  <2>1. runs' \subseteq Runs
    BY <1>1, <1>3 DEF LeaseInv, Typed
  <2>2. successes' \in [RunOnce -> Nat]
    BY <1>1 DEF LeaseInv, Typed
  <2>3. QED
    BY <1>1, <2>1, <2>2 DEF LeaseInv, Typed, NothingSaved, ClaimInv, Got, files, loops, bounds
<1>8. HolderInv'
  BY <1>1, <1>3 DEF LeaseInv, HolderInv, Got, files, loops
<1>9. LostInv'
  BY <1>1, <1>3, <1>4 DEF LeaseInv, LostInv, Valid
<1>10. RowInv'
  BY <1>1, <1>3, <1>4, <1>6 DEF LeaseInv, RowInv, Got, files, loops
<1>11. JobInv'
  BY <1>1, <1>3, <1>4, <1>6 DEF LeaseInv, JobInv, Got, files, loops
<1>12. OnceInv'
  <2> DEFINE top == 1 + stops + crashes
  <2>1. top \in Nat /\ top' = top
    BY <1>1 DEF LeaseInv, Typed, bounds
  <2>2. ASSUME NEW j \in RunOnce, j # r.job
        PROVE  /\ successes'[j] = successes[j]
               /\ \A q : q \in Valid' /\ q.job = j <=> q \in Valid /\ q.job = j
    BY <1>1, <1>3, <1>6, <2>2 DEF LeaseInv, Typed
  <2>3. ASSUME NEW j \in RunOnce, j = r.job
        PROVE  /\ successes[j] < top /\ successes[j] \in Nat
               /\ successes'[j] = IF ok THEN successes[j] + 1 ELSE successes[j]
               /\ \A q \in Valid' : q.job = j => q = new
               /\ \A k \in Instances : Got(k) => Head(plan[k]) # j
    <3>1. successes[j] \in Nat /\ successes[j] <= top
      BY DEF LeaseInv, Typed, OnceInv
    <3>2. successes[j] # top
      BY <1>1, <1>4, <2>3 DEF LeaseInv, OnceInv
    <3>3. \A q \in Valid' : q.job = j => q = new
      BY <1>4, <1>6, <2>3 DEF LeaseInv, JobInv
    <3>4. \A k \in Instances : Got(k) => Head(plan[k]) # j
      BY <1>4, <2>3 DEF LeaseInv, JobInv
    <3>5. successes'[j] = IF ok THEN successes[j] + 1 ELSE successes[j]
      BY <1>1, <2>3 DEF LeaseInv, Typed
    <3>6. QED
      BY <2>1, <3>1, <3>2, <3>3, <3>4, <3>5
  <2>4. new \in Valid'
    BY <1>6
  <2>5. store' = store /\ \A k \in Instances : (Got(k)' <=> Got(k)) /\ plan'[k] = plan[k]
    BY <1>1 DEF Got, files, loops
  <2> HIDE DEF top
  <2>6. ASSUME NEW j \in RunOnce
        PROVE  /\ successes'[j] <= top
               /\ successes'[j] = top =>
                    /\ \A q \in Valid' : q.job = j => q.at = "ok"
                    /\ \A k \in Instances : Got(k)' => Head(plan'[k]) # j
                    /\ j \in DOMAIN store' => \E q \in Valid' : q.job = j /\ q.at = "ok"
    <3>1. CASE j # r.job
      <4>1. /\ successes[j] <= top
            /\ successes[j] = top =>
                 /\ \A q \in Valid : q.job = j => q.at = "ok"
                 /\ \A k \in Instances : Got(k) => Head(plan[k]) # j
                 /\ j \in DOMAIN store => \E q \in Valid : q.job = j /\ q.at = "ok"
        BY DEF LeaseInv, OnceInv, top
      <4>2. QED
        BY <2>2, <2>5, <3>1, <4>1
    <3>2. CASE j = r.job /\ ok
      BY <1>3, <1>5, <2>1, <2>3, <2>4, <2>5, <3>2
    <3>3. CASE j = r.job /\ ~ok
      BY <2>1, <2>3, <3>3
    <3>4. QED
      BY <3>1, <3>2, <3>3
  <2>7. QED
    BY <2>1, <2>6 DEF OnceInv, top
<1>13. QED
  BY <1>7, <1>8, <1>9, <1>10, <1>11, <1>12 DEF LeaseInv

\* The commit of the only run of a job that may; a lost one changes no row.
LEMMA CommitKeeps ==
  ASSUME LeaseInv, NEW r \in runs, Commit(r)
  PROVE  LeaseInv'
<1> DEFINE ok == r.at = "ok"
           gone == IF Mine(r) THEN Finished(r.job, ok) ELSE {}
<1>1. /\ r.at \in {"ok", "failed"} /\ runs' = runs \ {r}
      /\ store' = IF Mine(r) THEN Without(Settled(r.job, ok), gone) ELSE store
      /\ UNCHANGED <<live, owner, loops, saver, bounds, successes>>
  BY DEF Commit, saves
<1>2. r \in Runs
  BY DEF LeaseInv, Typed
<1>3. /\ store' \in Rows /\ DOMAIN store' = DOMAIN store \ gone
      /\ \A k \in DOMAIN store' : k # r.job => store'[k] = store[k]
      /\ ~Mine(r) => store' = store
  <2>1. CASE ~Mine(r)
    BY <1>1, <2>1 DEF LeaseInv, Typed
  <2>2. CASE Mine(r)
    <3> DEFINE row == [enabled |-> store[r.job].enabled /\ (ok => r.job \in Recurring),
                       next    |-> NextRun(r.job, ok, store[r.job].next),
                       token   |-> NoToken]
               s == [store EXCEPT ![r.job] = row]
    <3>1. store \in Rows /\ r.job \in DOMAIN store /\ store[r.job] \in Row
      BY <2>2, RowsTyped DEF Mine, LeaseInv, Typed
    <3>2. row \in Row
      <4>1. (store[r.job].enabled /\ (ok => r.job \in Recurring)) \in BOOLEAN
        OBVIOUS
      <4>2. NextRun(r.job, ok, store[r.job].next) \in {"none", "later", "due"}
        BY DEF NextRun
      <4>3. QED
        BY <4>1, <4>2 DEF Row
    <3>3. store' = Without(s, gone)
      BY <1>1, <2>2 DEF Settled
    <3> HIDE DEF row, gone
    <3>4. s \in Rows /\ DOMAIN s = DOMAIN store /\ \A k \in DOMAIN store : s[k] = IF k = r.job THEN row ELSE store[k]
      BY <3>1, <3>2, WrittenRow
    <3> HIDE DEF s
    <3>5. /\ Without(s, gone) \in Rows /\ DOMAIN Without(s, gone) = DOMAIN s \ gone
          /\ \A k \in DOMAIN s \ gone : Without(s, gone)[k] = s[k]
      BY <3>4, FewerRows
    <3>6. QED
      BY <2>2, <3>3, <3>4, <3>5
  <2>3. QED
    BY <2>1, <2>2
<1>4. gone # {} => Mine(r) /\ ok /\ r.job \in RunOnce /\ gone = {r.job}
  BY DEF Finished
<1>5. r.job \in DOMAIN store /\ r \in Valid => Mine(r)
  BY DEF LeaseInv, RowInv, Mine
<1>6. Valid' = Valid \ {r}
  BY <1>1 DEF Valid
<1>7. Mine(r) =>
        /\ \A q \in Valid : q # r => q.job # r.job
        /\ \A k \in Instances : Got(k) => Head(plan[k]) # r.job
  BY DEF LeaseInv, RowInv, HolderInv, Mine, Valid
<1>8. ok /\ r.job \in RunOnce /\ Mine(r) => gone = {r.job}
  BY DEF Finished
<1> HIDE DEF gone
<1>9. Typed'
  BY <1>1, <1>3 DEF LeaseInv, Typed, loops, bounds
<1>10. NothingSaved' /\ ClaimInv' /\ HolderInv' /\ LostInv'
  BY <1>1 DEF LeaseInv, NothingSaved, ClaimInv, HolderInv, LostInv, Got, loops
<1>11. RowInv'
  <2>1. ASSUME NEW q \in Valid', q.job \in DOMAIN store' PROVE store'[q.job].token = q.token
    <3>1. q.job # r.job \/ ~Mine(r)
      BY <1>6, <1>7, <2>1
    <3>2. q \in Valid /\ q.job \in DOMAIN store /\ store'[q.job] = store[q.job]
      BY <1>3, <1>6, <2>1, <3>1
    <3>3. QED
      BY <3>2 DEF LeaseInv, RowInv
  <2>2. ASSUME NEW i \in Instances, Got(i), Head(plan[i]) \in DOMAIN store'
        PROVE  store'[Head(plan[i])].token = lease[i]
    <3>1. Head(plan[i]) # r.job \/ ~Mine(r)
      BY <1>7, <2>2
    <3>2. Head(plan[i]) \in DOMAIN store /\ store'[Head(plan[i])] = store[Head(plan[i])]
      BY <1>3, <2>2, <3>1
    <3>3. QED
      BY <2>2, <3>2 DEF LeaseInv, RowInv
  <2>3. QED
    BY <1>1, <2>1, <2>2 DEF RowInv, Got, loops
<1>12. JobInv'
  BY <1>1, <1>6 DEF LeaseInv, JobInv, Got, loops
<1>13. OnceInv'
  <2>1. ASSUME NEW j \in RunOnce, successes[j] = 1 + stops + crashes, j \in DOMAIN store'
        PROVE  \E q \in Valid' : q.job = j /\ q.at = "ok"
    <3>1. j \in DOMAIN store
      BY <1>3, <2>1
    <3>2. PICK q \in Valid : q.job = j /\ q.at = "ok"
      BY <2>1, <3>1 DEF LeaseInv, OnceInv
    <3>3. q # r
      BY <1>3, <1>5, <1>8, <2>1, <3>1, <3>2
    <3>4. QED
      BY <1>6, <3>2, <3>3
  <2>2. QED
    BY <1>1, <1>6, <2>1 DEF LeaseInv, OnceInv, Got, loops, bounds
<1>14. QED
  BY <1>9, <1>10, <1>11, <1>12, <1>13 DEF LeaseInv

\* Expired leases are swept away, and rows that are done with.
LEMMA SweepKeeps ==
  ASSUME LeaseInv, NEW i \in Instances, Sweep(i)
  PROVE  LeaseInv'
<1> DEFINE f == [j \in DOMAIN store |-> IF store[j].token \in live THEN store[j].token ELSE NoToken]
           s == Retokened(store, f)
<1>1. store \in Rows /\ DOMAIN store \subseteq Jobs /\ store \in [DOMAIN store -> Row]
  BY RowsTyped DEF LeaseInv, Typed
<1>2. PICK gone : store' = Without([j \in DOMAIN store |->
                              [store[j] EXCEPT !.token = IF @ \in live THEN @ ELSE NoToken]], gone)
  BY DEF Sweep
<1>3. store' = Without(s, gone)
  BY <1>1, <1>2 DEF Retokened, Row
<1>4. f \in [DOMAIN store -> Tokens \union {NoToken}]
  BY <1>1 DEF Row
<1>5. \A j \in DOMAIN store : store[j].token \in live => f[j] = store[j].token
  OBVIOUS
<1> HIDE DEF f
<1>6. /\ s \in Rows /\ DOMAIN s = DOMAIN store
      /\ \A j \in DOMAIN store : s[j].token = f[j]
  BY <1>1, <1>4, RetokenedRows
<1> HIDE DEF s
<1>7. /\ store' \in Rows /\ DOMAIN store' = DOMAIN store \ gone
      /\ \A j \in DOMAIN store' : store'[j] = s[j]
  <2>1. /\ Without(s, gone) \in Rows /\ DOMAIN Without(s, gone) = DOMAIN s \ gone
        /\ \A j \in DOMAIN s \ gone : Without(s, gone)[j] = s[j]
    BY <1>6, FewerRows
  <2>2. QED
    BY <1>3, <1>6, <2>1
<1>8. DOMAIN store' \subseteq DOMAIN store
  BY <1>7
<1>9. \A j \in DOMAIN store' : store[j].token \in live => store'[j].token = store[j].token
  BY <1>5, <1>6, <1>7
<1>10. saver' = saver /\ UNCHANGED <<live, owner, loops, runs, bounds, successes>>
  BY DEF Sweep, saves
<1>11. QED
  BY <1>7, <1>8, <1>9, <1>10, RowsChange

LEMMA TimePassesKeeps ==
  ASSUME LeaseInv, NEW j, TimePasses(j)
  PROVE  LeaseInv'
<1>1. /\ store' = DueNow(store, j) /\ saver' = saver
      /\ UNCHANGED <<live, owner, loops, runs, bounds, successes>>
  BY DEF TimePasses
<1>2. store \in Rows
  BY DEF LeaseInv, Typed
<1>3. /\ store' \in Rows /\ DOMAIN store' = DOMAIN store
      /\ \A k \in DOMAIN store : store'[k].token = store[k].token
  BY <1>1, <1>2, DueRows
<1>4. /\ DOMAIN store' \subseteq DOMAIN store
      /\ \A k \in DOMAIN store' : store[k].token \in live => store'[k].token = store[k].token
  BY <1>3
<1>5. QED
  BY <1>1, <1>3, <1>4, RowsChange

-------------------------------------------------------------------------------
(* Processes.                                                                  *)

\* The runs of some instances end, claims are dropped, and tokens change owner, but
\* not those that others hold; and a stop or a crash is counted.
LEMMA InstanceGone ==
  ASSUME LeaseInv, NEW i \in Instances,
         store' \in Rows, DOMAIN store' = DOMAIN store,
         \A j \in DOMAIN store : \/ store'[j].token = store[j].token
                                 \/ store[j].token \in Tokens /\ owner[store[j].token] = i,
         live' = live, saver' = saver, successes' = successes,
         owner' \in [Tokens -> Instances \union {NoOwner}],
         \A t \in Tokens : owner[t] # i => owner'[t] = owner[t],
         plan' = [plan EXCEPT ![i] = plan'[i]], claim' = [claim EXCEPT ![i] = claim'[i]],
         ~Got(i)', lease' = [lease EXCEPT ![i] = NoToken],
         runs' \subseteq Runs,
         \A r \in runs' : \/ r \in runs /\ r.inst # i
                          \/ /\ r.by = "lost" /\ r.at # "running" /\ r.inst = i
                             /\ owner'[r.token] = i
                             /\ \E s \in runs : s.token = r.token /\ s.inst = i,
         \A r, s \in runs' : r.inst = i /\ s.inst = i /\ r.token = s.token => r = s,
         \A r \in runs : r.inst # i => r \in runs',
         manuals' = manuals, edits' = edits, stops' \in Nat, crashes' \in Nat,
         stops' + crashes' = stops + crashes + 1
  PROVE  LeaseInv'
<1>1. \A k \in Instances : k # i => (Got(k)' <=> Got(k)) /\ plan'[k] = plan[k] /\ lease'[k] = lease[k]
  BY DEF LeaseInv, Typed, Got
<1>2. lease'[i] = NoToken
  BY DEF LeaseInv, Typed
<1>3. \A r \in Valid' : r \in Valid /\ r.inst # i
  BY DEF Valid
<1>4. (\A r \in runs : r.token \in Tokens) /\ \A k \in Instances : Got(k) => lease[k] \in Tokens
  BY DEF LeaseInv, Typed, Runs, ClaimInv
<1>5. \A r \in runs' : \E s \in runs : s.token = r.token /\ s.inst = r.inst
  OBVIOUS
<1>6. Typed'
  BY DEF LeaseInv, Typed
<1>7. NothingSaved' /\ ClaimInv'
  BY <1>1, <1>2 DEF LeaseInv, NothingSaved, ClaimInv
<1>8. HolderInv'
  <2>1. \A r, s \in runs' : r.token = s.token => r = s
    <3>1. ASSUME NEW r \in runs', NEW s \in runs', r.token = s.token PROVE r.inst = s.inst
      BY <1>5, <3>1 DEF LeaseInv, HolderInv
    <3>2. QED
      BY <3>1 DEF LeaseInv, HolderInv
  <2>2. \A a, k \in Instances : Got(a)' /\ lease'[a] = lease'[k] => a = k
    BY <1>1, <1>2, <1>4, CronAssumption DEF LeaseInv, HolderInv
  <2>3. \A a \in Instances, r \in runs' : Got(a)' => lease'[a] # r.token
    BY <1>1, <1>5 DEF LeaseInv, HolderInv
  <2>4. \A r \in runs' : r.token \in live' /\ owner'[r.token] = r.inst
    BY <1>4, <1>5 DEF LeaseInv, HolderInv
  <2>5. \A a \in Instances : Got(a)' => lease'[a] \in live' /\ owner'[lease'[a]] = a
    BY <1>1, <1>4 DEF LeaseInv, HolderInv
  <2>6. QED
    BY <2>1, <2>2, <2>3, <2>4, <2>5 DEF HolderInv
<1>9. LostInv'
  BY DEF LeaseInv, LostInv
<1>10. RowInv'
  <2>1. ASSUME NEW r \in Valid', r.job \in DOMAIN store' PROVE store'[r.job].token = r.token
    <3>1. r \in Valid /\ r \in runs /\ r.inst # i /\ owner[r.token] = r.inst /\ store[r.job].token = r.token
      BY <1>3, <2>1 DEF LeaseInv, RowInv, HolderInv, Valid
    <3>2. QED
      BY <2>1, <3>1
  <2>2. ASSUME NEW k \in Instances, Got(k)', Head(plan'[k]) \in DOMAIN store'
        PROVE  store'[Head(plan'[k])].token = lease'[k]
    <3>1. /\ k # i /\ plan'[k] = plan[k] /\ lease'[k] = lease[k] /\ Head(plan[k]) \in DOMAIN store
          /\ owner[lease[k]] = k /\ store[Head(plan[k])].token = lease[k]
      BY <1>1, <2>2 DEF LeaseInv, RowInv, HolderInv
    <3>2. QED
      BY <3>1
  <2>3. QED
    BY <2>1, <2>2 DEF RowInv
<1>11. JobInv'
  BY <1>1, <1>3 DEF LeaseInv, JobInv
<1>12. OnceInv'
  <2>1. ASSUME NEW j \in RunOnce PROVE successes'[j] < 1 + stops' + crashes'
    <3>1. successes[j] \in Nat /\ successes[j] <= 1 + stops + crashes /\ stops \in Nat /\ crashes \in Nat
      BY DEF LeaseInv, Typed, OnceInv
    <3>2. QED
      BY <3>1
  <2>2. ASSUME NEW j \in RunOnce
        PROVE  successes'[j] <= 1 + stops' + crashes' /\ successes'[j] # 1 + stops' + crashes'
    <3>1. successes'[j] \in Nat
      BY DEF LeaseInv, Typed
    <3>2. QED
      BY <2>1, <3>1
  <2>3. QED
    BY <2>2 DEF OnceInv
<1>13. QED
  BY <1>6, <1>7, <1>8, <1>9, <1>10, <1>11, <1>12 DEF LeaseInv

\* stop drops the runs and the leases of its instance; those it may not cancel are lost.
LEMMA StopKeeps ==
  ASSUME LeaseInv, NEW i \in Instances, Stop(i)
  PROVE  LeaseInv'
<1> DEFINE f == [j \in DOMAIN store |->
                   IF store[j].token # NoToken /\ owner[store[j].token] = i THEN NoToken ELSE store[j].token]
<1>1. /\ stops < MaxStops /\ stops' = stops + 1 /\ store' = Released(i)
      /\ lease' = [lease EXCEPT ![i] = NoToken]
      /\ UNCHANGED <<live, owner, saver, manuals, edits, crashes, successes>>
  BY DEF Stop, saves
<1>2. PICK on \in SUBSET {r \in Tracked(i) : r.at # "running"} :
             runs' = (runs \ Tracked(i)) \union {[r EXCEPT !.by = "lost"] : r \in on}
  BY DEF Stop
<1>3. /\ plan' = [plan EXCEPT ![i] = plan'[i]] /\ claim' = [claim EXCEPT ![i] = claim'[i]]
      /\ claim'[i] # "got"
  BY DEF Stop, LeaseInv, Typed
<1>4. store \in Rows /\ DOMAIN store \subseteq Jobs /\ store \in [DOMAIN store -> Row]
  BY RowsTyped DEF LeaseInv, Typed
<1>5. /\ store' \in Rows /\ DOMAIN store' = DOMAIN store
      /\ \A j \in DOMAIN store : \/ store'[j].token = store[j].token
                                 \/ store[j].token \in Tokens /\ owner[store[j].token] = i
  <2>1. f \in [DOMAIN store -> Tokens \union {NoToken}]
    BY <1>4 DEF Row
  <2>2. store' = Retokened(store, f)
    BY <1>1, <1>4 DEF Released, Retokened, Row
  <2>3. \A j \in DOMAIN store : \/ f[j] = store[j].token
                                \/ store[j].token \in Tokens /\ owner[store[j].token] = i
    <3>1. \A j \in DOMAIN store : store[j].token \in Tokens \union {NoToken}
      BY <1>4 DEF Row
    <3>2. QED
      BY <3>1
  <2> HIDE DEF f
  <2>4. QED
    BY <1>4, <2>1, <2>2, <2>3, RetokenedRows
<1>6. MaxStops # 0 /\ stops \in Nat /\ crashes \in Nat /\ manuals \in Nat /\ edits \in Nat
  BY <1>1, CronAssumption DEF LeaseInv, Typed
<1>7. \A r \in runs : r.inst = i /\ r \notin Tracked(i) => r.by = "lost" /\ r.at # "running"
  <2>1. \A r \in runs : r.by \in {"loop", "lost", "manual"}
    BY DEF LeaseInv, Typed, Runs
  <2>2. QED
    BY <1>6, <2>1 DEF LeaseInv, LostInv, Tracked
<1>8. \A r \in runs : r \in Runs
  BY DEF LeaseInv, Typed
<1>9. ASSUME NEW r \in on
      PROVE  /\ r \in runs /\ r.inst = i /\ r.at # "running"
             /\ [r EXCEPT !.by = "lost"] \in Runs
             /\ [r EXCEPT !.by = "lost"].by = "lost" /\ [r EXCEPT !.by = "lost"].at = r.at
             /\ [r EXCEPT !.by = "lost"].token = r.token /\ [r EXCEPT !.by = "lost"].inst = r.inst
  <2>1. r \in runs /\ r.inst = i /\ r.at # "running" /\ r \in Runs
    BY <1>8 DEF Tracked
  <2>2. QED
    BY <2>1 DEF Runs
<1>10. runs' \subseteq Runs
  BY <1>2, <1>8, <1>9
<1>11. \A r \in runs : r.inst # i => r \in runs'
  BY <1>2 DEF Tracked
<1>12. ASSUME NEW r \in runs'
       PROVE  \/ r \in runs /\ r.inst # i
              \/ /\ r.by = "lost" /\ r.at # "running" /\ r.inst = i
                 /\ owner'[r.token] = i
                 /\ \E s \in runs : s.token = r.token /\ s.inst = i
  <2>1. CASE r \in runs \ Tracked(i)
    BY <1>1, <1>7, <2>1 DEF LeaseInv, HolderInv
  <2>2. CASE r \notin runs \ Tracked(i)
    <3>1. PICK q \in on : r = [q EXCEPT !.by = "lost"]
      BY <1>2, <2>2
    <3>2. r.by = "lost" /\ r.at = q.at /\ r.token = q.token /\ r.inst = q.inst /\ q \in runs
          /\ q.inst = i /\ q.at # "running"
      BY <1>9, <3>1
    <3>3. QED
      BY <1>1, <3>2 DEF LeaseInv, HolderInv
  <2>3. QED
    BY <2>1, <2>2
<1>13. ASSUME NEW r \in runs', NEW s \in runs', r.token = s.token PROVE r = s
  <2>1. \A q \in runs' : \/ q \in runs /\ q \notin Tracked(i)
                         \/ \E p \in Tracked(i) : q = [p EXCEPT !.by = "lost"] /\ p.token = q.token
    <3>1. SUFFICES ASSUME NEW q \in runs', ~(q \in runs /\ q \notin Tracked(i))
                   PROVE  \E p \in Tracked(i) : q = [p EXCEPT !.by = "lost"] /\ p.token = q.token
      OBVIOUS
    <3>2. PICK p \in on : q = [p EXCEPT !.by = "lost"]
      BY <1>2, <3>1
    <3>3. p.token = q.token
      BY <1>9, <3>2
    <3>4. QED
      BY <3>2, <3>3
  <2>2. \A p, q \in runs : p.token = q.token => p = q
    BY DEF LeaseInv, HolderInv
  <2>3. Tracked(i) \subseteq runs
    BY DEF Tracked
  <2> HIDE DEF f
  <2>4. CASE r \in runs /\ r \notin Tracked(i)
    <3>1. ASSUME NEW p \in Tracked(i), p.token = s.token PROVE FALSE
      BY <1>13, <2>2, <2>3, <2>4, <3>1
    <3>2. QED
      BY <1>13, <2>1, <2>2, <2>4, <3>1
  <2>5. ASSUME NEW p \in Tracked(i), r = [p EXCEPT !.by = "lost"], p.token = r.token PROVE r = s
    <3>1. CASE s \in runs /\ s \notin Tracked(i)
      BY <1>13, <2>2, <2>3, <2>5, <3>1
    <3>2. ASSUME NEW q \in Tracked(i), s = [q EXCEPT !.by = "lost"], q.token = s.token PROVE r = s
      <4>1. p = q
        BY <1>13, <2>2, <2>3, <2>5, <3>2
      <4>2. QED
        BY <2>5, <3>2, <4>1
    <3>3. QED
      BY <2>1, <3>1, <3>2
  <2>6. QED
    BY <2>1, <2>4, <2>5
<1>14. \A t \in Tokens : owner[t] # i => owner'[t] = owner[t]
  BY <1>1
<1>15. owner' \in [Tokens -> Instances \union {NoOwner}]
  BY <1>1 DEF LeaseInv, Typed
<1>16. ~Got(i)'
  BY <1>3 DEF Got
<1>17. live' = live /\ saver' = saver /\ successes' = successes /\ manuals' = manuals /\ edits' = edits
       /\ stops' \in Nat /\ crashes' \in Nat /\ stops' + crashes' = stops + crashes + 1
  BY <1>1, <1>6
<1> HIDE DEF f
<1>18. QED
  BY <1>1, <1>3, <1>5, <1>10, <1>11, <1>12, <1>13, <1>14, <1>15, <1>16, <1>17, InstanceGone

\* A crash drops the runs of its instance and leaves the leases.
LEMMA CrashKeeps ==
  ASSUME LeaseInv, NEW i \in Instances, Crash(i)
  PROVE  LeaseInv'
<1>1. /\ crashes' = crashes + 1 /\ store' = store /\ live' = live
      /\ plan' = [plan EXCEPT ![i] = <<>>] /\ claim' = [claim EXCEPT ![i] = "idle"]
      /\ lease' = [lease EXCEPT ![i] = NoToken] /\ saver' = [saver EXCEPT ![i] = "idle"]
      /\ runs' = {r \in runs : r.inst # i}
      /\ owner' = [t \in Tokens |-> IF owner[t] = i THEN NoOwner ELSE owner[t]]
      /\ UNCHANGED <<manuals, edits, stops, successes>>
  BY DEF Crash
<1>2. /\ store' \in Rows /\ DOMAIN store' = DOMAIN store
      /\ \A j \in DOMAIN store : store'[j].token = store[j].token
  BY <1>1 DEF LeaseInv, Typed
<1>3. saver' = saver
  BY <1>1 DEF LeaseInv, NothingSaved
<1>4. plan' = [plan EXCEPT ![i] = plan'[i]] /\ claim' = [claim EXCEPT ![i] = claim'[i]] /\ claim'[i] # "got"
  BY <1>1 DEF LeaseInv, Typed
<1>5. ~Got(i)'
  BY <1>4 DEF Got
<1>6. owner' \in [Tokens -> Instances \union {NoOwner}] /\ \A t \in Tokens : owner[t] # i => owner'[t] = owner[t]
  BY <1>1 DEF LeaseInv, Typed
<1>7. runs' \subseteq Runs /\ (\A r \in runs' : r \in runs /\ r.inst # i) /\ \A r \in runs : r.inst # i => r \in runs'
  BY <1>1 DEF LeaseInv, Typed
<1>8. live' = live /\ successes' = successes /\ manuals' = manuals /\ edits' = edits
      /\ stops' \in Nat /\ crashes' \in Nat /\ stops' + crashes' = stops + crashes + 1
  BY <1>1 DEF LeaseInv, Typed
<1>9. /\ \A r \in runs' : \/ r \in runs /\ r.inst # i
                          \/ /\ r.by = "lost" /\ r.at # "running" /\ r.inst = i
                             /\ owner'[r.token] = i
                             /\ \E s \in runs : s.token = r.token /\ s.inst = i
      /\ \A r, s \in runs' : r.inst = i /\ s.inst = i /\ r.token = s.token => r = s
      /\ \A j \in DOMAIN store : \/ store'[j].token = store[j].token
                                 \/ store[j].token \in Tokens /\ owner[store[j].token] = i
  BY <1>2, <1>7
<1>10. lease' = [lease EXCEPT ![i] = NoToken]
  BY <1>1
<1> HIDE DEF Crash
<1>11. QED
  BY <1>2, <1>3, <1>4, <1>5, <1>6, <1>7, <1>8, <1>9, <1>10, InstanceGone

-------------------------------------------------------------------------------
(* The invariant.                                                              *)

LEMMA InitKeeps ==
  ASSUME Init
  PROVE  LeaseInv
<1>1. store \in Rows
  <2>1. NewRow("due") \in Row
    BY DEF NewRow, Row
  <2>2. store \in [Initial -> Row]
    BY <2>1 DEF Init
  <2>3. QED
    BY <2>2, TypedRows, CronAssumption
<1>2. Typed
  BY <1>1 DEF Init, Typed
<1>3. NothingSaved /\ ClaimInv /\ HolderInv /\ LostInv
  BY DEF Init, NothingSaved, ClaimInv, HolderInv, LostInv, Got
<1>4. RowInv /\ JobInv /\ OnceInv
  BY DEF Init, RowInv, JobInv, OnceInv, Got, Valid
<1>5. QED
  BY <1>2, <1>3, <1>4 DEF LeaseInv

LEMMA NextKeeps ==
  ASSUME LeaseInv, Undisturbed, [Next]_vars
  PROVE  LeaseInv'
<1>1. CASE UNCHANGED vars
  BY <1>1 DEF vars, files, loops, saves, bounds, LeaseInv, Typed, NothingSaved, ClaimInv, HolderInv,
     LostInv, RowInv, JobInv, OnceInv, Valid, Got
<1>2. ASSUME NEW j \in Jobs, TimePasses(j) PROVE LeaseInv'
  BY <1>2, TimePassesKeeps
<1>3. ASSUME NEW t \in Tokens, Expire(t) PROVE LeaseInv'
  BY <1>3, ExpireKeeps DEF Undisturbed
<1>4. ASSUME NEW i \in Instances, Loop(i) PROVE LeaseInv'
  <2>1. CASE Tick(i)
    <3>1. ~Got(i) /\ claim' = [claim EXCEPT ![i] = "asked"] /\ plan' = [plan EXCEPT ![i] = FirstOf(DueJobs(i), FreeSlots(i))]
          /\ UNCHANGED <<files, lease, saver, runs, bounds, successes>>
      BY <2>1 DEF Tick, Got, saves
    <3>2. QED
      BY <3>1, ClaimMoves
  <2>2. CASE StartRun(i)
    BY <2>2, StartRunKeeps
  <2>3. CASE Sweep(i)
    BY <2>3, SweepKeeps
  <2>4. QED
    BY <1>4, <2>1, <2>2, <2>3 DEF Loop
<1>5. ASSUME NEW i \in Instances, ClaimThread(i) PROVE LeaseInv'
  BY <1>5, ClaimThreadKeeps
<1>6. ASSUME NEW i \in Instances, NEW j \in Jobs, NEW force \in BOOLEAN, RunManually(i, j, force) PROVE LeaseInv'
  BY <1>6, RunManuallyKeeps
<1>7. ASSUME NEW i \in Instances, Edits(i) PROVE FALSE
  BY <1>7 DEF Edits, Undisturbed, LeaseInv, Typed
<1>8. ASSUME NEW i \in Instances, SaveThread(i) \/ Write(i) PROVE FALSE
  BY <1>8 DEF SaveThread, Write, LeaseInv, NothingSaved
<1>9. ASSUME NEW i \in Instances, Start(i) \/ Boot(i) PROVE LeaseInv'
  <2>1. store' = store /\ saver' = saver /\ UNCHANGED <<live, owner, loops, runs, bounds, successes>>
    BY <1>9 DEF Start, Boot, files, saves
  <2>2. store' \in Rows /\ DOMAIN store' \subseteq DOMAIN store
        /\ \A j \in DOMAIN store' : store[j].token \in live => store'[j].token = store[j].token
    BY <2>1 DEF LeaseInv, Typed
  <2>3. QED
    BY <2>1, <2>2, RowsChange
<1>10. ASSUME NEW i \in Instances, Stop(i) \/ Crash(i) PROVE LeaseInv'
  BY <1>10, StopKeeps, CrashKeeps
<1>11. ASSUME NEW r \in runs, Ends(r) \/ Commit(r) PROVE LeaseInv'
  BY <1>11, CallbackEndsKeeps, CommitKeeps DEF Ends
<1>12. QED
  BY <1>1, <1>2, <1>3, <1>4, <1>5, <1>6, <1>7, <1>8, <1>9, <1>10, <1>11
     DEF Next, AddJob, RemoveJob, EnableJob

LEMMA LeaseInvariant ==
  ASSUME Undisturbed
  PROVE  Spec => []LeaseInv
<1>1. Init => LeaseInv
  BY InitKeeps
<1>2. LeaseInv /\ [Next]_vars => LeaseInv'
  BY NextKeeps
<1>3. QED
  BY <1>1, <1>2, PTL DEF Spec

-------------------------------------------------------------------------------
(* The theorems.                                                               *)

\* The lease fences a job: with no edits, and callbacks that end before their lease
\* does, no two callbacks of a job run at the same time, whatever instances claim,
\* stop, crash and restart (run_job may be called, or loops stopped, not both).
THEOREM OneRunTheorem ==
  ASSUME Undisturbed
  PROVE  Spec => []OneRunPerJob
<1>1. LeaseInv => OneRunPerJob
  BY DEF LeaseInv, LostInv, JobInv, Valid, OneRunPerJob, Running
<1>2. QED
  BY <1>1, LeaseInvariant, PTL

\* Then a run_once job succeeds once, or once more for each stop or crash.
THEOREM OnceTheorem ==
  ASSUME Undisturbed
  PROVE  Spec => []OnceIsOnce
<1>1. LeaseInv => OnceIsOnce
  BY DEF LeaseInv, OnceInv, OnceIsOnce
<1>2. QED
  BY <1>1, LeaseInvariant, PTL

-------------------------------------------------------------------------------
(* The fence, for callbacks that may be slow.                                  *)

\* Nobody edits the jobs or forces one to run.
Unforced == MaxEdits = 0 /\ MaxManual = 0

FenceTyped == store \in Rows /\ live \subseteq Tokens /\ {manuals, edits, stops} \subseteq Nat

\* A row with a live lease is enabled: no sweep takes it for a job that is done.
Enabled == \A j \in DOMAIN store : store[j].token \in live => store[j].enabled

FenceInv == FenceTyped /\ NothingSaved /\ Enabled

\* What a step may do to the row of a live lease.
Fenced ==
  \A j \in DOMAIN store :
    store[j].token \in live \cap live' =>
      \/ j \in DOMAIN store' /\ store'[j].token = store[j].token
      \/ \E r \in runs \ runs' : r.token = store[j].token /\ r.at # "running"
      \/ stops' > stops

\* Rows that go or lose a token were without a live one.
LEMMA FencedRows ==
  ASSUME FenceInv, store' \in Rows, live' \subseteq live, DOMAIN store' \subseteq DOMAIN store,
         \A j \in DOMAIN store' : /\ store'[j].token \in {store[j].token, NoToken}
                                 /\ store'[j].enabled = store[j].enabled,
         \A j \in DOMAIN store : store[j].token \in live' =>
                                 j \in DOMAIN store' /\ store'[j].token = store[j].token,
         UNCHANGED <<saver, bounds>>
  PROVE  FenceInv' /\ Fenced
<1>1. NoToken \notin live
  BY CronAssumption DEF FenceInv, FenceTyped
<1>2. Enabled'
  BY <1>1 DEF FenceInv, Enabled
<1>3. QED
  BY <1>2 DEF FenceInv, FenceTyped, NothingSaved, Fenced, bounds

LEMMA FenceInit ==
  ASSUME Init
  PROVE  FenceInv
<1>1. NewRow("due") \in Row /\ NewRow("due").enabled
  BY DEF NewRow, Row
<1>2. store \in [Initial -> Row]
  BY <1>1 DEF Init
<1>3. store \in Rows
  BY <1>2, TypedRows, CronAssumption
<1>4. QED
  BY <1>3 DEF Init, FenceInv, FenceTyped, NothingSaved, Enabled

\* A claim takes a row that is enabled and has no live lease.
LEMMA ClaimFenced ==
  ASSUME FenceInv, NEW i \in Instances, ClaimThread(i)
  PROVE  FenceInv' /\ Fenced
<1> DEFINE j == Head(plan[i])
<1>1. saver' = saver /\ UNCHANGED bounds
  BY DEF ClaimThread, saves
<1>2. CASE ~Claimable(j, TRUE, FALSE)
  <2>1. store' = store /\ live' = live
    BY <1>2 DEF ClaimThread, files
  <2>2. QED
    BY <1>1, <2>1 DEF FenceInv, FenceTyped, NothingSaved, Enabled, Fenced, bounds
<1>3. CASE Claimable(j, TRUE, FALSE)
  <2> DEFINE row == [store[j] EXCEPT !.token = NewToken]
  <2>1. j \in DOMAIN store /\ store[j].enabled /\ store[j].token \notin live
    BY <1>3 DEF Claimable
  <2>2. Fresh # {} /\ store' = [store EXCEPT ![j] = row] /\ live' = live \union {NewToken}
    BY <1>3 DEF ClaimThread, WriteLease
  <2>3. NewToken \in Tokens /\ \A k \in DOMAIN store : store[k].token # NewToken
    BY <2>2, NewTokenIsNew
  <2>4. store \in Rows /\ store[j] \in Row
    BY <2>1, RowsTyped DEF FenceInv, FenceTyped
  <2>5. row \in Row /\ row.token = NewToken /\ row.enabled = store[j].enabled
    BY <2>3, <2>4 DEF Row
  <2> HIDE DEF row, j
  <2>6. /\ store' \in Rows /\ DOMAIN store' = DOMAIN store
        /\ \A k \in DOMAIN store : store'[k] = IF k = j THEN row ELSE store[k]
    BY <2>1, <2>2, <2>4, <2>5, WrittenRow
  <2>7. Enabled'
    BY <2>1, <2>2, <2>3, <2>5, <2>6 DEF FenceInv, Enabled
  <2>8. Fenced
    BY <2>1, <2>6 DEF Fenced
  <2>9. QED
    BY <1>1, <2>2, <2>3, <2>6, <2>7, <2>8 DEF FenceInv, FenceTyped, NothingSaved, bounds
<1>4. QED
  BY <1>2, <1>3

\* A commit changes the row of the run that ends, if it has the token.
LEMMA CommitFenced ==
  ASSUME FenceInv, NEW r \in runs, Commit(r)
  PROVE  FenceInv' /\ Fenced
<1> DEFINE ok == r.at = "ok"
           gone == IF Mine(r) THEN Finished(r.job, ok) ELSE {}
<1>1. /\ r \in runs \ runs' /\ r.at # "running" /\ live' = live
      /\ store' = IF Mine(r) THEN Without(Settled(r.job, ok), gone) ELSE store
      /\ UNCHANGED <<saver, bounds>>
  BY DEF Commit, saves
<1>2. CASE ~Mine(r)
  BY <1>1, <1>2 DEF FenceInv, FenceTyped, NothingSaved, Enabled, Fenced, bounds
<1>3. CASE Mine(r)
  <2> DEFINE row == [enabled |-> store[r.job].enabled /\ (ok => r.job \in Recurring),
                     next    |-> NextRun(r.job, ok, store[r.job].next),
                     token   |-> NoToken]
             s == [store EXCEPT ![r.job] = row]
  <2>1. store \in Rows /\ r.job \in DOMAIN store /\ store[r.job] \in Row /\ store[r.job].token = r.token
    BY <1>3, RowsTyped DEF Mine, FenceInv, FenceTyped
  <2>2. row \in Row /\ row.token = NoToken
    <3>1. (store[r.job].enabled /\ (ok => r.job \in Recurring)) \in BOOLEAN
      OBVIOUS
    <3>2. NextRun(r.job, ok, store[r.job].next) \in {"none", "later", "due"}
      BY DEF NextRun
    <3>3. QED
      BY <3>1, <3>2 DEF Row
  <2>3. store' = Without(s, gone)
    BY <1>1, <1>3 DEF Settled
  <2>4. gone \subseteq {r.job}
    BY DEF Finished
  <2> HIDE DEF row, gone
  <2>5. s \in Rows /\ DOMAIN s = DOMAIN store /\ \A k \in DOMAIN store : s[k] = IF k = r.job THEN row ELSE store[k]
    BY <2>1, <2>2, WrittenRow
  <2> HIDE DEF s
  <2>6. /\ Without(s, gone) \in Rows /\ DOMAIN Without(s, gone) = DOMAIN s \ gone
        /\ \A k \in DOMAIN s \ gone : Without(s, gone)[k] = s[k]
    BY <2>5, FewerRows
  <2>7. /\ store' \in Rows /\ DOMAIN store' = DOMAIN store \ gone
        /\ \A k \in DOMAIN store' : store'[k] = IF k = r.job THEN row ELSE store[k]
    BY <2>3, <2>5, <2>6
  <2>8. NoToken \notin live
    BY CronAssumption DEF FenceInv, FenceTyped
  <2>9. Enabled'
    BY <1>1, <2>2, <2>7, <2>8 DEF FenceInv, Enabled
  <2>10. Fenced
    BY <1>1, <2>1, <2>4, <2>7 DEF Fenced
  <2>11. QED
    BY <1>1, <2>7, <2>9, <2>10 DEF FenceInv, FenceTyped, NothingSaved, bounds
<1>4. QED
  BY <1>2, <1>3

\* A sweep clears leases that are over and removes rows that are disabled.
LEMMA SweepFenced ==
  ASSUME FenceInv, NEW i \in Instances, Sweep(i)
  PROVE  FenceInv' /\ Fenced
<1> DEFINE f == [j \in DOMAIN store |-> IF store[j].token \in live THEN store[j].token ELSE NoToken]
           s == Retokened(store, f)
<1>1. store \in Rows /\ DOMAIN store \subseteq Jobs /\ store \in [DOMAIN store -> Row]
  BY RowsTyped DEF FenceInv, FenceTyped
<1>2. PICK gone \in SUBSET {j \in DOMAIN store : ~store[j].enabled /\ store[j].next = "none"} :
             store' = Without([j \in DOMAIN store |->
                              [store[j] EXCEPT !.token = IF @ \in live THEN @ ELSE NoToken]], gone)
  BY DEF Sweep
<1>3. store' = Without(s, gone)
  BY <1>1, <1>2 DEF Retokened, Row
<1>4. f \in [DOMAIN store -> Tokens \union {NoToken}]
  BY <1>1 DEF Row
<1>5. \A j \in DOMAIN store : f[j] = IF store[j].token \in live THEN store[j].token ELSE NoToken
  OBVIOUS
<1> HIDE DEF f
<1>6. /\ s \in Rows /\ DOMAIN s = DOMAIN store
      /\ \A j \in DOMAIN store : s[j].token = f[j] /\ s[j].enabled = store[j].enabled
  BY <1>1, <1>4, RetokenedRows
<1> HIDE DEF s
<1>7. /\ store' \in Rows /\ DOMAIN store' = DOMAIN store \ gone
      /\ \A j \in DOMAIN store' : store'[j] = s[j]
  <2>1. /\ Without(s, gone) \in Rows /\ DOMAIN Without(s, gone) = DOMAIN s \ gone
        /\ \A j \in DOMAIN s \ gone : Without(s, gone)[j] = s[j]
    BY <1>6, FewerRows
  <2>2. QED
    BY <1>3, <1>6, <2>1
<1>8. live' = live /\ UNCHANGED <<saver, bounds>>
  BY DEF Sweep, saves
<1>9. \A j \in DOMAIN store : store[j].token \in live => j \notin gone
  BY <1>2 DEF FenceInv, Enabled
<1>10. /\ live' \subseteq live /\ DOMAIN store' \subseteq DOMAIN store
       /\ \A j \in DOMAIN store' : /\ store'[j].token \in {store[j].token, NoToken}
                                  /\ store'[j].enabled = store[j].enabled
       /\ \A j \in DOMAIN store : store[j].token \in live' =>
                                  j \in DOMAIN store' /\ store'[j].token = store[j].token
  BY <1>5, <1>6, <1>7, <1>8, <1>9
<1>11. QED
  BY <1>7, <1>8, <1>10, FencedRows

\* Only a lease that is over is cleared.
LEMMA ExpireFenced ==
  ASSUME FenceInv, NEW t \in Tokens, Expire(t)
  PROVE  FenceInv' /\ Fenced
<1>1. live' = live \ {t} /\ UNCHANGED <<saver, bounds>>
  BY DEF Expire
<1>2. store' = store \/ store' = Cleared(store, t)
  BY DEF Expire
<1>3. /\ store' \in Rows /\ DOMAIN store' = DOMAIN store
      /\ \A j \in DOMAIN store :
           /\ store'[j].token = store[j].token \/ (store[j].token = t /\ store'[j].token = NoToken)
           /\ store'[j].enabled = store[j].enabled
  <2> DEFINE f == [j \in DOMAIN store |-> IF store[j].token = t THEN NoToken ELSE store[j].token]
  <2>1. store \in Rows /\ DOMAIN store \subseteq Jobs /\ store \in [DOMAIN store -> Row]
    BY RowsTyped DEF FenceInv, FenceTyped
  <2>2. f \in [DOMAIN store -> Tokens \union {NoToken}]
    BY <2>1 DEF Row
  <2>3. Cleared(store, t) = Retokened(store, f)
    BY <2>1 DEF Cleared, Row, Retokened
  <2>4. \A j \in DOMAIN store : f[j] = IF store[j].token = t THEN NoToken ELSE store[j].token
    OBVIOUS
  <2> HIDE DEF f
  <2>5. CASE store' = store
    BY <2>1, <2>5
  <2>6. CASE store' = Retokened(store, f)
    BY <2>1, <2>2, <2>4, <2>6, RetokenedRows
  <2>7. QED
    BY <1>2, <2>3, <2>5, <2>6
<1>4. /\ live' \subseteq live /\ DOMAIN store' \subseteq DOMAIN store
      /\ \A j \in DOMAIN store' : /\ store'[j].token \in {store[j].token, NoToken}
                                 /\ store'[j].enabled = store[j].enabled
      /\ \A j \in DOMAIN store : store[j].token \in live' =>
                                 j \in DOMAIN store' /\ store'[j].token = store[j].token
  BY <1>1, <1>3
<1>5. QED
  BY <1>1, <1>3, <1>4, FencedRows

\* A stop releases the leases of its instance, and is counted.
LEMMA StopFenced ==
  ASSUME FenceInv, NEW i \in Instances, Stop(i)
  PROVE  FenceInv' /\ Fenced
<1> DEFINE f == [j \in DOMAIN store |->
                   IF store[j].token # NoToken /\ owner[store[j].token] = i THEN NoToken ELSE store[j].token]
<1>1. store' = Released(i) /\ live' = live /\ stops' = stops + 1 /\ UNCHANGED <<saver, manuals, edits>>
  BY DEF Stop, saves
<1>2. store \in Rows /\ DOMAIN store \subseteq Jobs /\ store \in [DOMAIN store -> Row]
  BY RowsTyped DEF FenceInv, FenceTyped
<1>3. f \in [DOMAIN store -> Tokens \union {NoToken}]
  BY <1>2 DEF Row
<1>4. store' = Retokened(store, f)
  BY <1>1, <1>2 DEF Released, Retokened, Row
<1>5. \A j \in DOMAIN store : f[j] \in {store[j].token, NoToken}
  OBVIOUS
<1> HIDE DEF f
<1>6. /\ store' \in Rows /\ DOMAIN store' = DOMAIN store
      /\ \A j \in DOMAIN store : store'[j].token = f[j] /\ store'[j].enabled = store[j].enabled
  BY <1>2, <1>3, <1>4, RetokenedRows
<1>7. NoToken \notin live
  BY CronAssumption DEF FenceInv, FenceTyped
<1>8. Enabled'
  BY <1>1, <1>5, <1>6, <1>7 DEF FenceInv, Enabled
<1>9. stops' > stops /\ stops' \in Nat
  BY <1>1 DEF FenceInv, FenceTyped
<1>10. QED
  BY <1>1, <1>6, <1>8, <1>9 DEF FenceInv, FenceTyped, NothingSaved, Fenced

LEMMA NextFenced ==
  ASSUME FenceInv, Unforced, [Next]_vars
  PROVE  FenceInv' /\ (UNCHANGED vars \/ Fenced)
<1>1. CASE UNCHANGED vars
  BY <1>1 DEF vars, files, saves, bounds, FenceInv, FenceTyped, NothingSaved, Enabled
<1>2. ASSUME store' = store, live' = live, UNCHANGED <<manuals, edits, stops>>, saver' = saver
      PROVE  FenceInv' /\ Fenced
  BY <1>2 DEF FenceInv, FenceTyped, NothingSaved, Enabled, Fenced
<1>3. ASSUME NEW j \in Jobs, TimePasses(j) PROVE FenceInv' /\ Fenced
  <2>1. store' = DueNow(store, j) /\ live' = live /\ UNCHANGED <<saver, bounds>> /\ store \in Rows
    BY <1>3 DEF TimePasses, FenceInv, FenceTyped
  <2>2. /\ store' \in Rows /\ DOMAIN store' = DOMAIN store
        /\ \A k \in DOMAIN store : store'[k].token = store[k].token /\ store'[k].enabled = store[k].enabled
    BY <2>1, DueRows
  <2>3. QED
    BY <2>1, <2>2, FencedRows
<1>4. ASSUME NEW t \in Tokens, Expire(t) PROVE FenceInv' /\ Fenced
  BY <1>4, ExpireFenced
<1>5. ASSUME NEW i \in Instances, Loop(i) PROVE FenceInv' /\ Fenced
  <2>1. CASE Tick(i) \/ StartRun(i)
    BY <1>2, <2>1 DEF Tick, StartRun, files, saves, bounds
  <2>2. CASE Sweep(i)
    BY <2>2, SweepFenced
  <2>3. QED
    BY <1>5, <2>1, <2>2 DEF Loop
<1>6. ASSUME NEW i \in Instances, ClaimThread(i) PROVE FenceInv' /\ Fenced
  BY <1>6, ClaimFenced
<1>7. ASSUME NEW i \in Instances, NEW j \in Jobs, NEW force \in BOOLEAN, RunManually(i, j, force) PROVE FALSE
  BY <1>7 DEF RunManually, Unforced, FenceInv, FenceTyped
<1>8. ASSUME NEW i \in Instances, Edits(i) PROVE FALSE
  BY <1>8 DEF Edits, Unforced, FenceInv, FenceTyped
<1>9. ASSUME NEW i \in Instances, SaveThread(i) \/ Write(i) PROVE FALSE
  BY <1>9 DEF SaveThread, Write, FenceInv, NothingSaved
<1>10. ASSUME NEW i \in Instances, Start(i) \/ Boot(i) PROVE FenceInv' /\ Fenced
  BY <1>2, <1>10 DEF Start, Boot, files, saves, bounds
<1>11. ASSUME NEW i \in Instances, Stop(i) PROVE FenceInv' /\ Fenced
  BY <1>11, StopFenced
<1>12. ASSUME NEW i \in Instances, Crash(i) PROVE FenceInv' /\ Fenced
  <2>1. saver' = saver
    BY <1>12 DEF Crash, FenceInv, NothingSaved
  <2>2. QED
    BY <1>2, <1>12, <2>1 DEF Crash
<1>13. ASSUME NEW r \in runs, Ends(r) PROVE FenceInv' /\ Fenced
  BY <1>2, <1>13 DEF Ends, CallbackEnds, files, saves, bounds
<1>14. ASSUME NEW r \in runs, Commit(r) PROVE FenceInv' /\ Fenced
  BY <1>14, CommitFenced
<1>15. QED
  BY <1>1, <1>3, <1>4, <1>5, <1>6, <1>7, <1>8, <1>9, <1>10, <1>11, <1>12, <1>13, <1>14
     DEF Next, AddJob, RemoveJob, EnableJob

\* While a lease is live its row is its holder's, also when callbacks outlive leases:
\* only the commit of the holder and a stop change the token.
THEOREM FenceTheorem ==
  ASSUME Unforced
  PROVE  Spec => LeaseFences
<1>1. Init => FenceInv
  BY FenceInit
<1>2. FenceInv /\ [Next]_vars => FenceInv' /\ [Fenced]_vars
  BY NextFenced
<1>3. Spec => [][Fenced]_vars
  BY <1>1, <1>2, PTL DEF Spec
<1>4. QED
  BY <1>3 DEF LeaseFences, Fenced

===============================================================================
