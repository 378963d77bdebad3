--------------------------- MODULE ProviderFailover ---------------------------
(***************************************************************************)
(* The failover of the model providers (providers/failover.py) over the    *)
(* clients that retry and break the circuit (providers/litellm.py, and     *)
(* codex.py, whose complete does the same).  Calls of several turns run at *)
(* the same time: each takes a snapshot of the candidates that are not     *)
(* cooling down and tries them in order.                                   *)
(*                                                                         *)
(* Times are remaining times, counted down by Tick.  The order of three or *)
(* more candidates depends on counters and latencies: any order of the     *)
(* fallbacks is taken.  A call that fails on one candidate goes on to the  *)
(* next without an await; here the others may move in between.  A client   *)
(* used without failover is the instance with no fallback and no cooldown. *)
(***************************************************************************)
EXTENDS Integers, FiniteSets, SequencesExt

CONSTANTS
  Calls,        \* concurrent calls of complete, each made again and again
  Fallbacks,    \* the number of fallbacks; candidate 0 is the primary
  Attempts,     \* retry_max_attempts
  Threshold,    \* circuit_failure_threshold
  CircuitTime,  \* circuit_cooldown_s
  BaseTime,     \* cooldown_seconds
  HardTime      \* what _HARD_SUPPRESSION_S holds for auth and quota

ASSUME TimesAssumption ==
  /\ Fallbacks \in Nat /\ Attempts \in Nat \ {0} /\ Threshold \in Nat \ {0}
  /\ CircuitTime \in Nat \ {0} /\ BaseTime \in Nat
  /\ HardTime \in Nat /\ HardTime >= BaseTime

Candidates == 0..Fallbacks

\* Classes of errors the next candidate is tried for; "transient" stands for
\* rate_limit, http_transient, network and retry_exhausted.
FailoverClasses == {"auth", "quota", "transient", "circuit_open"}

VARIABLES
  cooling,  \* cooldown_until of each candidate, as the time that remains
  reason,   \* suppression_reason
  fails,    \* _consecutive_failures of each client
  circuit,  \* _circuit_open_until, as the time that remains; Shut stands for 0.0
  call      \* the calls

failoverVars == <<cooling, reason, fails, circuit, call>>

\* The time of a circuit that is not open, nor due to close.
Shut == -1

\* A call with the candidates it has still to try, the attempts of the request
\* under way, and the class of the error it ends with.
Idle == [at |-> "idle", todo |-> <<>>, tries |-> 0, refreshed |-> FALSE, class |-> ""]

FailoverInit ==
  /\ cooling = [c \in Candidates |-> 0]
  /\ reason = [c \in Candidates |-> ""]
  /\ fails = [c \in Candidates |-> 0]
  /\ circuit = [c \in Candidates |-> Shut]
  /\ call = [k \in Calls |-> Idle]

Ready == {c \in Candidates : cooling[c] = 0}

\* _ordered_ready_indices: the primary first, the fallbacks in order unless health
\* sorts three or more candidates.
Orders(ready) ==
  {s \in SetToSeqs(ready) :
     IF Cardinality(ready) <= 2
     THEN \A i, j \in DOMAIN s : i < j => s[i] < s[j]
     ELSE 0 \in ready => s[1] = 0}

Start(k) ==
  /\ call[k].at = "idle"
  /\ IF Ready = {}
     THEN call' = [call EXCEPT ![k] = [Idle EXCEPT !.at = "failed", !.class = "cooldown"]]
     ELSE \E order \in Orders(Ready) :
            call' = [call EXCEPT ![k] = [Idle EXCEPT !.at = "next", !.todo = order]]
  /\ UNCHANGED <<cooling, reason, fails, circuit>>

Cooldown(class) == IF class \in {"auth", "quota"} THEN HardTime ELSE BaseTime

\* _record_failure: the circuit opens, or opens anew, from the threshold on.  The
\* count stops there, which no step tells apart.
Record(c) ==
  /\ fails' = [fails EXCEPT ![c] = IF @ < Threshold THEN @ + 1 ELSE @]
  /\ circuit' = [circuit EXCEPT ![c] = IF fails[c] + 1 >= Threshold THEN CircuitTime ELSE @]

\* The candidate failed the call: the next one, if the error asks for it.
Fail(k, class) ==
  LET c == Head(call[k].todo)
      rest == Tail(call[k].todo)
      ends == rest = <<>> \/ class \notin FailoverClasses
  IN  /\ Record(c)
      /\ call' = [call EXCEPT ![k] = [Idle EXCEPT !.at = IF ends THEN "failed" ELSE "next",
                                                  !.todo = rest, !.class = IF ends THEN class ELSE ""]]
      /\ IF class \in FailoverClasses /\ Cooldown(class) > 0
         THEN /\ cooling' = [cooling EXCEPT ![c] = Cooldown(class)]
              /\ reason' = [reason EXCEPT ![c] = class]
         ELSE UNCHANGED <<cooling, reason>>

\* complete of the next candidate: an open circuit is a failure like any other.
CircuitOpen(k) ==
  /\ call[k].at = "next"
  /\ circuit[Head(call[k].todo)] > 0
  /\ Fail(k, "circuit_open")

\* mutant: the failures are not forgotten when the circuit closes, nor is the circuit
SendForgetful(k) ==
  LET c == Head(call[k].todo) IN
  /\ call[k].at = "next" /\ circuit[c] <= 0
  /\ circuit' = [circuit EXCEPT ![c] = Shut]
  /\ call' = [call EXCEPT ![k].at = "sending", ![k].tries = 1, ![k].refreshed = FALSE]
  /\ UNCHANGED <<cooling, reason, fails>>

\* A circuit whose time is over closes, and the request is sent.
Send(k) ==
  LET c == Head(call[k].todo) IN
  /\ call[k].at = "next" /\ circuit[c] <= 0
  /\ circuit' = [circuit EXCEPT ![c] = Shut]
  /\ fails' = IF circuit[c] = 0 THEN [fails EXCEPT ![c] = 0] ELSE fails
  /\ call' = [call EXCEPT ![k].at = "sending", ![k].tries = 1, ![k].refreshed = FALSE]
  /\ UNCHANGED <<cooling, reason>>

\* A 429 or 5xx, a timeout or a network error is tried again after a pause.
Backoff(k) ==
  /\ call[k].at = "sending" /\ call[k].tries < Attempts
  /\ call' = [call EXCEPT ![k].at = "pausing"]
  /\ UNCHANGED <<cooling, reason, fails, circuit>>

Retry(k) ==
  /\ call[k].at = "pausing"
  /\ call' = [call EXCEPT ![k].at = "sending", ![k].tries = @ + 1]
  /\ UNCHANGED <<cooling, reason, fails, circuit>>

\* A 401 is answered once by a fresh OAuth token.
Refresh(k) ==
  /\ call[k].at = "sending" /\ ~call[k].refreshed
  /\ call' = [call EXCEPT ![k].refreshed = TRUE]
  /\ UNCHANGED <<cooling, reason, fails, circuit>>

\* The request fails for good: 401 and 403, a quota, the last attempt, or any other
\* status and a malformed response ("unknown").
RequestFails(k) ==
  /\ call[k].at = "sending"
  /\ \E class \in {"auth", "quota", "unknown"} \union (IF call[k].tries = Attempts THEN {"transient"} ELSE {}) :
       Fail(k, class)

\* The failures are forgotten, an open circuit is not.
Answer(k) ==
  LET c == Head(call[k].todo) IN
  /\ call[k].at = "sending"
  /\ fails' = [fails EXCEPT ![c] = 0]
  /\ reason' = [reason EXCEPT ![c] = ""]
  /\ call' = [call EXCEPT ![k] = [Idle EXCEPT !.at = "answered"]]
  /\ UNCHANGED <<cooling, circuit>>

\* The turn is cancelled; nothing is recorded.
CancelCall(k) ==
  /\ call[k].at \in {"sending", "pausing"}
  /\ call' = [call EXCEPT ![k] = Idle]
  /\ UNCHANGED <<cooling, reason, fails, circuit>>

\* The turn that called has its result, and a later one calls again.
Return(k) ==
  /\ call[k].at \in {"answered", "failed"}
  /\ call' = [call EXCEPT ![k] = Idle]
  /\ UNCHANGED <<cooling, reason, fails, circuit>>

\* operator_clear_suppression; the client's circuit is not its business.
OperatorClear(c) ==
  /\ cooling[c] > 0 \/ reason[c] # ""
  /\ cooling' = [cooling EXCEPT ![c] = 0]
  /\ reason' = [reason EXCEPT ![c] = ""]
  /\ UNCHANGED <<fails, circuit, call>>

Tick ==
  /\ \E c \in Candidates : cooling[c] > 0 \/ circuit[c] > 0
  /\ cooling' = [c \in Candidates |-> IF cooling[c] > 0 THEN cooling[c] - 1 ELSE 0]
  /\ circuit' = [c \in Candidates |-> IF circuit[c] > 0 THEN circuit[c] - 1 ELSE circuit[c]]
  /\ UNCHANGED <<reason, fails, call>>

CallStep(k) ==
  \/ CircuitOpen(k) \/ Send(k) \/ Backoff(k) \/ Retry(k) \/ RequestFails(k) \/ Answer(k)

FailoverNext ==
  \/ \E k \in Calls : Start(k) \/ CallStep(k) \/ Refresh(k) \/ CancelCall(k) \/ Return(k)
  \/ \E c \in Candidates : OperatorClear(c)
  \/ Tick

FailoverSpec == FailoverInit /\ [][FailoverNext]_failoverVars

\* A request ends (httpx has a timeout), a pause ends, and time passes.
FailoverFairSpec == FailoverSpec /\ WF_failoverVars(Tick) /\ \A k \in Calls : WF_failoverVars(CallStep(k))

----------------------------------------------------------------------------
(* Properties.                                                              *)

\* A client whose failures have reached the threshold has its circuit open, or due
\* to be closed with the failures forgotten by the next call: no mix of concurrent
\* successes, failures and closings leaves a count that no cooldown goes with.
BreakerCounts == \A c \in Candidates : fails[c] >= Threshold => circuit[c] # Shut

\* A circuit closes after its cooldown (test_litellm_retry.py:147), so that the next
\* call reaches the provider.
CircuitCloses == \A c \in Candidates : circuit[c] > 0 ~> circuit[c] <= 0
=============================================================================
