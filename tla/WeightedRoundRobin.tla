------------------------- MODULE WeightedRoundRobin -------------------------
(***************************************************************************)
(* The weighted round robin load balancer and its retries                  *)
(* (pkg/engines/load-balancer/round_robin.go).  Picking is atomic, under   *)
(* the balancer's mutex; the requests' attempts interleave.                *)
(*                                                                         *)
(* Three history variables, first, picked and picks, relate what was       *)
(* picked to the configured weights.                                       *)
(***************************************************************************)
EXTENDS SmoothWeights, FiniteSets

CONSTANTS
    Requests,
    RetryMaxCount  \* retryMaxCount: it counts failures, the first one too

ASSUME RetryAssumption == RetryMaxCount \in Nat

VARIABLES
    current,  \* currentWeight of each backend
    pc,       \* where each request's loop is
    on,       \* the backend of its attempt
    failures, \* its retryCount
    first,    \* history: the initial currentWeight
    picked,   \* history: how often each backend was picked
    picks     \* history: how often any was

history == <<first, picked, picks>>
vars == <<current, pc, on, failures, history>>

Nobody == 0

Init ==
    /\ current \in InitialWeights
    /\ first = current
    /\ pc = [r \in Requests |-> "picking"]
    /\ on = [r \in Requests |-> Nobody]
    /\ failures = [r \in Requests |-> 0]
    /\ picked = [b \in Backends |-> 0]
    /\ picks = 0

\* GetNextEngine, and the call of the engine it returns.
Pick(r) ==
    /\ pc[r] = "picking"
    /\ \E b \in Backends :
          /\ IsPicked(b, Raised(current))
          /\ current' = Paid(Raised(current), b)
          /\ on' = [on EXCEPT ![r] = b]
          /\ picked' = [picked EXCEPT ![b] = @ + 1]
    /\ picks' = picks + 1
    /\ pc' = [pc EXCEPT ![r] = "trying"]
    /\ UNCHANGED <<failures, first>>

Succeed(r) ==
    /\ pc[r] = "trying"
    /\ pc' = [pc EXCEPT ![r] = "ok"]
    /\ UNCHANGED <<current, on, failures, history>>

\* The error is not retriable (413): it is not counted.
FailForGood(r) ==
    /\ pc[r] = "trying"
    /\ pc' = [pc EXCEPT ![r] = "failed"]
    /\ UNCHANGED <<current, on, failures, history>>

\* Any other error: counted, and retried unless the request's context is
\* done, the retry time is over or the count is reached.
Fail(r) ==
    /\ pc[r] = "trying"
    /\ failures' = [failures EXCEPT ![r] = @ + 1]
    /\ \/ pc' = [pc EXCEPT ![r] = "failed"]
       \/ /\ failures[r] + 1 < RetryMaxCount
          /\ pc' = [pc EXCEPT ![r] = "picking"]
    /\ UNCHANGED <<current, on, history>>

Finished ==
    /\ \A r \in Requests : pc[r] \in {"ok", "failed"}
    /\ UNCHANGED vars

Attempt(r) == Succeed(r) \/ FailForGood(r) \/ Fail(r)
Next ==
    \/ \E r \in Requests : Pick(r) \/ Attempt(r)
    \/ Finished

Spec == Init /\ [][Next]_vars

-----------------------------------------------------------------------------
(* Properties.                                                             *)

TypeOK ==
    /\ current \in [Backends -> Int]
    /\ pc \in [Requests -> {"picking", "trying", "ok", "failed"}]
    /\ on \in [Requests -> Backends \cup {Nobody}]
    /\ failures \in [Requests -> {0, 1} \cup 0 .. RetryMaxCount]
    /\ first \in [Backends -> Int]
    /\ picked \in [Backends -> Nat]
    /\ picks \in Nat

\* A backend that weighs 0 beside others that do not gets no request, not by
\* a retry either.
ZeroNeverPicked == \A b \in Backends : Weight[b] = 0 => picked[b] = 0

\* However the requests and their retries interleave, a backend is ahead of
\* its share of the picks by less than one and its fraction of the weights.
NoOverload ==
    \A b \in Backends : picked[b] * Total < picks * Weight[b] + Weight[b] + Total

\* Nor is it behind its share by more, with a few backends.  It is not so for
\* every list: with dozens of light backends beside a heavy one, a backend
\* that weighs a tenth of the heavy one is at times further behind.
NoStarvation ==
    \A b \in Backends : picked[b] * Total > picks * Weight[b] - Weight[b] - Total

\* For every list: it is never behind its share by more picks than there are
\* backends.
NeverForgotten ==
    \A b \in Backends : picked[b] * Total >= picks * Weight[b] - Len(Weights) * Total

=============================================================================
