------------------------- MODULE ShardKeyConcurrency -------------------------
(***************************************************************************)
(* The concurrency-based load balancer with shard keys                     *)
(* (pkg/engines/load-balancer/shard_key_concurrency.go), above backends    *)
(* that a concurrency limiter guards: the balancer reads the limiter's     *)
(* counts before it dispatches, the limiter counts the request after.      *)
(*                                                                         *)
(* A request that no shard key leads to a backend, or only a weak one, may *)
(* use a backend up to its ceiling; the rest is headroom for requests with *)
(* a strong hit, one of the last two shard keys.  How shard keys become a  *)
(* list of hits is in ShardKeyRoundRobin; here the list is an input.       *)
(***************************************************************************)
EXTENDS Integers, Sequences, FiniteSets

CONSTANTS
    Calls,           \* the requests
    Engines,         \* the backends, by name: the names are distinct
    Dynamic,         \* those whose MaxConcurrencyFn answers as it likes
    Capacity,        \* what the others, and these at first, have
    Ceiling,         \* cacheMissMaxUtilization, percent
    Plans,           \* the possible lists of hits [to, strong]
    MaxRetries,
    CountsMayFail    \* whether Redis may fail to answer with the counts

ASSUME EnginesAssumption == IsFiniteSet(Engines) /\ Dynamic \subseteq Engines
ASSUME CapacityAssumption ==
    /\ Capacity \in [Engines -> Nat] /\ Ceiling \in [Engines -> Nat]
    /\ MaxRetries \in Nat /\ CountsMayFail \in BOOLEAN
\* resolvePrioritizedBackends lists each backend once.
ASSUME PlansAssumption ==
    /\ Plans \subseteq Seq([to : Engines, strong : BOOLEAN])
    /\ \A p \in Plans : \A i, j \in DOMAIN p : p[i].to = p[j].to => i = j

NoEngine == "nobody"

VARIABLES
    cap,         \* maxConcurrencyFn of each backend
    place,       \* where each request is
    plan,        \* its hits from prioritizedIndex on
    excluded,    \* its excludeNames
    retryCount,  \* its failures
    target,      \* the backend of its attempt
    tried        \* history: the backends it has tried

balancerVars == <<cap, place, plan, excluded, retryCount, target, tried>>

BalancerInit ==
    /\ cap = Capacity
    /\ place = [r \in Calls |-> "choosing"]
    /\ plan \in [Calls -> Plans]
    /\ excluded = [r \in Calls |-> {}]
    /\ retryCount = [r \in Calls |-> 0]
    /\ target = [r \in Calls |-> NoEngine]
    /\ tried = [r \in Calls |-> {}]

-----------------------------------------------------------------------------
(* Counts and ceilings.                                                    *)

Holders(b) == {r \in Calls : place[r] \in {"running", "open"} /\ target[r] = b}
Count(b) == Cardinality(Holders(b))

HeadroomEnabled(b) == 0 < Ceiling[b] /\ Ceiling[b] < 100
OverHeadroom(b, capacity) == capacity <= 0 \/ Count(b) * 100 > Ceiling[b] * capacity

\* What a second call of maxConcurrencyFn in the same round may answer.
Answers(b) == {cap[b]} \cup IF b \in Dynamic THEN {0, Capacity[b]} ELSE {}

\* The backends of the least utilization among those with capacity.
LeastUtilized(S) ==
    {b \in S : cap[b] > 0 /\ \A c \in S : cap[c] > 0 => Count(b) * cap[c] <= Count(c) * cap[b]}

-----------------------------------------------------------------------------
(* Process: one round of the loop chooses a backend or excludes one.       *)

Dispatch(r, b) ==
    /\ place' = [place EXCEPT ![r] = "dispatched"]
    /\ target' = [target EXCEPT ![r] = b]
    /\ tried' = [tried EXCEPT ![r] = @ \cup {b}]
    /\ UNCHANGED <<excluded, retryCount>>

\* Altered: a failover ends with the generic error.
EndAlways(r, otherwise) == otherwise
\* Altered: continue where the code returns.
EndNever(r, otherwise) == IF retryCount[r] > 0 THEN "failed" ELSE "choosing"
\* A failover ends with the error of its last backend.
EndOr(r, otherwise) == IF retryCount[r] > 0 THEN "failed" ELSE otherwise

\* Over its ceiling: excluded, and the loop goes on while others are left.
ExcludeOver(r, b) ==
    /\ excluded' = [excluded EXCEPT ![r] = @ \cup {b}]
    /\ place' = [place EXCEPT ![r] = IF excluded[r] \cup {b} = Engines
                                     THEN EndOr(r, "rejected") ELSE "choosing"]
    /\ UNCHANGED <<target, retryCount, tried>>

\* Only weak hits are held to the ceiling.
Gated(hit) == ~hit.strong /\ HeadroomEnabled(hit.to)

\* The next hit.  A failed ZCARD counts as under the ceiling.
TryHit(r) ==
    /\ place[r] = "choosing"
    /\ plan[r] # <<>>
    /\ plan' = [plan EXCEPT ![r] = Tail(@)]
    /\ LET hit == Head(plan[r])
           b == hit.to
       IN  \/ /\ cap[b] <= 0
              /\ excluded' = [excluded EXCEPT ![r] = @ \cup {b}]
              /\ UNCHANGED <<place, target, retryCount, tried>>
           \/ /\ cap[b] > 0 /\ Gated(hit)
              /\ \E capacity \in Answers(b) : OverHeadroom(b, capacity)
              /\ ExcludeOver(r, b)
           \/ /\ cap[b] > 0
              /\ Gated(hit) =>
                    \E capacity \in Answers(b) :
                        capacity > 0 /\ (OverHeadroom(b, capacity) => CountsMayFail)
              /\ Dispatch(r, b)
    /\ UNCHANGED cap

\* No hits left: the least utilized of the rest, by its own ceiling; when the
\* counts cannot be read any with capacity.
Select(r) ==
    /\ place[r] = "choosing"
    /\ plan[r] = <<>>
    /\ LET rest == Engines \ excluded[r]
       IN  \/ \E b \in LeastUtilized(rest) :
                \/ HeadroomEnabled(b) /\ OverHeadroom(b, cap[b]) /\ ExcludeOver(r, b)
                \/ ~(HeadroomEnabled(b) /\ OverHeadroom(b, cap[b])) /\ Dispatch(r, b)
           \/ \E b \in rest : CountsMayFail /\ cap[b] > 0 /\ Dispatch(r, b)
           \/ /\ \A b \in rest : cap[b] <= 0
              /\ place' = [place EXCEPT ![r] = EndOr(r, "noengine")]
              /\ UNCHANGED <<target, excluded, retryCount, tried>>
    /\ UNCHANGED <<cap, plan>>

\* The limiter of the backend takes the request, or the attempt fails: at the
\* limit, at the limiter, upstream.
Acquire(r) ==
    /\ place[r] = "dispatched"
    /\ Count(target[r]) < cap[target[r]]
    /\ place' = [place EXCEPT ![r] = "running"]
    /\ UNCHANGED <<cap, plan, excluded, retryCount, target, tried>>

\* Process returns the response, whose slot is held until it is closed.
Return(r) ==
    /\ place[r] = "running"
    /\ place' = [place EXCEPT ![r] = "open"]
    /\ UNCHANGED <<cap, plan, excluded, retryCount, target, tried>>

Close(r) ==
    /\ place[r] = "open"
    /\ place' = [place EXCEPT ![r] = "ok"]
    /\ UNCHANGED <<cap, plan, excluded, retryCount, target, tried>>

\* Altered: the backend that failed is not excluded.
ExcludedNot(r) == excluded[r]
ExcludedNow(r) == excluded[r] \cup {target[r]}

\* The upstream finds the request too large: not retriable, returned at once.
GiveUp(r) ==
    /\ place[r] = "running"
    /\ place' = [place EXCEPT ![r] = "failed"]
    /\ UNCHANGED <<cap, plan, excluded, retryCount, target, tried>>

\* Any other error: returned when the context, the time, the count or the
\* backends are at their end; else the loop goes on.
AttemptFails(r) ==
    /\ place[r] \in {"dispatched", "running"}
    /\ excluded' = [excluded EXCEPT ![r] = ExcludedNow(r)]
    /\ retryCount' = [retryCount EXCEPT ![r] = @ + 1]
    /\ \/ place' = [place EXCEPT ![r] = "failed"]
       \/ /\ retryCount[r] + 1 < MaxRetries
          /\ ExcludedNow(r) # Engines
          /\ place' = [place EXCEPT ![r] = "choosing"]
    /\ UNCHANGED <<cap, plan, target, tried>>

-----------------------------------------------------------------------------
(* The environment.                                                        *)

Resize(b) ==
    /\ cap' \in {[cap EXCEPT ![b] = 0], [cap EXCEPT ![b] = Capacity[b]]}
    /\ UNCHANGED <<place, plan, excluded, retryCount, target, tried>>

Ends == {"ok", "failed", "rejected", "noengine"}

BalancerNext ==
    \/ \E r \in Calls :
          \/ TryHit(r) \/ Select(r) \/ Acquire(r)
          \/ Return(r) \/ Close(r) \/ GiveUp(r) \/ AttemptFails(r)
    \/ \E b \in Dynamic : Resize(b)

\* The loop of a request runs; engines return and responses are closed.
Fairness ==
    \A r \in Calls :
        /\ WF_balancerVars(TryHit(r)) /\ WF_balancerVars(Select(r))
        /\ WF_balancerVars(Return(r) \/ GiveUp(r) \/ AttemptFails(r)) /\ WF_balancerVars(Close(r))

BalancerSpec == BalancerInit /\ [][BalancerNext]_balancerVars /\ Fairness

-----------------------------------------------------------------------------
(* Properties.                                                             *)

PCs == Ends \cup {"choosing", "dispatched", "running", "open"}

BalancerTypeOK ==
    /\ cap \in [Engines -> Nat]
    /\ place \in [Calls -> PCs]
    /\ excluded \in [Calls -> SUBSET Engines]
    /\ retryCount \in [Calls -> Nat]
    /\ target \in [Calls -> Engines \cup {NoEngine}]
    /\ tried \in [Calls -> SUBSET Engines]
    /\ \A r \in Calls : place[r] \in {"dispatched", "running", "open"} => target[r] \in tried[r]

\* A request never fails over to a backend it has tried, hits and fallbacks
\* taken together.
NoBackendTwice ==
    [][\A r \in Calls :
          place[r] = "choosing" /\ place'[r] = "dispatched" => target'[r] \notin tried[r]]_balancerVars

\* "surface the previous error rather than masking it": a request that
\* reached a backend ends with that backend's answer, not with the
\* balancer's own error.
FailoverKeepsError ==
    \A r \in Calls : place[r] \in {"rejected", "noengine"} => tried[r] = {}

\* The loop ends, with its rounds that only exclude a backend, and whatever
\* the capacities do meanwhile.
RequestsEnd == \A r \in Calls : <>(place[r] \in Ends)
=============================================================================
