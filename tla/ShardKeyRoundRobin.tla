------------------------- MODULE ShardKeyRoundRobin -------------------------
(***************************************************************************)
(* The shard-key weighted round robin                                      *)
(* (pkg/engines/load-balancer/shard_key_round_robin.go).                   *)
(*                                                                         *)
(* A sorted set in Redis remembers for each shard key which backends       *)
(* served it and when, in whole seconds.  A request reads the sets of its  *)
(* keys, trims the long ones in a second pipeline, tries the backends it   *)
(* read in their order, then the others by weight, each name once, and     *)
(* records the backend that served it.                                     *)
(*                                                                         *)
(* Names are numbers in their lexicographic order.  A pipeline that reads  *)
(* or writes several keys is one step.                                     *)
(***************************************************************************)
EXTENDS SmoothWeights, FiniteSets

CONSTANTS
    Names,          \* the name of each backend, Unnamed where it has none
    Requests,
    ShardKeys,      \* the shard keys of each request, the last counts most
    Keep,           \* the members a trim leaves, 3 in the code
    RetryMaxCount,
    MaxTime         \* bound: the last second of the model

ASSUME NamesAssumption == Names \in Seq(Nat) /\ Len(Names) = Len(Weights)
ASSUME KeepAssumption == {Keep, RetryMaxCount, MaxTime} \subseteq Nat

Unnamed == 0
Absent == -1
Nobody == 0
NameSet == Range(Names)
Keys == UNION {Range(ShardKeys[r]) : r \in Requests}

VARIABLES
    clock,     \* the wall clock, seconds
    zset,      \* Redis: for each key the score of each name
    current,   \* currentWeight of each backend
    pc,        \* where each request is
    plan,      \* its prioritizedBackends from prioritizedIndex on, as names
    trims,     \* for each key how many of the oldest members it will remove
    excluded,  \* its excludeNames
    failures,  \* its retryCount
    on,        \* the backend of its attempt
    allZero,   \* isAllZero of its last pick
    tried      \* history: the backends it has tried

loop == <<plan, trims, excluded, failures, on, allZero, tried>>
vars == <<clock, zset, current, pc, loop>>

Init ==
    /\ clock = 0
    /\ zset = [k \in Keys |-> [n \in NameSet |-> Absent]]
    /\ current \in InitialWeights
    /\ pc = [r \in Requests |-> "new"]
    /\ plan = [r \in Requests |-> <<>>]
    /\ trims = [r \in Requests |-> [k \in Keys |-> 0]]
    /\ excluded = [r \in Requests |-> {}]
    /\ failures = [r \in Requests |-> 0]
    /\ on = [r \in Requests |-> Nobody]
    /\ allZero = [r \in Requests |-> FALSE]
    /\ tried = [r \in Requests |-> {}]

-----------------------------------------------------------------------------
(* resolvePrioritizedBackends.                                             *)

Members(k) == {n \in NameSet : zset[k][n] # Absent}

\* The order of a sorted set: by score, then by name.
Older(k, m, n) ==
    zset[k][m] < zset[k][n] \/ (zset[k][m] = zset[k][n] /\ m < n)

\* The names that count: those whose last backend, the one that the map by
\* name keeps, has a positive weight.
Eligible(n) ==
    /\ n # Unnamed
    /\ \E b \in Backends :
          Names[b] = n /\ Weight[b] > 0 /\ \A c \in Backends : Names[c] = n => c <= b

\* The last of the keys that could be read that has the name.
KeyIndex(r, read, n) ==
    LET naming == {i \in DOMAIN ShardKeys[r] :
                      ShardKeys[r][i] \in read /\ n \in Members(ShardKeys[r][i])}
    IN  CHOOSE i \in naming : \A j \in naming : j <= i

\* Later keys first, and of one key the newest name first.
Preferred(r, read, m, n) ==
    LET i == KeyIndex(r, read, m)
        j == KeyIndex(r, read, n)
    IN  i > j \/ (i = j /\ Older(ShardKeys[r][i], n, m))

Prioritized(r, read) ==
    LET known == {n \in NameSet : Eligible(n) /\ \E k \in read : n \in Members(k)}
    IN  CHOOSE s \in [1 .. Cardinality(known) -> known] :
            \A i, j \in DOMAIN s : i < j => Preferred(r, read, s[i], s[j])

TrimCount(size) == IF size > Keep THEN size - Keep ELSE 0

\* The read pipeline.  A key whose read fails, each when the pipeline does,
\* gives no priority and nothing to trim.
Resolve(r) ==
    /\ pc[r] = "new"
    /\ \E read \in SUBSET Range(ShardKeys[r]) :
          /\ plan' = [plan EXCEPT ![r] = Prioritized(r, read)]
          /\ trims' = [trims EXCEPT ![r] =
                [k \in Keys |-> IF k \in read THEN TrimCount(Cardinality(Members(k))) ELSE 0]]
    /\ pc' = [pc EXCEPT ![r] = "resolved"]
    /\ UNCHANGED <<clock, zset, current, excluded, failures, on, allZero, tried>>

\* ZREMRANGEBYRANK k 0 count-1, of what is there by now.
Trimmed(k, count) ==
    [n \in NameSet |-> IF Cardinality({m \in Members(k) : Older(k, m, n)}) < count
                       THEN Absent ELSE zset[k][n]]

\* The trim pipeline; its failure is only logged.
Trim(r) ==
    /\ pc[r] = "resolved"
    /\ zset' \in {zset, [k \in Keys |-> Trimmed(k, trims[r][k])]}
    /\ pc' = [pc EXCEPT ![r] = "picking"]
    /\ trims' = [trims EXCEPT ![r] = [k \in Keys |-> 0]]
    /\ UNCHANGED <<clock, current, plan, excluded, failures, on, allZero, tried>>

-----------------------------------------------------------------------------
(* GetNextEngine, atomic under the mutex.                                  *)

Candidates(r) == {b \in Backends : Names[b] \notin excluded[r]}

\* Altered: the candidates of weight 0 take part.
WeightedAndZero(r) == Candidates(r)
Weighted(r) == {b \in Candidates(r) : Weight[b] > 0}

\* The prioritized backend of this round, if its name is not excluded.
Hits(r) ==
    IF plan[r] = <<>> THEN {} ELSE {b \in Weighted(r) : Names[b] = Head(plan[r])}

Heaviest(S) == {b \in S : \A c \in S : current[c] <= current[b]}
IsFirst(b, S) == b \in S /\ \A c \in S : b <= c
IsSelected(r, b) == IsFirst(b, IF Hits(r) # {} THEN Hits(r) ELSE Heaviest(Weighted(r)))

\* Altered: every backend grows, not only the candidates.
SettledForAll(r, b) ==
    [c \in Backends |->
        current[c] + Weight[c]
        - (IF c = b THEN SumFunctionOnSet(Weight, Weighted(r)) ELSE 0)]
\* The selected one pays the weights of the candidates, these grow by theirs.
Settled(r, b) ==
    [c \in Backends |->
        current[c] + (IF c \in Weighted(r) THEN Weight[c] ELSE 0)
        - (IF c = b THEN SumFunctionOnSet(Weight, Weighted(r)) ELSE 0)]

\* With no positive weight left the pick is random, and nobody pays.
Pick(r) ==
    /\ pc[r] = "picking"
    /\ \E b \in Candidates(r) :
          /\ IF Weighted(r) = {}
             THEN UNCHANGED current
             ELSE IsSelected(r, b) /\ current' = Settled(r, b)
          /\ on' = [on EXCEPT ![r] = b]
          /\ tried' = [tried EXCEPT ![r] = @ \cup {b}]
    /\ allZero' = [allZero EXCEPT ![r] = Weighted(r) = {}]
    /\ plan' = [plan EXCEPT ![r] = IF @ = <<>> THEN @ ELSE Tail(@)]
    /\ pc' = [pc EXCEPT ![r] = "trying"]
    /\ UNCHANGED <<clock, zset, trims, excluded, failures>>

\* "no backend engine available"
NoEngine(r) ==
    /\ pc[r] = "picking"
    /\ Candidates(r) = {}
    /\ pc' = [pc EXCEPT ![r] = "failed"]
    /\ UNCHANGED <<clock, zset, current, loop>>

-----------------------------------------------------------------------------
(* The attempt.                                                            *)

\* A random pick is not worth remembering.
Records(r) == ~allZero[r]

\* The mapping is written for every key of the request, or the write fails.
Succeed(r) ==
    /\ pc[r] = "trying"
    /\ \/ /\ Records(r)
          /\ zset' = [k \in Keys |->
                IF k \in Range(ShardKeys[r])
                THEN [zset[k] EXCEPT ![Names[on[r]]] = clock] ELSE zset[k]]
       \/ UNCHANGED zset
    /\ pc' = [pc EXCEPT ![r] = "ok"]
    /\ UNCHANGED <<clock, current, loop>>

FailForGood(r) ==
    /\ pc[r] = "trying"
    /\ pc' = [pc EXCEPT ![r] = "failed"]
    /\ UNCHANGED <<clock, zset, current, loop>>

\* Altered: the name is not excluded.
ExcludedNot(r) == excluded[r]
ExcludedNow(r) == excluded[r] \cup {Names[on[r]]}

\* The name is excluded; the retry ends with the context, the time, the count
\* or the number of backends.
Fail(r) ==
    /\ pc[r] = "trying"
    /\ excluded' = [excluded EXCEPT ![r] = ExcludedNow(r)]
    /\ failures' = [failures EXCEPT ![r] = @ + 1]
    /\ \/ pc' = [pc EXCEPT ![r] = "failed"]
       \/ /\ failures[r] + 1 < RetryMaxCount
          /\ Cardinality(ExcludedNow(r)) < Len(Weights)
          /\ pc' = [pc EXCEPT ![r] = "picking"]
    /\ UNCHANGED <<clock, zset, current, plan, trims, on, allZero, tried>>

-----------------------------------------------------------------------------
(* The environment.                                                        *)

\* The TTL, at least a second, is renewed by every write.
KeyExpires(k) ==
    /\ Members(k) # {}
    /\ \A n \in Members(k) : zset[k][n] < clock
    /\ zset' = [zset EXCEPT ![k] = [n \in NameSet |-> Absent]]
    /\ UNCHANGED <<clock, current, pc, loop>>

Tick ==
    /\ clock < MaxTime
    /\ clock' = clock + 1
    /\ UNCHANGED <<zset, current, pc, loop>>

Finished ==
    /\ \A r \in Requests : pc[r] \in {"ok", "failed"}
    /\ UNCHANGED vars

Next ==
    \/ \E r \in Requests :
          \/ Resolve(r) \/ Trim(r) \/ Pick(r) \/ NoEngine(r)
          \/ Succeed(r) \/ FailForGood(r) \/ Fail(r)
    \/ \E k \in Keys : KeyExpires(k)
    \/ Tick
    \/ Finished

Spec == Init /\ [][Next]_vars

-----------------------------------------------------------------------------
(* Properties.                                                             *)

TypeOK ==
    /\ clock \in Nat
    /\ zset \in [Keys -> [NameSet -> Nat \cup {Absent}]]
    /\ current \in [Backends -> Int]
    /\ pc \in [Requests -> {"new", "resolved", "picking", "trying", "ok", "failed"}]
    /\ plan \in [Requests -> Seq(NameSet)]
    /\ trims \in [Requests -> [Keys -> Nat]]
    /\ excluded \in [Requests -> SUBSET NameSet]
    /\ failures \in [Requests -> Nat]
    /\ on \in [Requests -> Backends \cup {Nobody}]
    /\ allZero \in [Requests -> BOOLEAN]
    /\ tried \in [Requests -> SUBSET Backends]

Picks(r) == pc[r] = "picking" /\ pc'[r] = "trying"

\* No retry goes to a backend that has failed the request.
NoBackendTwice == [][\A r \in Requests : Picks(r) => on'[r] \notin tried[r]]_vars

\* A backend of weight 0 is the last resort: it gets a request only when the
\* request has failed at every name that has a weight.
ZeroWeightLast ==
    [][\A r \in Requests : Picks(r) /\ Weight[on'[r]] = 0 =>
          \A b \in Backends : Weight[b] > 0 => \E c \in tried[r] : Names[c] = Names[b]]_vars

\* However hits, retries and exclusions interleave, no weight is created or
\* lost: what one backend gains another one pays.
WeightConserved == [][SumFunction(current)' = SumFunction(current)]_vars

\* "should not happen": while the names are distinct, a request that goes on
\* always finds a backend it has not tried.
DistinctNames == \A b, c \in Backends : Names[b] = Names[c] => b = c
NeverEmptyHanded == \A r \in Requests : pc[r] = "picking" => Candidates(r) # {}
=============================================================================
