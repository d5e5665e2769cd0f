---------------------------- MODULE BalancerProofs ----------------------------
(***************************************************************************)
(* Theorems about two load balancers: weighted round robin, for every list *)
(* of weights, every number of requests and every retry count, and the     *)
(* concurrency-based one, for every set of backends, capacities, ceilings, *)
(* lists of hits and requests.                                             *)
(*                                                                         *)
(* Weighted round robin rests on a ledger for each backend: its current    *)
(* weight is what it began with, plus its weight for every pick, minus the *)
(* total for every pick of its own; and it stays above minus the total,    *)
(* because only a backend raised above 0 pays.  What relates the backends  *)
(* to each other rests on the sum of the current weights, which no pick    *)
(* changes: it is raised above 0, so that the largest is.                  *)
(*                                                                         *)
(* The other rests on the bookkeeping of its loop.  While a request        *)
(* chooses, all it has tried is excluded; and it has tried nothing, or     *)
(* counted a failure.  A hit is left out of the rest of its list once it   *)
(* is tried.                                                               *)
(***************************************************************************)
EXTENDS WeightedRoundRobin, ShardKeyConcurrency, SequenceTheorems, FoldTheorems

-----------------------------------------------------------------------------
(* Weighted round robin.                                                   *)

Ledger ==
    \A b \in Backends :
        /\ first[b] \in 0 .. Weight[b]
        /\ current[b] = first[b] + picks * Weight[b] - picked[b] * Total
        /\ current[b] > 0 - Total
        /\ Weight[b] = 0 => current[b] = 0 /\ picked[b] = 0

\* A request whose loop goes on has failures left.
FailuresLeft ==
    \A r \in Requests :
        pc[r] \in {"picking", "trying"} => failures[r] = 0 \/ failures[r] < RetryMaxCount

IInv == TypeOK /\ Ledger /\ FailuresLeft

\* The weights that are in force are numbers.
LEMMA WeightType == Weight \in [Backends -> Nat]
  BY WeightsAssumption, DefaultAssumption DEF Weight, Backends

\* The backends are numbered.
LEMMA BackendsFinite ==
  /\ Backends = 1 .. Len(Weights) /\ Len(Weights) \in Nat \ {0}
  /\ IsFiniteSet(Backends) /\ Cardinality(Backends) = Len(Weights)
  <1>1. Backends = 1 .. Len(Weights) /\ Len(Weights) \in Nat /\ Len(Weights) > 0
    BY WeightsAssumption DEF Backends
  <1>2. /\ IsFiniteSet(1 .. Len(Weights))
        /\ Cardinality(1 .. Len(Weights)) = IF 1 > Len(Weights) THEN 0 ELSE Len(Weights) - 1 + 1
    BY <1>1, FS_Interval
  <1> QED BY <1>1, <1>2

\* One of them weighs something.
LEMMA TotalType == Total \in Nat /\ Total > 0
  <1>1. PICK b \in Backends : Weight[b] > 0
    <2>1. CASE AllZero
      BY <2>1, BackendsFinite, DefaultAssumption DEF Weight
    <2>2. CASE ~AllZero
      BY <2>2, WeightsAssumption DEF AllZero, Weight, Backends
    <2> QED BY <2>1, <2>2
  <1> DEFINE own == [x \in Backends |-> IF x = b THEN Weight[b] ELSE 0]
  <1>2. \A x \in Backends : own[x] \in Int /\ Weight[x] \in Int /\ own[x] <= Weight[x]
    BY WeightType
  <1>3. SumFunctionOnSet(own, Backends) = Weight[b]
    <2>1. own[b] = Weight[b] /\ \A x \in Backends : x # b => own[x] = 0
      OBVIOUS
    <2> HIDE DEF own
    <2> QED BY <2>1, SumOfOne, BackendsFinite, WeightType
  <1>4. SumFunctionOnSet(own, Backends) <= SumFunctionOnSet(Weight, Backends)
    <2> HIDE DEF own
    <2> QED BY <1>2, SumGrows, BackendsFinite
  <1>5. Total = SumFunctionOnSet(Weight, Backends) /\ Total \in Int
    BY SumType, BackendsFinite, WeightType DEF Total, SumFunction
  <1> QED BY <1>1, <1>3, <1>4, <1>5, WeightType

\* What every pick adds to the ledger.
LEMMA OnePickMore ==
  ASSUME NEW n \in Nat, NEW w \in Nat
  PROVE  (n + 1) * w = n * w + w
  BY SMT

LEMMA InitIInv == Init => IInv
  <1> SUFFICES ASSUME Init PROVE IInv
    OBVIOUS
  <1> USE WeightType, TotalType
  <1>1. current \in [Backends -> 0 .. Total] /\ \A b \in Backends : current[b] <= Weight[b]
    BY DEF Init, InitialWeights
  <1>2. TypeOK
    BY <1>1 DEF Init, TypeOK
  <1>3. ASSUME NEW b \in Backends
        PROVE  /\ first[b] \in 0 .. Weight[b]
               /\ current[b] = first[b] + picks * Weight[b] - picked[b] * Total
               /\ current[b] > 0 - Total
               /\ Weight[b] = 0 => current[b] = 0 /\ picked[b] = 0
    <2>1. picked[b] = 0 /\ picks = 0 /\ first[b] = current[b]
      BY DEF Init
    <2>2. current[b] \in 0 .. Total /\ current[b] <= Weight[b] /\ Weight[b] \in Nat
      BY <1>1
    <2> QED BY <2>1, <2>2
  <1>4. FailuresLeft
    BY DEF Init, FailuresLeft
  <1> QED BY <1>2, <1>3, <1>4 DEF IInv, Ledger

LEMMA NextIInv == IInv /\ [Next]_vars => IInv'
  <1> SUFFICES ASSUME IInv, [Next]_vars PROVE IInv'
    OBVIOUS
  <1> USE WeightType, TotalType
  <1>1. CASE UNCHANGED vars
    BY <1>1 DEF vars, history, IInv, TypeOK, Ledger, FailuresLeft
  <1>2. ASSUME NEW r \in Requests, Pick(r) PROVE IInv'
    <2>1. PICK b \in Backends :
            /\ IsPicked(b, Raised(current))
            /\ current' = Paid(Raised(current), b)
            /\ on' = [on EXCEPT ![r] = b]
            /\ picked' = [picked EXCEPT ![b] = @ + 1]
      BY <1>2 DEF Pick
    <2>2. /\ pc' = [pc EXCEPT ![r] = "trying"] /\ picks' = picks + 1
          /\ failures' = failures /\ first' = first
      BY <1>2 DEF Pick
    <2>3. /\ current \in [Backends -> Int] /\ picked \in [Backends -> Nat]
          /\ picks \in Nat /\ first \in [Backends -> Int]
      BY DEF IInv, TypeOK
    <2>4. \A c \in Backends : Raised(current)[c] = current[c] + Weight[c]
      BY DEF Raised
    <2>5. Raised(current) \in [Backends -> Int]
      BY <2>3 DEF Raised
    <2>6. current' = [Raised(current) EXCEPT ![b] = @ - Total]
      BY <2>1 DEF Paid
    <2>7. current[b] + Weight[b] > 0
      BY <2>1, <2>4 DEF IsPicked
    <2>8. TypeOK'
      <3>1. current' \in [Backends -> Int]
        BY <2>5, <2>6
      <3>2. picked' \in [Backends -> Nat]
        BY <2>1, <2>3
      <3> QED BY <2>1, <2>2, <2>3, <3>1, <3>2 DEF IInv, TypeOK
    <2>9. ASSUME NEW c \in Backends
          PROVE  /\ first'[c] \in 0 .. Weight[c]
                 /\ current'[c] = first'[c] + picks' * Weight[c] - picked'[c] * Total
                 /\ current'[c] > 0 - Total
                 /\ Weight[c] = 0 => current'[c] = 0 /\ picked'[c] = 0
      <3>1. /\ first[c] \in 0 .. Weight[c]
            /\ current[c] = first[c] + picks * Weight[c] - picked[c] * Total
            /\ current[c] > 0 - Total
            /\ Weight[c] = 0 => current[c] = 0 /\ picked[c] = 0
        BY DEF IInv, Ledger
      <3>2. picks' * Weight[c] = picks * Weight[c] + Weight[c]
        BY <2>2, <2>3, OnePickMore
      <3>3. picks * Weight[c] \in Int /\ picked[c] * Total \in Int
        BY <2>3
      <3>4. CASE c = b
        <4>1. current'[c] = current[c] + Weight[c] - Total
          <5>1. current'[b] = Raised(current)[b] - Total
            BY <2>5, <2>6
          <5>2. Raised(current)[b] = current[b] + Weight[b]
            BY <2>4
          <5>3. current'[b] = current[b] + Weight[b] - Total
            BY <5>1, <5>2, <2>3, <2>5, Weight[b] \in Nat, Total \in Nat
          <5> QED BY <5>3, <3>4
        <4>2. picked'[c] = picked[c] + 1
          BY <2>1, <2>3, <3>4
        <4>3. picked'[c] * Total = picked[c] * Total + Total
          BY <2>3, <4>2, OnePickMore
        <4>4. Weight[c] # 0
          BY <2>3, <2>7, <3>1, <3>4
        <4> QED BY <2>2, <2>3, <2>7, <3>1, <3>2, <3>3, <3>4, <4>1, <4>3, <4>4
      <3>5. CASE c # b
        <4>1. current'[c] = current[c] + Weight[c]
          BY <2>4, <2>5, <2>6, <3>5
        <4>2. picked'[c] = picked[c]
          BY <2>1, <2>3, <3>5
        <4> QED BY <2>2, <2>3, <3>1, <3>2, <3>3, <4>1, <4>2
      <3> QED BY <3>4, <3>5
    <2>10. FailuresLeft'
      BY <1>2, <2>2 DEF Pick, IInv, TypeOK, FailuresLeft
    <2> QED BY <2>8, <2>9, <2>10 DEF IInv, Ledger
  <1>3. ASSUME NEW r \in Requests, Attempt(r) PROVE IInv'
    <2>1. UNCHANGED <<current, on, history>>
      BY <1>3 DEF Attempt, Succeed, FailForGood, Fail
    <2>2. pc' \in [Requests -> {"picking", "trying", "ok", "failed"}]
      BY <1>3 DEF Attempt, Succeed, FailForGood, Fail, IInv, TypeOK
    <2>3. failures' \in [Requests -> {0, 1} \cup 0 .. RetryMaxCount] /\ FailuresLeft'
      <3>1. /\ failures \in [Requests -> {0, 1} \cup 0 .. RetryMaxCount]
            /\ pc \in [Requests -> {"picking", "trying", "ok", "failed"}]
            /\ FailuresLeft
        BY DEF IInv, TypeOK
      <3>2. CASE failures' = failures /\ (pc' = [pc EXCEPT ![r] = "ok"] \/ pc' = [pc EXCEPT ![r] = "failed"])
        BY <3>1, <3>2 DEF FailuresLeft
      <3>3. CASE Fail(r)
        <4>1. failures[r] = 0 \/ failures[r] < RetryMaxCount
          BY <3>1, <3>3 DEF Fail, FailuresLeft
        <4>2. failures[r] \in Nat /\ failures'= [failures EXCEPT ![r] = @ + 1]
          BY <3>1, <3>3 DEF Fail
        <4>3. failures[r] + 1 \in {0, 1} \cup 0 .. RetryMaxCount
          BY <3>1, <4>1, <4>2, RetryAssumption
        <4>4. failures' \in [Requests -> {0, 1} \cup 0 .. RetryMaxCount]
          BY <3>1, <4>2, <4>3
        <4>5. FailuresLeft'
          BY <3>1, <3>3, <4>2 DEF Fail, FailuresLeft
        <4> QED BY <4>4, <4>5
      <3> QED BY <1>3, <3>2, <3>3 DEF Attempt, Succeed, FailForGood
    <2> QED BY <2>1, <2>2, <2>3 DEF IInv, TypeOK, Ledger, history
  <1> QED BY <1>1, <1>2, <1>3 DEF Next, Finished

\* The ledger holds throughout (GetNextEngine).
THEOREM Invariant == Spec => []IInv
  BY InitIInv, NextIInv, PTL DEF Spec

\* Every reachable state has the declared types (NewWeightedRoundRobin,
\* GetNextEngine and Process write nothing else).
THEOREM TypeCorrect == Spec => []TypeOK
  <1>1. IInv => TypeOK
    BY DEF IInv
  <1> QED BY <1>1, Invariant, PTL

\* A backend of weight 0 beside others is never picked by GetNextEngine.
THEOREM SwitchedOffStaysOff == Spec => []ZeroNeverPicked
  <1>1. IInv => ZeroNeverPicked
    BY DEF IInv, Ledger, ZeroNeverPicked
  <1> QED BY <1>1, Invariant, PTL

\* No order of picks and retries gives a backend of GetNextEngine a pick and
\* its fraction more than its share.
THEOREM ShareBounded == Spec => []NoOverload
  <1>1. IInv => NoOverload
    <2> SUFFICES ASSUME IInv, NEW b \in Backends
                 PROVE  picked[b] * Total < picks * Weight[b] + Weight[b] + Total
      BY DEF NoOverload
    <2>1. /\ first[b] \in 0 .. Weight[b]
          /\ current[b] = first[b] + picks * Weight[b] - picked[b] * Total
          /\ current[b] > 0 - Total
      BY DEF IInv, Ledger
    <2>2. picks * Weight[b] \in Int /\ picked[b] * Total \in Int /\ Weight[b] \in Nat
      BY WeightType, TotalType DEF IInv, TypeOK
    <2> QED BY <2>1, <2>2, TotalType
  <1> QED BY <1>1, Invariant, PTL

-----------------------------------------------------------------------------
(* The sum of all current weights.                                         *)

CurrentSum == SumFunctionOnSet(current, Backends)

\* A pick adds the total, and the one picked pays it.
LEMMA PickKeepsSum ==
  ASSUME NEW c \in [Backends -> Int], NEW b \in Backends
  PROVE  /\ SumFunctionOnSet(Raised(c), Backends) = SumFunctionOnSet(c, Backends) + Total
         /\ SumFunctionOnSet(Paid(Raised(c), b), Backends) = SumFunctionOnSet(c, Backends)
  <1> USE BackendsFinite
  <1> DEFINE pays == [x \in Backends |-> IF x = b THEN -Total ELSE 0]
             raised == Raised(c)
             paid == Paid(raised, b)
  <1>1. \A x \in Backends : c[x] \in Int /\ Weight[x] \in Int /\ raised[x] = c[x] + Weight[x]
    BY WeightType DEF Raised
  <1>2. pays[b] = -Total /\ \A x \in Backends : x # b => pays[x] = 0
    OBVIOUS
  <1>3. \A x \in Backends : raised[x] \in Int /\ pays[x] \in Int /\ paid[x] = raised[x] + pays[x]
    <2>1. raised = [x \in Backends |-> c[x] + Weight[x]] /\ paid = [raised EXCEPT ![b] = @ - Total]
      BY DEF Raised, Paid
    <2>2. raised \in [Backends -> Int]
      BY <1>1, <2>1
    <2>3. paid[b] = raised[b] - Total
      BY <2>1
    <2>4. \A x \in Backends \ {b} : paid[x] = raised[x]
      BY <2>1
    <2> HIDE DEF raised, paid
    <2>5. \A x \in Backends : raised[x] \in Int /\ pays[x] \in Int
      BY <2>2, TotalType
    <2>6. raised[b] - Total = raised[b] + pays[b]
      BY <2>5, TotalType
    <2>7. \A x \in Backends \ {b} : raised[x] = raised[x] + pays[x]
      BY <2>5
    <2> QED BY <2>3, <2>4, <2>5, <2>6, <2>7
  <1> HIDE DEF pays, raised, paid
  <1>4. SumFunctionOnSet(raised, Backends)
          = SumFunctionOnSet(c, Backends) + SumFunctionOnSet(Weight, Backends)
    BY <1>1, SumAdds
  <1>5. SumFunctionOnSet(paid, Backends)
          = SumFunctionOnSet(raised, Backends) + SumFunctionOnSet(pays, Backends)
    BY <1>3, SumAdds
  <1>6. SumFunctionOnSet(pays, Backends) = -Total
    <2>1. -Total \in Int
      BY TotalType
    <2> QED BY <1>2, <2>1, SumOfOne
  <1>7. SumFunctionOnSet(Weight, Backends) = Total
    BY WeightType DEF Total, SumFunction
  <1>8. SumFunctionOnSet(c, Backends) \in Int
    BY <1>1, SumType
  <1> QED BY <1>4, <1>5, <1>6, <1>7, <1>8, TotalType DEF raised, paid

\* The sum is never below 0, nor above the total.
SumInv == CurrentSum \in 0 .. Total

\* Only a pick writes the current weights.
LEMMA SumInvStep == IInv /\ SumInv /\ [Next]_vars => SumInv'
  <1> SUFFICES ASSUME IInv, SumInv, [Next]_vars PROVE SumInv'
    OBVIOUS
  <1>1. ASSUME NEW r \in Requests, Pick(r) PROVE CurrentSum' = CurrentSum
    <2>1. PICK b \in Backends : current' = Paid(Raised(current), b)
      BY <1>1 DEF Pick
    <2> QED BY <2>1, PickKeepsSum DEF CurrentSum, IInv, TypeOK
  <1>2. ASSUME UNCHANGED current PROVE CurrentSum' = CurrentSum
    BY <1>2 DEF CurrentSum
  <1>3. CurrentSum' = CurrentSum
    BY <1>1, <1>2 DEF Next, Attempt, Succeed, FailForGood, Fail, Finished, vars
  <1> QED BY <1>3 DEF SumInv

\* The initial weights are at most the weights.
LEMMA SumInvInit == Init => SumInv
  <1> SUFFICES ASSUME Init PROVE SumInv
    OBVIOUS
  <1> USE BackendsFinite
  <1> DEFINE none == [x \in Backends |-> 0]
  <1>1. \A x \in Backends : none[x] \in Int /\ current[x] \in Int /\ Weight[x] \in Int
                            /\ none[x] <= current[x] /\ current[x] <= Weight[x]
    BY WeightType, TotalType DEF Init, InitialWeights
  <1>2. SumFunctionOnSet(none, Backends) = 0
    <2>1. \A x \in Backends : none[x] = 0
      OBVIOUS
    <2>2. SumFunctionOnSet(none, Backends) = Cardinality(Backends) * 0
      <3> HIDE DEF none
      <3> QED BY <2>1, SumOfSame
    <2> QED BY <2>2
  <1> HIDE DEF none
  <1>3. SumFunctionOnSet(none, Backends) <= SumFunctionOnSet(current, Backends)
    BY <1>1, SumGrows
  <1>4. SumFunctionOnSet(current, Backends) <= SumFunctionOnSet(Weight, Backends)
    BY <1>1, SumGrows
  <1>5. SumFunctionOnSet(Weight, Backends) = Total /\ SumFunctionOnSet(current, Backends) \in Int
    BY <1>1, SumType, WeightType DEF Total, SumFunction
  <1> QED BY <1>2, <1>3, <1>4, <1>5, TotalType DEF SumInv, CurrentSum

\* The current weights always add up to between 0 and the total, as at first:
\* GetNextEngine takes from one what it gives to all.
THEOREM SumInvariant == Spec => []SumInv
  BY SumInvInit, SumInvStep, Invariant, PTL DEF Spec

\* When none is below minus the total and they add up to at most the total,
\* none is above the total for each backend.
LEMMA NoneFarAbove ==
  ASSUME NEW c \in [Backends -> Int], NEW b \in Backends,
         \A x \in Backends : c[x] > 0 - Total, SumFunctionOnSet(c, Backends) <= Total
  PROVE  c[b] <= Len(Weights) * Total
  <1> USE BackendsFinite
  <1> DEFINE floor == [x \in Backends |-> 1 - Total]
             rest == c[b] - (1 - Total)
             above == [x \in Backends |-> IF x = b THEN rest ELSE 0]
             both == [x \in Backends |-> floor[x] + above[x]]
  <1>1. \A x \in Backends : c[x] \in Int /\ floor[x] \in Int /\ floor[x] = 1 - Total
    BY TotalType
  <1>2. rest \in Int /\ above[b] = rest /\ \A x \in Backends : x # b => above[x] = 0
    BY TotalType
  <1>3. \A x \in Backends : above[x] \in Int /\ both[x] = floor[x] + above[x]
    BY <1>2
  <1>4. both[b] = c[b]
    <2>1. both[b] = floor[b] + above[b] /\ floor[b] = 1 - Total
      BY <1>1, <1>3
    <2> HIDE DEF both, above, floor
    <2> QED BY <2>1, <1>1, <1>2, TotalType
  <1>5. \A x \in Backends : both[x] \in Int /\ both[x] <= c[x]
    <2>1. ASSUME NEW x \in Backends PROVE both[x] \in Int
      BY <1>1, <1>3
    <2>2. ASSUME NEW x \in Backends, x # b PROVE both[x] <= c[x]
      <3>1. both[x] = floor[x] + above[x] /\ floor[x] = 1 - Total /\ above[x] = 0
        BY <1>1, <1>2, <1>3, <2>2
      <3> HIDE DEF both, above, floor
      <3> QED BY <3>1, <1>1, TotalType
    <2> HIDE DEF both, above, floor
    <2> QED BY <2>1, <2>2, <1>1, <1>4
  <1> HIDE DEF floor, rest, above, both
  <1>6. SumFunctionOnSet(floor, Backends) = Len(Weights) * (1 - Total)
    <2>1. 1 - Total \in Int
      BY TotalType
    <2> QED BY <1>1, <2>1, SumOfSame
  <1>7. SumFunctionOnSet(above, Backends) = rest
    BY <1>2, SumOfOne
  <1>8. SumFunctionOnSet(both, Backends)
          = SumFunctionOnSet(floor, Backends) + SumFunctionOnSet(above, Backends)
    BY <1>1, <1>3, SumAdds
  <1>9. SumFunctionOnSet(both, Backends) <= SumFunctionOnSet(c, Backends)
    BY <1>1, <1>5, SumGrows
  <1>10. SumFunctionOnSet(c, Backends) \in Int
    BY <1>1, SumType
  <1>11. Len(Weights) * (1 - Total) = Len(Weights) - Len(Weights) * Total
    <2>1. \A n, m \in Int : n * (1 - m) = n - n * m
      OBVIOUS
    <2> QED BY <2>1, TotalType
  <1>12. Len(Weights) * Total \in Int
    BY TotalType
  <1>13. Len(Weights) - Len(Weights) * Total + rest <= Total
    BY <1>2, <1>6, <1>7, <1>8, <1>9, <1>10, <1>11, <1>12, TotalType
  <1> QED BY <1>1, <1>12, <1>13, TotalType DEF rest

\* Whatever the weights and the retries, GetNextEngine does not leave a
\* backend behind its share by more picks than there are backends.
THEOREM NobodyForgotten == Spec => []NeverForgotten
  <1>1. IInv /\ SumInv => NeverForgotten
    <2> SUFFICES ASSUME IInv, SumInv, NEW b \in Backends
                 PROVE  picked[b] * Total >= picks * Weight[b] - Len(Weights) * Total
      BY DEF NeverForgotten
    <2>1. /\ first[b] \in 0 .. Weight[b]
          /\ current[b] = first[b] + picks * Weight[b] - picked[b] * Total
      BY DEF IInv, Ledger
    <2>2. /\ current \in [Backends -> Int] /\ picks * Weight[b] \in Int
          /\ picked[b] * Total \in Int /\ Len(Weights) * Total \in Int
      BY WeightType, TotalType, BackendsFinite, SMTT(30) DEF IInv, TypeOK
    <2>3. \A x \in Backends : current[x] > 0 - Total
      BY DEF IInv, Ledger
    <2>4. SumFunctionOnSet(current, Backends) <= Total
      BY TotalType DEF SumInv, CurrentSum
    <2>5. current[b] <= Len(Weights) * Total
      BY <2>2, <2>3, <2>4, NoneFarAbove
    <2> QED BY <2>1, <2>2, <2>5, WeightType
  <1> QED BY <1>1, Invariant, SumInvariant, PTL

\* Where numbers differ one is the largest, and one is the first of those.
LEMMA FirstOfLargest ==
  ASSUME NEW c \in [Backends -> Int]
  PROVE  \E b \in Backends : \A x \in Backends : c[x] < c[b] \/ (c[x] = c[b] /\ b <= x)
  <1> DEFINE Best(n, b) == \A x \in 1 .. n : c[x] < c[b] \/ (c[x] = c[b] /\ b <= x)
             T == {n \in Nat : n \in Backends => \E b \in 1 .. n : Best(n, b)}
  <1>1. \A n \in Backends : n \in Nat /\ 1 .. n \subseteq Backends
    BY BackendsFinite
  <1>2. 0 \in T
    BY BackendsFinite
  <1>3. ASSUME NEW n \in Nat, n \in T PROVE n + 1 \in T
    <2> SUFFICES ASSUME n + 1 \in Backends PROVE \E b \in 1 .. n + 1 : Best(n + 1, b)
      OBVIOUS
    <2>0. \A x \in 1 .. n + 1 : c[x] \in Int /\ x \in Int
      BY <1>1
    <2>1. CASE n = 0
      BY <2>1, <2>0
    <2>2. CASE n # 0
      <3>1. n \in Backends
        BY <2>2, BackendsFinite
      <3>2. PICK b \in 1 .. n : Best(n, b)
        BY <1>3, <3>1
      <3>3. CASE c[n + 1] <= c[b]
        <4>1. Best(n + 1, b)
          BY <2>0, <3>2, <3>3
        <4> QED BY <4>1
      <3>4. CASE c[n + 1] > c[b]
        <4>1. Best(n + 1, n + 1)
          BY <2>0, <3>2, <3>4
        <4> QED BY <4>1
      <3> QED BY <2>0, <3>3, <3>4
    <2> QED BY <2>1, <2>2
  <1>4. Nat \subseteq T
    <2> HIDE DEF T
    <2> QED BY <1>2, <1>3, NatSetInduction
  <1>5. Len(Weights) \in T
    <2> HIDE DEF T
    <2> QED BY <1>4, BackendsFinite
  <1>6. Len(Weights) \in Backends /\ 1 .. Len(Weights) = Backends
    BY BackendsFinite
  <1>7. PICK b \in 1 .. Len(Weights) : Best(Len(Weights), b)
    BY <1>5, <1>6
  <1> QED BY <1>6, <1>7

\* The largest of numbers whose sum is positive is positive.
LEMMA LargestIsPositive ==
  ASSUME NEW c \in [Backends -> Int], SumFunctionOnSet(c, Backends) > 0,
         NEW b \in Backends, \A x \in Backends : c[x] <= c[b]
  PROVE  c[b] > 0
  <1> USE BackendsFinite
  <1> SUFFICES ASSUME c[b] <= 0 PROVE FALSE
    OBVIOUS
  <1> DEFINE none == [x \in Backends |-> 0]
  <1>1. \A x \in Backends : none[x] = 0 /\ none[x] \in Int /\ c[x] \in Int /\ c[x] <= none[x]
    OBVIOUS
  <1> HIDE DEF none
  <1>2. SumFunctionOnSet(none, Backends) = Cardinality(Backends) * 0
    BY <1>1, SumOfSame
  <1>3. SumFunctionOnSet(c, Backends) <= SumFunctionOnSet(none, Backends)
    BY <1>1, SumGrows
  <1>4. SumFunctionOnSet(c, Backends) \in Int
    BY <1>1, SumType
  <1> QED BY <1>2, <1>3, <1>4

\* GetNextEngine always finds a backend: Process never calls a nil engine.
THEOREM SomeoneIsPicked == Spec => [](\E b \in Backends : IsPicked(b, Raised(current)))
  <1>1. IInv /\ SumInv => \E b \in Backends : IsPicked(b, Raised(current))
    <2> SUFFICES ASSUME IInv, SumInv PROVE \E b \in Backends : IsPicked(b, Raised(current))
      OBVIOUS
    <2> DEFINE raised == Raised(current)
    <2>1. current \in [Backends -> Int] /\ raised \in [Backends -> Int]
      BY WeightType DEF IInv, TypeOK, Raised
    <2>2. SumFunctionOnSet(raised, Backends) = CurrentSum + Total
      BY <2>1, BackendsFinite, PickKeepsSum DEF CurrentSum
    <2>3. SumFunctionOnSet(raised, Backends) > 0
      BY <2>2, TotalType DEF SumInv
    <2> HIDE DEF raised
    <2>4. PICK b \in Backends : \A x \in Backends : raised[x] < raised[b] \/ (raised[x] = raised[b] /\ b <= x)
      BY <2>1, FirstOfLargest
    <2>5. raised[b] > 0
      BY <2>1, <2>3, <2>4, LargestIsPositive
    <2> QED BY <2>4, <2>5 DEF IsPicked, raised
  <1> QED BY <1>1, Invariant, SumInvariant, PTL
-----------------------------------------------------------------------------
(* The concurrency-based balancer.                                         *)

Hits == [to : Engines, strong : BOOLEAN]

PlansTyped ==
    /\ plan \in [Calls -> Seq(Hits)]
    /\ \A r \in Calls : \A i, j \in 1 .. Len(plan[r]) : plan[r][i].to = plan[r][j].to => i = j

Bookkeeping ==
    \A r \in Calls :
        /\ place[r] = "choosing" => tried[r] \subseteq excluded[r]
        /\ place[r] \in {"dispatched", "running", "open"} =>
              tried[r] \subseteq excluded[r] \cup {target[r]}
        /\ place[r] \in {"choosing", "rejected", "noengine"} => retryCount[r] # 0 \/ tried[r] = {}
        /\ place[r] \in {"rejected", "noengine"} => retryCount[r] = 0
        /\ \A i \in 1 .. Len(plan[r]) : plan[r][i].to \notin tried[r]

BalancerInv == BalancerTypeOK /\ PlansTyped /\ Bookkeeping

LEMMA BalancerInitInv == BalancerInit => BalancerInv
  <1> SUFFICES ASSUME BalancerInit PROVE BalancerInv
    OBVIOUS
  <1>1. BalancerTypeOK
    BY CapacityAssumption DEF BalancerInit, BalancerTypeOK, PCs, Ends
  <1>2. PlansTyped
    <2>1. \A r \in Calls : plan[r] \in Plans /\ plan[r] \in Seq(Hits)
      BY PlansAssumption DEF BalancerInit, Hits
    <2>2. \A r \in Calls : DOMAIN plan[r] = 1 .. Len(plan[r])
      BY <2>1
    <2> QED BY <2>1, <2>2, PlansAssumption DEF BalancerInit, PlansTyped
  <1>3. Bookkeeping
    BY DEF BalancerInit, Bookkeeping
  <1> QED BY <1>1, <1>2, <1>3 DEF BalancerInv

\* What a list of hits keeps when its first one is taken off.
LEMMA RestOfPlan ==
  ASSUME NEW p \in Seq(Hits), p # <<>>,
         \A i, j \in 1 .. Len(p) : p[i].to = p[j].to => i = j
  PROVE  /\ Tail(p) \in Seq(Hits)
         /\ Head(p) \in Hits
         /\ Len(p) > 0 /\ Head(p) = p[1]
         /\ \A i, j \in 1 .. Len(Tail(p)) : Tail(p)[i].to = Tail(p)[j].to => i = j
         /\ \A i \in 1 .. Len(Tail(p)) :
               /\ i + 1 \in 1 .. Len(p)
               /\ Tail(p)[i] = p[i + 1]
               /\ Tail(p)[i].to # Head(p).to
  <1>1. /\ Tail(p) \in Seq(Hits) /\ Head(p) \in Hits
        /\ Len(p) \in Nat /\ Len(p) > 0 /\ Head(p) = p[1] /\ Len(Tail(p)) = Len(p) - 1
        /\ \A i \in 1 .. Len(Tail(p)) : Tail(p)[i] = p[i + 1]
    BY HeadTailProperties, EmptySeq
  <1>2. \A i \in 1 .. Len(Tail(p)) : i + 1 \in 1 .. Len(p) /\ i + 1 # 1 /\ 1 \in 1 .. Len(p)
    BY <1>1
  <1>3. \A i \in 1 .. Len(Tail(p)) : Tail(p)[i].to # Head(p).to
    BY <1>1, <1>2
  <1>4. ASSUME NEW i \in 1 .. Len(Tail(p)), NEW j \in 1 .. Len(Tail(p)), Tail(p)[i].to = Tail(p)[j].to
        PROVE  i = j
    <2>1. p[i + 1].to = p[j + 1].to /\ i + 1 \in 1 .. Len(p) /\ j + 1 \in 1 .. Len(p)
      BY <1>1, <1>2, <1>4
    <2>2. i + 1 = j + 1
      BY <2>1
    <2> QED BY <2>2, <1>1
  <1> QED BY <1>1, <1>2, <1>3, <1>4

\* A request goes to a backend that is neither excluded nor in its list.
LEMMA DispatchKeeps ==
  ASSUME BalancerInv, NEW r \in Calls, NEW b \in Engines, place[r] = "choosing",
         Dispatch(r, b), UNCHANGED cap, PlansTyped', b \notin tried[r],
         \A s \in Calls \ {r} : plan'[s] = plan[s],
         \A i \in 1 .. Len(plan'[r]) : plan'[r][i].to \notin tried[r] \cup {b}
  PROVE  BalancerInv'
  <1>1. BalancerTypeOK'
    BY DEF BalancerInv, BalancerTypeOK, Dispatch, PCs
  <1>2. Bookkeeping'
    BY DEF BalancerInv, BalancerTypeOK, Bookkeeping, Dispatch
  <1> QED BY <1>1, <1>2 DEF BalancerInv

\* A round of the loop that only excludes a backend, or gives up.
LEMMA RoundKeeps ==
  ASSUME BalancerInv, NEW r \in Calls, NEW b \in Engines, place[r] = "choosing",
         NEW q \in {"choosing", EndOr(r, "rejected"), EndOr(r, "noengine")},
         place' = [place EXCEPT ![r] = q],
         excluded' \in {excluded, [excluded EXCEPT ![r] = @ \cup {b}]},
         UNCHANGED <<cap, target, retryCount, tried>>, PlansTyped',
         \A s \in Calls \ {r} : plan'[s] = plan[s],
         \A i \in 1 .. Len(plan'[r]) : plan'[r][i].to \notin tried[r]
  PROVE  BalancerInv'
  <1>1. q \in PCs
    BY DEF EndOr, PCs, Ends
  <1>2. BalancerTypeOK'
    <2>1. q \notin {"dispatched", "running", "open"}
      BY DEF EndOr
    <2>2. /\ place' \in [Calls -> PCs] /\ place'[r] = q
          /\ \A s \in Calls \ {r} : place'[s] = place[s]
      BY <1>1 DEF BalancerInv, BalancerTypeOK
    <2>3. excluded' \in [Calls -> SUBSET Engines]
      <3>1. excluded \in [Calls -> SUBSET Engines]
        BY DEF BalancerInv, BalancerTypeOK
      <3>2. CASE excluded' = excluded
        BY <3>1, <3>2
      <3>3. CASE excluded' = [excluded EXCEPT ![r] = @ \cup {b}]
        <4>1. excluded[r] \cup {b} \in SUBSET Engines
          BY <3>1
        <4> DEFINE e == excluded[r] \cup {b}
        <4> HIDE DEF e
        <4> QED BY <3>1, <3>3, <4>1 DEF e
      <3> QED BY <3>2, <3>3
    <2>4. ASSUME NEW s \in Calls, place'[s] \in {"dispatched", "running", "open"} PROVE target'[s] \in tried'[s]
      <3>1. s # r
        BY <2>1, <2>2, <2>4
      <3> QED BY <2>2, <2>4, <3>1 DEF BalancerInv, BalancerTypeOK
    <2>5. /\ cap' \in [Engines -> Nat] /\ retryCount' \in [Calls -> Nat]
          /\ target' \in [Calls -> Engines \cup {NoEngine}] /\ tried' \in [Calls -> SUBSET Engines]
      BY DEF BalancerInv, BalancerTypeOK
    <2> QED BY <2>2, <2>3, <2>4, <2>5 DEF BalancerTypeOK
  <1>3. Bookkeeping'
    <2>1. /\ excluded[r] \subseteq excluded'[r]
          /\ \A s \in Calls \ {r} : place'[s] = place[s] /\ excluded'[s] = excluded[s] /\ plan'[s] = plan[s]
          /\ place'[r] = q
      BY DEF BalancerInv, BalancerTypeOK
    <2>2. /\ q \notin {"dispatched", "running", "open"}
          /\ q \in {"rejected", "noengine"} => retryCount[r] = 0
      BY DEF EndOr, BalancerInv, BalancerTypeOK
    <2>3. /\ tried[r] \subseteq excluded[r]
          /\ retryCount[r] # 0 \/ tried[r] = {}
      BY DEF BalancerInv, Bookkeeping
    <2> QED BY <2>1, <2>2, <2>3 DEF BalancerInv, Bookkeeping
  <1> QED BY <1>2, <1>3 DEF BalancerInv

\* What TryHit does to the lists of hits.
LEMMA HitTaken ==
  ASSUME BalancerInv, NEW r \in Calls, plan[r] # <<>>, plan' = [plan EXCEPT ![r] = Tail(@)]
  PROVE  /\ PlansTyped'
         /\ Head(plan[r]) \in Hits
         /\ Head(plan[r]).to \notin tried[r]
         /\ \A s \in Calls \ {r} : plan'[s] = plan[s]
         /\ \A i \in 1 .. Len(plan'[r]) : plan'[r][i].to \notin tried[r] \cup {Head(plan[r]).to}
  <1> DEFINE p == plan[r]
  <1>1. /\ p \in Seq(Hits) /\ p # <<>>
        /\ \A i, j \in 1 .. Len(p) : p[i].to = p[j].to => i = j
        /\ plan \in [Calls -> Seq(Hits)]
    BY DEF BalancerInv, PlansTyped
  <1>2. /\ Tail(p) \in Seq(Hits)
        /\ Head(p) \in Hits
        /\ Len(p) > 0 /\ Head(p) = p[1]
        /\ \A i, j \in 1 .. Len(Tail(p)) : Tail(p)[i].to = Tail(p)[j].to => i = j
        /\ \A i \in 1 .. Len(Tail(p)) :
              /\ i + 1 \in 1 .. Len(p)
              /\ Tail(p)[i] = p[i + 1]
              /\ Tail(p)[i].to # Head(p).to
    <2> HIDE DEF p
    <2> QED BY <1>1, RestOfPlan
  <1>3. plan'[r] = Tail(p) /\ \A s \in Calls \ {r} : plan'[s] = plan[s]
    BY <1>1
  <1>4. plan' \in [Calls -> Seq(Hits)]
    BY <1>1, <1>2
  <1>5. \A i \in 1 .. Len(p) : p[i].to \notin tried[r]
    BY DEF BalancerInv, Bookkeeping
  <1>6. PlansTyped'
    <2> SUFFICES ASSUME NEW s \in Calls, NEW i \in 1 .. Len(plan'[s]), NEW j \in 1 .. Len(plan'[s]),
                        plan'[s][i].to = plan'[s][j].to
                 PROVE  i = j
      BY <1>4 DEF PlansTyped
    <2>1. CASE s = r
      <3>1. plan'[s] = Tail(p)
        BY <2>1, <1>3
      <3> HIDE DEF p
      <3>2. i \in 1 .. Len(Tail(p)) /\ j \in 1 .. Len(Tail(p)) /\ Tail(p)[i].to = Tail(p)[j].to
        BY <3>1
      <3> QED BY <3>2, <1>2
    <2>2. CASE s # r
      BY <2>2, <1>3 DEF BalancerInv, PlansTyped
    <2> QED BY <2>1, <2>2
  <1>7. Len(p) \in Nat
    BY <1>1
  <1>8. p[1].to \notin tried[r]
    BY <1>2, <1>5, <1>7
  <1>9. \A i \in 1 .. Len(plan'[r]) : plan'[r][i].to \notin tried[r] \cup {Head(p).to}
    <2>1. ASSUME NEW i \in 1 .. Len(Tail(p)) PROVE Tail(p)[i].to \notin tried[r] \cup {Head(p).to}
      <3> HIDE DEF p
      <3>1. i + 1 \in 1 .. Len(p) /\ Tail(p)[i] = p[i + 1] /\ Tail(p)[i].to # Head(p).to
        BY <1>2
      <3> QED BY <3>1, <1>5
    <2>2. plan'[r] = Tail(p)
      BY <1>3
    <2> HIDE DEF p
    <2> QED BY <2>1, <2>2
  <1> QED BY <1>2, <1>3, <1>6, <1>8, <1>9

LEMMA TryHitKeeps == ASSUME BalancerInv, NEW r \in Calls, TryHit(r) PROVE BalancerInv'
  <1> DEFINE b == Head(plan[r]).to
  <1>1. /\ PlansTyped' /\ b \in Engines /\ b \notin tried[r]
        /\ \A s \in Calls \ {r} : plan'[s] = plan[s]
        /\ \A i \in 1 .. Len(plan'[r]) : plan'[r][i].to \notin tried[r] \cup {b}
    BY HitTaken DEF TryHit, Hits
  <1>2. place[r] = "choosing" /\ UNCHANGED cap
    BY DEF TryHit
  <1>3. place = [place EXCEPT ![r] = "choosing"]
    BY <1>2 DEF BalancerInv, BalancerTypeOK
  <1>4. CASE Dispatch(r, b)
    <2> HIDE DEF b
    <2> QED BY <1>1, <1>2, <1>4, DispatchKeeps
  <1>5. CASE ExcludeOver(r, b)
    <2>1. \E q \in {"choosing", EndOr(r, "rejected")} : place' = [place EXCEPT ![r] = q]
      BY <1>5 DEF ExcludeOver
    <2>2. /\ excluded' = [excluded EXCEPT ![r] = @ \cup {b}]
          /\ UNCHANGED <<cap, target, retryCount, tried>>
      BY <1>2, <1>5 DEF ExcludeOver
    <2> HIDE DEF b
    <2> QED BY <2>1, <2>2, <1>1, <1>2, RoundKeeps
  <1>6. CASE /\ excluded' = [excluded EXCEPT ![r] = @ \cup {b}]
             /\ UNCHANGED <<place, target, retryCount, tried>>
    <2> HIDE DEF b
    <2> QED BY <1>6, <1>3, <1>1, <1>2, RoundKeeps
  <1> QED BY <1>4, <1>5, <1>6 DEF TryHit

LEMMA SelectKeeps == ASSUME BalancerInv, NEW r \in Calls, Select(r) PROVE BalancerInv'
  <1>1. /\ place[r] = "choosing" /\ plan[r] = <<>> /\ UNCHANGED <<cap, plan>>
        /\ tried[r] \subseteq excluded[r]
    BY DEF Select, BalancerInv, Bookkeeping
  <1>2. /\ PlansTyped'
        /\ \A s \in Calls \ {r} : plan'[s] = plan[s]
        /\ \A B \in SUBSET Engines : \A i \in 1 .. Len(plan'[r]) : plan'[r][i].to \notin B
    BY <1>1 DEF BalancerInv, PlansTyped
  <1>3. tried[r] \in SUBSET Engines
    BY DEF BalancerInv, BalancerTypeOK
  <1>4. ASSUME NEW b \in Engines \ excluded[r], Dispatch(r, b) PROVE BalancerInv'
    <2>1. b \notin tried[r] /\ tried[r] \cup {b} \in SUBSET Engines
      BY <1>1, <1>3
    <2> QED BY <2>1, <1>1, <1>2, <1>4, DispatchKeeps
  <1>5. ASSUME NEW b \in Engines, ExcludeOver(r, b) PROVE BalancerInv'
    <2>1. \E q \in {"choosing", EndOr(r, "rejected")} : place' = [place EXCEPT ![r] = q]
      BY <1>5 DEF ExcludeOver
    <2>2. /\ excluded' = [excluded EXCEPT ![r] = @ \cup {b}]
          /\ UNCHANGED <<cap, target, retryCount, tried>>
      BY <1>1, <1>5 DEF ExcludeOver
    <2> QED BY <2>1, <2>2, <1>1, <1>2, <1>3, RoundKeeps
  <1>6. ASSUME place' = [place EXCEPT ![r] = EndOr(r, "noengine")], UNCHANGED <<target, excluded, retryCount, tried>>
        PROVE  BalancerInv'
    <2>1. BalancerTypeOK'
      BY <1>1, <1>6 DEF BalancerInv, BalancerTypeOK, EndOr, PCs, Ends
    <2>2. Bookkeeping'
      BY <1>1, <1>6 DEF BalancerInv, BalancerTypeOK, Bookkeeping, EndOr
    <2> QED BY <2>1, <2>2, <1>2 DEF BalancerInv
  <1>7. \A S : LeastUtilized(S) \subseteq S
    BY DEF LeastUtilized
  <1> QED BY <1>4, <1>5, <1>6, <1>7 DEF Select

LEMMA BalancerNextInv == BalancerInv /\ [BalancerNext]_balancerVars => BalancerInv'
  <1> SUFFICES ASSUME BalancerInv, [BalancerNext]_balancerVars PROVE BalancerInv'
    OBVIOUS
  <1>1. CASE UNCHANGED balancerVars
    BY <1>1 DEF balancerVars, BalancerInv, BalancerTypeOK, PlansTyped, Bookkeeping
  <1>2. ASSUME NEW r \in Calls, Acquire(r) \/ Return(r) \/ Close(r) \/ GiveUp(r) PROVE BalancerInv'
    <2>1. /\ place[r] \in {"dispatched", "running", "open"}
          /\ \E q \in {"running", "open", "ok", "failed"} : place' = [place EXCEPT ![r] = q]
          /\ UNCHANGED <<cap, plan, excluded, retryCount, target, tried>>
      BY <1>2 DEF Acquire, Return, Close, GiveUp
    <2>2. BalancerTypeOK'
      BY <2>1 DEF BalancerInv, BalancerTypeOK, PCs, Ends
    <2>3. Bookkeeping'
      BY <2>1 DEF BalancerInv, BalancerTypeOK, Bookkeeping
    <2>4. PlansTyped'
      BY <2>1 DEF BalancerInv, PlansTyped
    <2> QED BY <2>2, <2>3, <2>4 DEF BalancerInv
  <1>3. ASSUME NEW r \in Calls, AttemptFails(r) PROVE BalancerInv'
    <2>1. /\ place[r] \in {"dispatched", "running"}
          /\ \E q \in {"failed", "choosing"} : place' = [place EXCEPT ![r] = q]
          /\ excluded' = [excluded EXCEPT ![r] = @ \cup {target[r]}]
          /\ retryCount' = [retryCount EXCEPT ![r] = @ + 1]
          /\ UNCHANGED <<cap, plan, target, tried>>
      BY <1>3 DEF AttemptFails, ExcludedNow, BalancerInv, BalancerTypeOK
    <2>2. target[r] \in Engines
      BY <2>1 DEF BalancerInv, BalancerTypeOK
    <2>3. BalancerTypeOK'
      BY <2>1, <2>2 DEF BalancerInv, BalancerTypeOK, PCs, Ends
    <2>4. Bookkeeping'
      BY <2>1 DEF BalancerInv, BalancerTypeOK, Bookkeeping
    <2>5. PlansTyped'
      BY <2>1 DEF BalancerInv, PlansTyped
    <2> QED BY <2>3, <2>4, <2>5 DEF BalancerInv
  <1>4. ASSUME NEW b \in Engines, Resize(b) PROVE BalancerInv'
    <2>1. BalancerTypeOK'
      BY <1>4, CapacityAssumption DEF Resize, BalancerInv, BalancerTypeOK
    <2>2. Bookkeeping' /\ PlansTyped'
      BY <1>4 DEF Resize, BalancerInv, Bookkeeping, PlansTyped
    <2> QED BY <2>1, <2>2 DEF BalancerInv
  <1> QED BY <1>1, <1>2, <1>3, <1>4, TryHitKeeps, SelectKeeps, EnginesAssumption DEF BalancerNext

\* The bookkeeping holds throughout.
THEOREM BalancerInvariant == BalancerSpec => []BalancerInv
  BY BalancerInitInv, BalancerNextInv, PTL DEF BalancerSpec

\* Every reachable state has the declared types.
THEOREM BalancerTypeCorrect == BalancerSpec => []BalancerTypeOK
  <1>1. BalancerInv => BalancerTypeOK
    BY DEF BalancerInv
  <1> QED BY <1>1, BalancerInvariant, PTL

\* A request that reached a backend never ends with an error of the balancer
\* itself (retryCount, at each return of the loop).
THEOREM ErrorIsKept == BalancerSpec => []FailoverKeepsError
  <1>1. BalancerInv => FailoverKeepsError
    BY DEF BalancerInv, BalancerTypeOK, Bookkeeping, FailoverKeepsError
  <1> QED BY <1>1, BalancerInvariant, PTL

\* No backend is tried twice: not by a hit, not by the fallback, not by one
\* after the other (excludeNames and prioritizedIndex together).
LEMMA StepMovesOn ==
  BalancerInv /\ [BalancerNext]_balancerVars =>
      [\A r \in Calls : place[r] = "choosing" /\ place'[r] = "dispatched" => target'[r] \notin tried[r]]_balancerVars
  <1> SUFFICES ASSUME BalancerInv, BalancerNext, NEW r \in Calls, place[r] = "choosing", place'[r] = "dispatched"
               PROVE  target'[r] \notin tried[r]
    OBVIOUS
  <1> USE DEF BalancerInv, BalancerTypeOK
  <1>1. ASSUME NEW s \in Calls,
               Acquire(s) \/ Return(s) \/ Close(s) \/ GiveUp(s) \/ AttemptFails(s)
        PROVE  FALSE
    BY <1>1 DEF Acquire, Return, Close, GiveUp, AttemptFails
  <1>2. ASSUME NEW b \in Dynamic, Resize(b) PROVE FALSE
    BY <1>2 DEF Resize
  <1>3. ASSUME NEW s \in Calls, TryHit(s) PROVE target'[r] \notin tried[r]
    <2>1. s = r /\ Dispatch(r, Head(plan[r]).to)
      BY <1>3 DEF TryHit, ExcludeOver, EndOr, Dispatch
    <2>2. Head(plan[r]).to \notin tried[r]
      BY <2>1, <1>3, HitTaken DEF TryHit
    <2> QED BY <2>1, <2>2 DEF Dispatch
  <1>4. ASSUME NEW s \in Calls, Select(s) PROVE target'[r] \notin tried[r]
    <2>1. s = r /\ \E b \in Engines \ excluded[r] : Dispatch(r, b)
      BY <1>4 DEF Select, ExcludeOver, EndOr, Dispatch, LeastUtilized
    <2>2. tried[r] \subseteq excluded[r]
      BY DEF Bookkeeping
    <2> QED BY <2>1, <2>2 DEF Dispatch
  <1> QED BY <1>1, <1>2, <1>3, <1>4 DEF BalancerNext

\* A retry never goes to a backend the request has failed at.
THEOREM RetriesMoveOn == BalancerSpec => NoBackendTwice
  <1>1. BalancerInv /\ BalancerInv' /\ [BalancerNext]_balancerVars =>
            [\A r \in Calls : place[r] = "choosing" /\ place'[r] = "dispatched" => target'[r] \notin tried[r]]_balancerVars
    BY StepMovesOn
  <1> QED BY <1>1, BalancerInvariant, PTL DEF BalancerSpec, NoBackendTwice
=============================================================================
