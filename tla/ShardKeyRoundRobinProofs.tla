---------------------- MODULE ShardKeyRoundRobinProofs ----------------------
(***************************************************************************)
(* Theorems about the shard-key round robin, for every list of backends,   *)
(* every set of requests and every order of their steps.                   *)
(*                                                                         *)
(* They rest on the bookkeeping of the retry loop: between two attempts    *)
(* the excluded names are exactly the names of the backends tried, and     *)
(* fewer than there are backends.  The current weights add up to the same  *)
(* after each pick, whichever backends took part in it.                    *)
(***************************************************************************)
EXTENDS ShardKeyRoundRobin, FoldTheorems

PCs == {"new", "resolved", "picking", "trying", "ok", "failed"}

LoopType ==
    /\ pc \in [Requests -> PCs]
    /\ excluded \in [Requests -> SUBSET NameSet]
    /\ on \in [Requests -> Backends \cup {Nobody}]
    /\ tried \in [Requests -> SUBSET Backends]
    /\ failures \in [Requests -> Nat]

\* What is excluded was tried; what was tried is excluded, but for the
\* backend of the running attempt; nothing was tried before the first pick.
Bookkeeping ==
    \A r \in Requests :
        /\ \A n \in excluded[r] : \E c \in tried[r] : Names[c] = n
        /\ pc[r] \in {"new", "resolved"} => tried[r] = {} /\ excluded[r] = {}
        /\ pc[r] = "picking" =>
              /\ \A b \in tried[r] : Names[b] \in excluded[r]
              /\ excluded[r] = {} \/ Cardinality(excluded[r]) < Len(Weights)
        /\ pc[r] = "trying" =>
              /\ on[r] \in tried[r]
              /\ \A b \in tried[r] \ {on[r]} : Names[b] \in excluded[r]

IInv == LoopType /\ Bookkeeping

\* Every backend has its name among the names.
LEMMA NameOfBackend == \A b \in Backends : Names[b] \in NameSet
  <1>1. DOMAIN Names = Backends
    BY NamesAssumption, WeightsAssumption DEF Backends
  <1>2. Range(Names) = {Names[x] : x \in DOMAIN Names}
    BY DEF Range
  <1> QED BY <1>1, <1>2 DEF NameSet

LEMMA InitIInv == Init => IInv
  BY DEF Init, IInv, LoopType, Bookkeeping, PCs

LEMMA NextIInv == IInv /\ [Next]_vars => IInv'
  <1> SUFFICES ASSUME IInv, [Next]_vars PROVE IInv'
    OBVIOUS
  <1> USE NameOfBackend DEF IInv
  <1>1. CASE UNCHANGED vars \/ Finished \/ Tick \/ \E k \in Keys : KeyExpires(k)
    BY <1>1 DEF vars, loop, Finished, Tick, KeyExpires, LoopType, Bookkeeping
  <1>2. ASSUME NEW r \in Requests, Resolve(r) \/ Trim(r) PROVE IInv'
    <2>1. /\ pc[r] \in {"new", "resolved"}
          /\ pc' \in {[pc EXCEPT ![r] = "resolved"], [pc EXCEPT ![r] = "picking"]}
          /\ UNCHANGED <<excluded, failures, on, tried>>
      BY <1>2 DEF Resolve, Trim
    <2>2. LoopType'
      BY <2>1 DEF LoopType, PCs
    <2>3. Bookkeeping'
      BY <2>1, SMTT(30) DEF LoopType, Bookkeeping
    <2> QED BY <2>2, <2>3
  <1>3. ASSUME NEW r \in Requests, Pick(r) PROVE IInv'
    <2>1. PICK b \in Candidates(r) :
            /\ on' = [on EXCEPT ![r] = b]
            /\ tried' = [tried EXCEPT ![r] = @ \cup {b}]
      BY <1>3 DEF Pick
    <2>2. /\ pc[r] = "picking" /\ pc' = [pc EXCEPT ![r] = "trying"]
          /\ UNCHANGED <<excluded, failures>> /\ b \in Backends
      BY <1>3 DEF Pick, Candidates
    <2>3. LoopType'
      BY <2>1, <2>2 DEF LoopType, PCs
    <2>4. Bookkeeping'
      <3> SUFFICES ASSUME NEW q \in Requests
                   PROVE  /\ \A n \in excluded'[q] : \E c \in tried'[q] : Names[c] = n
                          /\ pc'[q] \in {"new", "resolved"} => tried'[q] = {} /\ excluded'[q] = {}
                          /\ pc'[q] = "picking" =>
                                /\ \A c \in tried'[q] : Names[c] \in excluded'[q]
                                /\ excluded'[q] = {} \/ Cardinality(excluded'[q]) < Len(Weights)
                          /\ pc'[q] = "trying" =>
                                /\ on'[q] \in tried'[q]
                                /\ \A c \in tried'[q] \ {on'[q]} : Names[c] \in excluded'[q]
        BY DEF Bookkeeping
      <3>1. CASE q = r
        <4>1. pc'[q] = "trying" /\ on'[q] = b /\ tried'[q] = tried[q] \cup {b} /\ excluded' = excluded
          BY <2>1, <2>2, <3>1 DEF LoopType
        <4> QED BY <2>2, <3>1, <4>1 DEF Bookkeeping
      <3>2. CASE q # r
        <4>1. pc'[q] = pc[q] /\ on'[q] = on[q] /\ tried'[q] = tried[q] /\ excluded' = excluded
          BY <2>1, <2>2, <3>2 DEF LoopType
        <4> QED BY <4>1 DEF Bookkeeping
      <3> QED BY <3>1, <3>2
    <2> QED BY <2>3, <2>4
  <1>4. ASSUME NEW r \in Requests, NoEngine(r) \/ Succeed(r) \/ FailForGood(r) PROVE IInv'
    <2>1. /\ pc' \in {[pc EXCEPT ![r] = "ok"], [pc EXCEPT ![r] = "failed"]}
          /\ UNCHANGED <<excluded, failures, on, tried>>
      BY <1>4 DEF NoEngine, Succeed, FailForGood, loop
    <2>2. LoopType'
      BY <2>1 DEF LoopType, PCs
    <2>3. Bookkeeping'
      BY <2>1 DEF LoopType, Bookkeeping
    <2> QED BY <2>2, <2>3
  <1>5. ASSUME NEW r \in Requests, Fail(r) PROVE IInv'
    <2>1. /\ pc[r] = "trying"
          /\ excluded' = [excluded EXCEPT ![r] = ExcludedNow(r)]
          /\ failures' = [failures EXCEPT ![r] = @ + 1]
          /\ UNCHANGED <<on, tried>>
      BY <1>5 DEF Fail
    <2>2. \/ pc' = [pc EXCEPT ![r] = "failed"]
          \/ /\ pc' = [pc EXCEPT ![r] = "picking"]
             /\ Cardinality(ExcludedNow(r)) < Len(Weights)
      BY <1>5 DEF Fail
    <2>3. on[r] \in tried[r] /\ on[r] \in Backends
      BY <2>1 DEF Bookkeeping, LoopType
    <2>4. ExcludedNow(r) \in SUBSET NameSet
      BY <2>3 DEF ExcludedNow, LoopType
    <2>5. LoopType'
      BY <2>1, <2>2, <2>4 DEF LoopType, PCs
    <2>6. Bookkeeping'
      <3> SUFFICES ASSUME NEW q \in Requests
                   PROVE  /\ \A n \in excluded'[q] : \E c \in tried'[q] : Names[c] = n
                          /\ pc'[q] \in {"new", "resolved"} => tried'[q] = {} /\ excluded'[q] = {}
                          /\ pc'[q] = "picking" =>
                                /\ \A c \in tried'[q] : Names[c] \in excluded'[q]
                                /\ excluded'[q] = {} \/ Cardinality(excluded'[q]) < Len(Weights)
                          /\ pc'[q] = "trying" =>
                                /\ on'[q] \in tried'[q]
                                /\ \A c \in tried'[q] \ {on'[q]} : Names[c] \in excluded'[q]
        BY DEF Bookkeeping
      <3>1. CASE q = r
        <4>1. /\ excluded'[q] = ExcludedNow(q) /\ tried'[q] = tried[q]
              /\ pc'[q] \in {"failed", "picking"}
              /\ pc'[q] = "picking" => Cardinality(excluded'[q]) < Len(Weights)
          BY <2>1, <2>2, <3>1 DEF LoopType
        <4>2. \A n \in excluded[q] : \E c \in tried[q] : Names[c] = n
          BY DEF Bookkeeping
        <4>3. \A c \in tried[q] \ {on[q]} : Names[c] \in excluded[q]
          BY <2>1, <3>1 DEF Bookkeeping
        <4> QED BY <2>3, <3>1, <4>1, <4>2, <4>3 DEF ExcludedNow
      <3>2. CASE q # r
        <4>1. pc'[q] = pc[q] /\ on'[q] = on[q] /\ tried'[q] = tried[q] /\ excluded'[q] = excluded[q]
          BY <2>1, <2>2, <3>2 DEF LoopType
        <4> QED BY <4>1 DEF Bookkeeping
      <3> QED BY <3>1, <3>2
    <2> QED BY <2>5, <2>6
  <1> QED BY <1>1, <1>2, <1>3, <1>4, <1>5 DEF Next

\* The bookkeeping of Process holds throughout.
THEOREM Invariant == Spec => []IInv
  BY InitIInv, NextIInv, PTL DEF Spec

\* Only Pick makes a request that is picking try a backend.
LEMMA PicksByPick ==
  ASSUME NEW r \in Requests, IInv, [Next]_vars, Picks(r)
  PROVE  Pick(r)
  <1> USE DEF Picks, IInv, LoopType
  <1>1. CASE UNCHANGED vars \/ Finished \/ Tick \/ \E k \in Keys : KeyExpires(k)
    BY <1>1 DEF vars, Finished, Tick, KeyExpires
  <1>2. ASSUME NEW q \in Requests,
               Resolve(q) \/ Trim(q) \/ NoEngine(q) \/ Succeed(q) \/ FailForGood(q) \/ Fail(q)
        PROVE  FALSE
    BY <1>2 DEF Resolve, Trim, NoEngine, Succeed, FailForGood, Fail
  <1>3. ASSUME NEW q \in Requests, Pick(q), q # r PROVE FALSE
    BY <1>3 DEF Pick
  <1> QED BY <1>1, <1>2, <1>3 DEF Next

\* No retry of Process goes to a backend that has failed the request, whatever
\* Redis answers and whatever other requests do between two attempts.
THEOREM RetriesMoveOn == Spec => NoBackendTwice
  <1>1. IInv /\ [Next]_vars => [\A r \in Requests : Picks(r) => on'[r] \notin tried[r]]_vars
    <2> SUFFICES ASSUME IInv, [Next]_vars, NEW r \in Requests, Picks(r)
                 PROVE  on'[r] \notin tried[r]
      OBVIOUS
    <2>1. Pick(r)
      BY PicksByPick
    <2>2. PICK b \in Candidates(r) : on' = [on EXCEPT ![r] = b]
      BY <2>1 DEF Pick
    <2>3. on'[r] = b /\ Names[b] \notin excluded[r]
      BY <2>2 DEF IInv, LoopType, Candidates
    <2>4. \A c \in tried[r] : Names[c] \in excluded[r]
      BY <2>1 DEF Pick, IInv, Bookkeeping
    <2> QED BY <2>3, <2>4
  <1> QED BY <1>1, Invariant, PTL DEF Spec, NoBackendTwice

\* GetNextEngine gives a request to a backend of weight 0 only when it has
\* failed under the name of every backend that has a weight.
THEOREM ZeroIsLastResort == Spec => ZeroWeightLast
  <1>1. IInv /\ [Next]_vars =>
            [\A r \in Requests : Picks(r) /\ Weight[on'[r]] = 0 =>
                \A b \in Backends : Weight[b] > 0 =>
                    \E c \in tried[r] : Names[c] = Names[b]]_vars
    <2> SUFFICES ASSUME IInv, [Next]_vars, NEW r \in Requests, Picks(r), Weight[on'[r]] = 0,
                        NEW b \in Backends, Weight[b] > 0
                 PROVE  \E c \in tried[r] : Names[c] = Names[b]
      OBVIOUS
    <2>1. Pick(r)
      BY PicksByPick
    <2>2. PICK d \in Candidates(r) :
            /\ Weighted(r) # {} => IsSelected(r, d)
            /\ on' = [on EXCEPT ![r] = d]
      BY <2>1 DEF Pick
    <2>3. on'[r] = d
      BY <2>2 DEF IInv, LoopType
    <2>4. Weighted(r) # {} => d \in Weighted(r)
      BY <2>2 DEF IsSelected, IsFirst, Hits, Heaviest
    <2>5. Weighted(r) = {}
      BY <2>3, <2>4 DEF Weighted
    <2>6. Names[b] \in excluded[r]
      BY <2>5 DEF Weighted, Candidates
    <2> QED BY <2>6 DEF IInv, Bookkeeping
  <1> QED BY <1>1, Invariant, PTL DEF Spec, ZeroWeightLast

\* With distinct names there are as many names as backends.
LEMMA AsManyNames ==
  ASSUME DistinctNames
  PROVE  IsFiniteSet(NameSet) /\ Cardinality(NameSet) = Len(Weights)
  <1>1. DOMAIN Names = Backends /\ Backends = 1 .. Len(Weights) /\ Len(Weights) \in Nat
    BY NamesAssumption, WeightsAssumption DEF Backends
  <1>2. IsFiniteSet(Backends) /\ Cardinality(Backends) = Len(Weights)
    <2>1. 1 \in Int /\ Len(Weights) \in Int /\ Len(Weights) > 0
      BY <1>1, WeightsAssumption
    <2>2. /\ IsFiniteSet(1 .. Len(Weights))
          /\ Cardinality(1 .. Len(Weights)) = IF 1 > Len(Weights) THEN 0 ELSE Len(Weights) - 1 + 1
      BY <2>1, FS_Interval
    <2>3. Cardinality(1 .. Len(Weights)) = Len(Weights)
      BY <2>1, <2>2
    <2> QED BY <1>1, <2>2, <2>3
  <1>3. NameSet = {Names[b] : b \in Backends}
    BY <1>1 DEF NameSet, Range
  <1> DEFINE name == [b \in Backends |-> Names[b]]
  <1>4. name \in Bijection(Backends, NameSet)
    <2>1. name \in [Backends -> NameSet]
      BY <1>3
    <2>2. \A b, c \in DOMAIN name : name[b] = name[c] => b = c
      BY DEF DistinctNames
    <2>3. \A n \in NameSet : \E b \in Backends : name[b] = n
      BY <1>3
    <2> HIDE DEF name
    <2>4. name \in Injection(Backends, NameSet)
      BY <2>1, <2>2 DEF Injection, IsInjective
    <2>5. name \in Surjection(Backends, NameSet)
      BY <2>1, <2>3 DEF Surjection
    <2> QED BY <2>4, <2>5 DEF Bijection
  <1> QED BY <1>2, <1>4, FS_Bijection DEF ExistsBijection

\* The "should not happen" of Process does not happen when the names of the
\* backends are distinct: the loop ends before every backend is excluded.
THEOREM SomeBackendLeft == ASSUME DistinctNames PROVE Spec => []NeverEmptyHanded
  <1>1. IInv => NeverEmptyHanded
    <2> SUFFICES ASSUME IInv, NEW r \in Requests, pc[r] = "picking"
                 PROVE  Candidates(r) # {}
      BY DEF NeverEmptyHanded
    <2>1. excluded[r] \subseteq NameSet
      BY DEF IInv, LoopType
    <2>2. excluded[r] # NameSet
      <3>1. CASE excluded[r] = {}
        <4>1. 1 \in Backends
          BY WeightsAssumption DEF Backends
        <4> QED BY <3>1, <4>1, NameOfBackend
      <3>2. CASE Cardinality(excluded[r]) < Len(Weights)
        <4>1. Len(Weights) \in Nat
          BY WeightsAssumption
        <4> QED BY <3>2, <4>1, AsManyNames
      <3> QED BY <3>1, <3>2 DEF IInv, Bookkeeping
    <2>3. PICK n \in NameSet : n \notin excluded[r]
      BY <2>1, <2>2
    <2>4. PICK b \in Backends : Names[b] = n
      BY NamesAssumption, WeightsAssumption DEF NameSet, Range, Backends
    <2> QED BY <2>3, <2>4 DEF Candidates
  <1> QED BY <1>1, Invariant, PTL

-----------------------------------------------------------------------------
(* The sum of the current weights.                                         *)

\* The weights in force are numbers, and so are all current weights.
LEMMA WeightType == Weight \in [Backends -> Nat] /\ IsFiniteSet(Backends)
  <1>1. Backends = 1 .. Len(Weights) /\ Len(Weights) \in Nat
    BY WeightsAssumption DEF Backends
  <1>2. IsFiniteSet(Backends)
    BY <1>1, FS_Interval
  <1> QED BY <1>2, WeightsAssumption, DefaultAssumption DEF Weight, Backends

\* The weights that the candidates gain are those that the selected one pays.
LEMMA SettledSum ==
  ASSUME current \in [Backends -> Int], NEW r \in Requests, NEW b \in Backends
  PROVE  /\ Settled(r, b) \in [Backends -> Int]
         /\ SumFunctionOnSet(Settled(r, b), Backends) = SumFunctionOnSet(current, Backends)
  <1> DEFINE W == Weighted(r)
             due == SumFunctionOnSet(Weight, W)
             gains == [c \in Backends |-> IF c \in W THEN Weight[c] ELSE 0]
             pays == [c \in Backends |-> IF c = b THEN -due ELSE 0]
             raised == [c \in Backends |-> current[c] + gains[c]]
             paid == Settled(r, b)
  <1>1. W \in SUBSET Backends /\ IsFiniteSet(Backends)
    BY WeightType DEF Weighted, Candidates
  <1>2. due \in Int
    <2> HIDE DEF W
    <2>1. \A x \in Backends : Weight[x] \in Int
      BY WeightType
    <2> QED BY <1>1, <2>1, SumType
  <1>3. paid = [c \in Backends |->
                  current[c] + (IF c \in W THEN Weight[c] ELSE 0) - (IF c = b THEN due ELSE 0)]
    BY DEF Settled
  <1> HIDE DEF W, due, paid
  <1>4. \A c \in Backends : current[c] \in Int /\ gains[c] \in Int /\ raised[c] = current[c] + gains[c]
    BY WeightType
  <1>5. \A c \in Backends : raised[c] \in Int /\ pays[c] \in Int /\ paid[c] = raised[c] + pays[c]
    BY <1>2, <1>3, <1>4
  <1>6. paid \in [Backends -> Int]
    BY <1>3, <1>5
  <1>7. SumFunctionOnSet(gains, Backends) = due
    <2>1. /\ \A x \in W : gains[x] = Weight[x]
          /\ \A x \in Backends \ W : gains[x] = 0
          /\ \A x \in Backends : Weight[x] \in Int
      BY <1>1, WeightType
    <2> HIDE DEF gains
    <2> QED BY <1>1, <2>1, SumOfPart DEF due
  <1>8. SumFunctionOnSet(pays, Backends) = -due
    <2>1. pays[b] = -due /\ -due \in Int /\ \A x \in Backends : x # b => pays[x] = 0
      BY <1>2
    <2> HIDE DEF pays
    <2> QED BY <1>1, <2>1, SumOfOne
  <1> HIDE DEF gains, pays, raised
  <1>9. SumFunctionOnSet(raised, Backends)
          = SumFunctionOnSet(current, Backends) + SumFunctionOnSet(gains, Backends)
    BY <1>1, <1>4, SumAdds
  <1>10. SumFunctionOnSet(paid, Backends)
           = SumFunctionOnSet(raised, Backends) + SumFunctionOnSet(pays, Backends)
    BY <1>1, <1>5, SumAdds
  <1>11. SumFunctionOnSet(current, Backends) \in Int
    BY <1>1, <1>4, SumType
  <1> QED BY <1>2, <1>6, <1>7, <1>8, <1>9, <1>10, <1>11 DEF paid

CurrentType == current \in [Backends -> Int]

\* Only a pick writes the current weights.
LEMMA StepConserves ==
  CurrentType /\ [Next]_vars =>
      CurrentType' /\ SumFunction(current)' = SumFunction(current)
  <1> SUFFICES ASSUME CurrentType, [Next]_vars
               PROVE  CurrentType' /\ SumFunction(current)' = SumFunction(current)
    OBVIOUS
  <1>1. ASSUME NEW r \in Requests, Pick(r), current' # current
        PROVE  CurrentType' /\ SumFunction(current)' = SumFunction(current)
    <2>1. PICK b \in Backends : current' = Settled(r, b)
      BY <1>1 DEF Pick, Candidates
    <2>2. DOMAIN current = Backends /\ DOMAIN current' = Backends
      BY <2>1, SettledSum DEF CurrentType
    <2> QED BY <2>1, <2>2, SettledSum DEF CurrentType, SumFunction
  <1>2. ASSUME current' = current
        PROVE  CurrentType' /\ SumFunction(current)' = SumFunction(current)
    BY <1>2 DEF CurrentType, SumFunction
  <1>3. ASSUME NEW r \in Requests,
               Resolve(r) \/ Trim(r) \/ NoEngine(r) \/ Succeed(r) \/ FailForGood(r) \/ Fail(r)
        PROVE  current' = current
    BY <1>3 DEF Resolve, Trim, NoEngine, Succeed, FailForGood, Fail
  <1>4. ASSUME UNCHANGED vars \/ Finished \/ Tick \/ \E k \in Keys : KeyExpires(k)
        PROVE  current' = current
    BY <1>4 DEF vars, Finished, Tick, KeyExpires
  <1> QED BY <1>1, <1>2, <1>3, <1>4 DEF Next

\* Whatever the shard keys, exclusions and retries of the requests, the picks
\* of GetNextEngine only move weight between backends.
THEOREM WeightIsConserved == Spec => WeightConserved
  <1>1. Init => CurrentType
    BY WeightType DEF Init, InitialWeights, CurrentType
  <1>2. CurrentType /\ [Next]_vars => CurrentType'
    BY StepConserves
  <1>3. CurrentType /\ [Next]_vars => [SumFunction(current)' = SumFunction(current)]_vars
    BY StepConserves
  <1> QED BY <1>1, <1>2, <1>3, PTL DEF Spec, WeightConserved
=============================================================================
