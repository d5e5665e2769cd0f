---------------------------- MODULE FoldTheorems ---------------------------
(***************************************************************************)
(* Induction over finite sets, natural numbers and sequences in a form     *)
(* that speaks of sets, not of operators, and what it proves of folds: the *)
(* sums that the load balancers and the image fetch are about, and the     *)
(* lists that the Claude converter puts together.                          *)
(***************************************************************************)
EXTENDS Integers, Functions, FiniteSets, SequenceFolds, FiniteSetTheorems, SequenceTheorems,
        WellFoundedInduction, TLAPS

-----------------------------------------------------------------------------
(* Induction.                                                              *)

\* Among subsets of a finite set there is one that has none of the others.
LEMMA SmallestSubset ==
  ASSUME NEW S, IsFiniteSet(S), NEW T, T \subseteq SUBSET S, T # {}
  PROVE  \E s \in T : \A u \in T : u \subseteq s => u = s
<1>1. IsWellFoundedOn(StrictSubsetOrdering(S), SUBSET S)
  BY FS_StrictSubsetOrderingWellFounded, FS_FiniteSubsetsOfFinite
<1>2. PICK s \in T : \A u \in T : <<u, s>> \notin StrictSubsetOrdering(S)
  BY <1>1, WFMin
<1> QED BY <1>2 DEF StrictSubsetOrdering

\* The element of a set that a fold takes next.
Some(s) == CHOOSE x \in s : TRUE

\* What holds for the empty set, and for a set if for the rest of it, holds
\* for all subsets.
LEMMA SubsetInduction ==
  ASSUME NEW S, IsFiniteSet(S), NEW T,
         {} \in T,
         \A s \in SUBSET S : s # {} /\ s \ {Some(s)} \in T => s \in T
  PROVE  SUBSET S \subseteq T
<1> DEFINE Bad == {s \in SUBSET S : s \notin T}
<1> SUFFICES ASSUME Bad # {} PROVE FALSE
  OBVIOUS
<1>0. Bad \subseteq SUBSET S
  OBVIOUS
<1>1. PICK s \in Bad : \A u \in Bad : u \subseteq s => u = s
  <2> HIDE DEF Bad
  <2> QED BY <1>0, SmallestSubset
<1>2. s # {} /\ Some(s) \in s
  BY DEF Some
<1>3. s \in SUBSET S /\ s \notin T /\ s \ {Some(s)} \in SUBSET S
  BY <1>1
<1>4. s \ {Some(s)} \in T
  BY <1>1, <1>2, <1>3
<1> QED BY <1>2, <1>3, <1>4

\* What holds for 0, and for a number if for the one before it, holds for all.
LEMMA NatSetInduction ==
  ASSUME NEW T, 0 \in T, \A k \in Nat : k \in T => k + 1 \in T
  PROVE  Nat \subseteq T
<1> SUFFICES ASSUME NEW n \in Nat, n \notin T PROVE FALSE
  OBVIOUS
<1> DEFINE Bad == {0 .. k : k \in {j \in 0 .. n : j \notin T}}
<1>1. IsFiniteSet(0 .. n)
  BY FS_Interval
<1>2. Bad \subseteq SUBSET (0 .. n) /\ 0 .. n \in Bad
  OBVIOUS
<1>3. PICK s \in Bad : \A u \in Bad : u \subseteq s => u = s
  <2> DEFINE N == 0 .. n
  <2>1. IsFiniteSet(N) /\ Bad \subseteq SUBSET N /\ Bad # {}
    BY <1>1, <1>2
  <2> HIDE DEF Bad, N
  <2> QED BY <2>1, SmallestSubset
<1>4. PICK k \in 0 .. n : k \notin T /\ s = 0 .. k
  OBVIOUS
<1>5. k # 0 /\ k - 1 \in 0 .. n /\ k - 1 \in Nat /\ (k - 1) + 1 = k
  BY <1>4
<1>6. k - 1 \notin T
  BY <1>4, <1>5
<1>7. 0 .. k - 1 \in Bad /\ 0 .. k - 1 \subseteq s
  BY <1>4, <1>5, <1>6
<1>8. k \in s /\ k \notin 0 .. k - 1
  BY <1>4
<1> QED BY <1>3, <1>7, <1>8

-----------------------------------------------------------------------------
(* Sums are what they should be.                                           *)

\* One step of the fold, and the function it builds on all subsets.
Step(f, g, s) == IF s = {} THEN 0 ELSE f[Some(s)] + g[s \ {Some(s)}]
Sums(f, S) == CHOOSE g : g = [s \in SUBSET S |-> Step(f, g, s)]

LEMMA SumIsFold ==
  ASSUME NEW f, NEW S
  PROVE  SumFunctionOnSet(f, S) = Sums(f, S)[S]
BY DEF SumFunctionOnSet, FoldFunctionOnSet, MapThenFoldSet, Sums, Step, Some

\* The function exists,
LEMMA SumsExist ==
  ASSUME NEW f, NEW S, IsFiniteSet(S)
  PROVE  Sums(f, S) = [s \in SUBSET S |-> Step(f, Sums(f, S), s)]
<1> DEFINE Right(g, n) == \A s \in SUBSET S : Cardinality(s) <= n => g[s] = Step(f, g, s)
           T == {n \in Nat : \E g : Right(g, n)}
<1>0. \A s \in SUBSET S : IsFiniteSet(s) /\ Cardinality(s) \in Nat
  BY FS_Subset, FS_CardinalityType
<1>1. 0 \in T
  <2> DEFINE g == [s \in SUBSET S |-> 0]
  <2>1. ASSUME NEW s \in SUBSET S, Cardinality(s) <= 0 PROVE g[s] = Step(f, g, s)
    <3>1. s = {}
      BY <1>0, <2>1, FS_EmptySet
    <3> QED BY <3>1 DEF Step
  <2> QED BY <2>1
<1>2. ASSUME NEW n \in Nat, NEW g, Right(g, n)
      PROVE  Right([s \in SUBSET S |-> Step(f, g, s)], n + 1)
  <2> DEFINE h == [s \in SUBSET S |-> Step(f, g, s)]
  <2> SUFFICES ASSUME NEW s \in SUBSET S, Cardinality(s) <= n + 1 PROVE h[s] = Step(f, h, s)
    OBVIOUS
  <2>1. CASE s = {}
    BY <2>1 DEF Step
  <2>2. CASE s # {}
    <3> DEFINE u == s \ {Some(s)}
    <3>1. Some(s) \in s
      BY <2>2 DEF Some
    <3>2. u \in SUBSET S /\ Cardinality(u) = Cardinality(s) - 1
      BY <1>0, <3>1, FS_RemoveElement
    <3>3. Cardinality(u) <= n
      BY <1>0, <3>2
    <3>4. h[u] = g[u]
      BY <1>2, <3>2, <3>3
    <3> QED BY <2>2, <3>4 DEF Step
  <2> QED BY <2>1, <2>2
<1>3. ASSUME NEW n \in Nat, n \in T PROVE n + 1 \in T
  <2>1. PICK g : Right(g, n)
    BY <1>3
  <2>2. Right([s \in SUBSET S |-> Step(f, g, s)], n + 1)
    BY <1>2, <2>1
  <2> HIDE DEF Right
  <2> QED BY <2>2
<1>4. Nat \subseteq T
  <2> HIDE DEF T
  <2> QED BY <1>1, <1>3, NatSetInduction
<1>5. PICK g : Right(g, Cardinality(S))
  BY <1>0, <1>4
<1>6. \A s \in SUBSET S : Cardinality(s) <= Cardinality(S)
  BY FS_Subset
<1> DEFINE h == [s \in SUBSET S |-> Step(f, g, s)]
<1>7. \A s \in SUBSET S : h[s] = g[s]
  BY <1>5, <1>6
<1>8. \A s \in SUBSET S : s \ {Some(s)} \in SUBSET S
  OBVIOUS
<1>9. h = [s \in SUBSET S |-> Step(f, h, s)]
  BY <1>7, <1>8 DEF Step
<1> QED BY <1>9 DEF Sums

\* takes one element and the sum of the rest,
LEMMA SumsStep ==
  ASSUME NEW f, NEW S, IsFiniteSet(S), NEW s \in SUBSET S
  PROVE  Sums(f, S)[s] = Step(f, Sums(f, S), s)
<1> DEFINE G == Sums(f, S)
           F == [t \in SUBSET S |-> Step(f, G, t)]
<1>1. G = F
  BY SumsExist, ZenonT(60)
<1>2. F[s] = Step(f, G, s)
  <2> HIDE DEF G
  <2> QED OBVIOUS
<1>3. G[s] = F[s]
  <2> HIDE DEF G, F
  <2> QED BY <1>1
<1> QED BY <1>2, <1>3

\* and says the same of a set, whatever set it is a subset of.
LEMMA SumsAgree ==
  ASSUME NEW f, NEW S, IsFiniteSet(S), NEW U \in SUBSET S
  PROVE  Sums(f, U)[U] = Sums(f, S)[U]
<1> DEFINE T == {s \in SUBSET U : Sums(f, U)[s] = Sums(f, S)[s]}
<1>0. IsFiniteSet(U)
  BY FS_Subset
<1>1. \A s \in SUBSET U : /\ Sums(f, U)[s] = Step(f, Sums(f, U), s)
                          /\ Sums(f, S)[s] = Step(f, Sums(f, S), s)
  BY <1>0, SumsStep
<1>2. {} \in T
  BY <1>1 DEF Step
<1>3. ASSUME NEW s \in SUBSET U, s # {}, s \ {Some(s)} \in T PROVE s \in T
  BY <1>1, <1>3 DEF Step
<1>4. SUBSET U \subseteq T
  <2> HIDE DEF T
  <2> QED BY <1>0, <1>2, <1>3, SubsetInduction
<1> QED BY <1>4

\* Nothing adds up to 0.
LEMMA SumOfNone == \A f : SumFunctionOnSet(f, {}) = 0
<1> TAKE f
<1>1. Sums(f, {})[{}] = Step(f, Sums(f, {}), {})
  BY SumsStep, FS_EmptySet
<1> QED BY <1>1, SumIsFold DEF Step

\* A set that is not empty adds up to one element and the rest.
LEMMA SumTakesSome ==
  ASSUME NEW f, NEW S, IsFiniteSet(S), S # {}
  PROVE  SumFunctionOnSet(f, S) = f[Some(S)] + SumFunctionOnSet(f, S \ {Some(S)})
<1>1. Sums(f, S)[S] = f[Some(S)] + Sums(f, S)[S \ {Some(S)}]
  <2>1. Sums(f, S)[S] = Step(f, Sums(f, S), S)
    BY SumsStep
  <2> QED BY <2>1 DEF Step
<1>2. Sums(f, S \ {Some(S)})[S \ {Some(S)}] = Sums(f, S)[S \ {Some(S)}]
  BY SumsAgree
<1> QED BY <1>1, <1>2, SumIsFold

-----------------------------------------------------------------------------
(* What sums do.                                                           *)

\* Sums of integers are integers.
LEMMA SumType ==
  ASSUME NEW S, IsFiniteSet(S), NEW f, \A x \in S : f[x] \in Int
  PROVE  \A s \in SUBSET S : SumFunctionOnSet(f, s) \in Int
<1> DEFINE T == {s \in SUBSET S : SumFunctionOnSet(f, s) \in Int}
<1>1. {} \in T
  BY SumOfNone
<1>2. ASSUME NEW s \in SUBSET S, s # {}, s \ {Some(s)} \in T PROVE s \in T
  <2>1. IsFiniteSet(s) /\ Some(s) \in s
    BY <1>2, FS_Subset DEF Some
  <2> QED BY <1>2, <2>1, SumTakesSome
<1>3. SUBSET S \subseteq T
  <2> HIDE DEF T
  <2> QED BY <1>1, <1>2, SubsetInduction
<1> QED BY <1>3

\* The sum of sums.
LEMMA SumAdds ==
  ASSUME NEW S, IsFiniteSet(S), NEW f, NEW g, NEW h,
         \A x \in S : f[x] \in Int /\ g[x] \in Int /\ h[x] = f[x] + g[x]
  PROVE  SumFunctionOnSet(h, S) = SumFunctionOnSet(f, S) + SumFunctionOnSet(g, S)
<1> DEFINE T == {s \in SUBSET S : SumFunctionOnSet(h, s) = SumFunctionOnSet(f, s) + SumFunctionOnSet(g, s)}
<1>1. {} \in T
  BY SumOfNone
<1>2. ASSUME NEW s \in SUBSET S, s # {}, s \ {Some(s)} \in T PROVE s \in T
  <2>1. IsFiniteSet(s) /\ Some(s) \in s
    BY <1>2, FS_Subset DEF Some
  <2>2. /\ SumFunctionOnSet(f, s) = f[Some(s)] + SumFunctionOnSet(f, s \ {Some(s)})
        /\ SumFunctionOnSet(g, s) = g[Some(s)] + SumFunctionOnSet(g, s \ {Some(s)})
        /\ SumFunctionOnSet(h, s) = h[Some(s)] + SumFunctionOnSet(h, s \ {Some(s)})
    BY <1>2, <2>1, SumTakesSome
  <2>3. /\ SumFunctionOnSet(f, s \ {Some(s)}) \in Int
        /\ SumFunctionOnSet(g, s \ {Some(s)}) \in Int
    BY SumType
  <2> QED BY <1>2, <2>1, <2>2, <2>3
<1>3. SUBSET S \subseteq T
  <2> HIDE DEF T
  <2> QED BY <1>1, <1>2, SubsetInduction
<1> QED BY <1>3

\* A set in which all but one count nothing.
LEMMA SumOfOne ==
  ASSUME NEW S, IsFiniteSet(S), NEW f, NEW b \in S, f[b] \in Int,
         \A x \in S : x # b => f[x] = 0
  PROVE  SumFunctionOnSet(f, S) = f[b]
<1> DEFINE T == {s \in SUBSET S : SumFunctionOnSet(f, s) = IF b \in s THEN f[b] ELSE 0}
<1>1. {} \in T
  BY SumOfNone
<1>2. ASSUME NEW s \in SUBSET S, s # {}, s \ {Some(s)} \in T PROVE s \in T
  <2>1. IsFiniteSet(s) /\ Some(s) \in s
    BY <1>2, FS_Subset DEF Some
  <2>2. SumFunctionOnSet(f, s) = f[Some(s)] + SumFunctionOnSet(f, s \ {Some(s)})
    BY <1>2, <2>1, SumTakesSome
  <2> QED BY <1>2, <2>1, <2>2
<1>3. SUBSET S \subseteq T
  <2> HIDE DEF T
  <2> QED BY <1>1, <1>2, SubsetInduction
<1> QED BY <1>3

\* Larger values have the larger sum.
LEMMA SumGrows ==
  ASSUME NEW S, IsFiniteSet(S), NEW f, NEW g,
         \A x \in S : f[x] \in Int /\ g[x] \in Int /\ f[x] <= g[x]
  PROVE  SumFunctionOnSet(f, S) <= SumFunctionOnSet(g, S)
<1> DEFINE T == {s \in SUBSET S : SumFunctionOnSet(f, s) <= SumFunctionOnSet(g, s)}
<1>1. {} \in T
  BY SumOfNone
<1>2. ASSUME NEW s \in SUBSET S, s # {}, s \ {Some(s)} \in T PROVE s \in T
  <2>1. IsFiniteSet(s) /\ Some(s) \in s
    BY <1>2, FS_Subset DEF Some
  <2>2. /\ SumFunctionOnSet(f, s) = f[Some(s)] + SumFunctionOnSet(f, s \ {Some(s)})
        /\ SumFunctionOnSet(g, s) = g[Some(s)] + SumFunctionOnSet(g, s \ {Some(s)})
    BY <1>2, <2>1, SumTakesSome
  <2>3. /\ SumFunctionOnSet(f, s \ {Some(s)}) \in Int
        /\ SumFunctionOnSet(g, s \ {Some(s)}) \in Int
    BY SumType
  <2> QED BY <1>2, <2>1, <2>2, <2>3
<1>3. SUBSET S \subseteq T
  <2> HIDE DEF T
  <2> QED BY <1>1, <1>2, SubsetInduction
<1> QED BY <1>3

\* The sum of a value that is the same everywhere.
LEMMA SumOfSame ==
  ASSUME NEW S, IsFiniteSet(S), NEW d \in Int, NEW f, \A x \in S : f[x] = d
  PROVE  SumFunctionOnSet(f, S) = Cardinality(S) * d
<1> DEFINE T == {s \in SUBSET S : SumFunctionOnSet(f, s) = Cardinality(s) * d}
<1>1. {} \in T
  BY SumOfNone, FS_EmptySet
<1>2. ASSUME NEW s \in SUBSET S, s # {}, s \ {Some(s)} \in T PROVE s \in T
  <2>1. IsFiniteSet(s) /\ Some(s) \in s
    BY <1>2, FS_Subset DEF Some
  <2>2. SumFunctionOnSet(f, s) = f[Some(s)] + SumFunctionOnSet(f, s \ {Some(s)})
    BY <1>2, <2>1, SumTakesSome
  <2>3. Cardinality(s \ {Some(s)}) = Cardinality(s) - 1 /\ Cardinality(s) \in Int
    BY <2>1, FS_RemoveElement, FS_CardinalityType
  <2>4. \A n \in Int : n * d = d + (n - 1) * d
    OBVIOUS
  <2>5. Cardinality(s) * d = d + (Cardinality(s) - 1) * d
    BY <2>3, <2>4
  <2> QED BY <1>2, <2>1, <2>2, <2>3, <2>5
<1>3. SUBSET S \subseteq T
  <2> HIDE DEF T
  <2> QED BY <1>1, <1>2, SubsetInduction
<1> QED BY <1>3

\* A sum in which only a subset counts is the sum over the subset.
LEMMA SumOfPart ==
  ASSUME NEW S, IsFiniteSet(S), NEW f, \A x \in S : f[x] \in Int, NEW W \in SUBSET S,
         NEW g, \A x \in W : g[x] = f[x], \A x \in S \ W : g[x] = 0
  PROVE  SumFunctionOnSet(g, S) = SumFunctionOnSet(f, W)
<1> DEFINE Part(w) == [x \in S |-> IF x \in w THEN f[x] ELSE 0]
           T == {w \in SUBSET S : SumFunctionOnSet(Part(w), S) = SumFunctionOnSet(f, w)}
           none == [x \in S |-> 0]
<1>0. /\ SumFunctionOnSet(none, S) = 0
      /\ \A w \in SUBSET S : SumFunctionOnSet(f, w) \in Int
  <2>1. \A x \in S : none[x] = 0
    OBVIOUS
  <2>2. SumFunctionOnSet(none, S) = Cardinality(S) * 0 /\ Cardinality(S) \in Int
    <3> HIDE DEF none
    <3> QED BY <2>1, SumOfSame, FS_CardinalityType
  <2>3. \A w \in SUBSET S : SumFunctionOnSet(f, w) \in Int
    BY SumType
  <2> QED BY <2>2, <2>3
<1>1. {} \in T
  <2>1. Part({}) = none
    OBVIOUS
  <2> HIDE DEF Part, none
  <2> QED BY <1>0, <2>1, SumOfNone
<1>2. ASSUME NEW w \in SUBSET S, w # {}, w \ {Some(w)} \in T PROVE w \in T
  <2> DEFINE x == Some(w)
             rest == Part(w \ {x})
             one == [y \in S |-> IF y = x THEN f[x] ELSE 0]
             whole == Part(w)
  <2>1. IsFiniteSet(w) /\ x \in w /\ x \in S
    BY <1>2, FS_Subset DEF Some
  <2>2. one[x] = f[x] /\ \A y \in S : y # x => one[y] = 0
    BY <2>1
  <2>3. \A y \in S : rest[y] \in Int /\ one[y] \in Int /\ whole[y] = rest[y] + one[y]
    <3> HIDE DEF x
    <3> QED BY <2>1
  <2>4. SumFunctionOnSet(rest, S) = SumFunctionOnSet(f, w \ {x})
    BY <1>2
  <2>5. SumFunctionOnSet(f, w) = f[x] + SumFunctionOnSet(f, w \ {x})
    BY <1>2, <2>1, SumTakesSome
  <2> HIDE DEF rest, one, whole, x, Part
  <2>6. SumFunctionOnSet(one, S) = f[x]
    BY <2>1, <2>2, SumOfOne
  <2>7. SumFunctionOnSet(whole, S) = SumFunctionOnSet(rest, S) + SumFunctionOnSet(one, S)
    BY <2>3, SumAdds
  <2>8. SumFunctionOnSet(f, w \ {x}) \in Int /\ f[x] \in Int
    BY <1>0, <2>1
  <2>9. SumFunctionOnSet(whole, S) = SumFunctionOnSet(f, w)
    BY <2>4, <2>5, <2>6, <2>7, <2>8
  <2> QED BY <2>9 DEF whole
<1>3. SUBSET S \subseteq T
  <2> HIDE DEF T
  <2> QED BY <1>1, <1>2, SubsetInduction
<1> DEFINE part == Part(W)
<1>4. \A x \in S : part[x] = g[x] /\ g[x] \in Int
  OBVIOUS
<1>5. SumFunctionOnSet(part, S) = SumFunctionOnSet(f, W)
  BY <1>3
<1> HIDE DEF part, Part
<1>6. SumFunctionOnSet(g, S) <= SumFunctionOnSet(part, S) /\ SumFunctionOnSet(part, S) <= SumFunctionOnSet(g, S)
  BY <1>4, SumGrows
<1>7. SumFunctionOnSet(g, S) \in Int /\ SumFunctionOnSet(part, S) \in Int
  BY <1>4, SumType
<1> QED BY <1>5, <1>6, <1>7

-----------------------------------------------------------------------------
(* Sequences.                                                              *)

\* What holds for the empty sequence, and for a longer one if for the
\* sequence without its last element, holds for all.
LEMMA SequenceInduction ==
  ASSUME NEW S, NEW T, <<>> \in T,
         \A s \in Seq(S) : \A e \in S : s \in T => Append(s, e) \in T
  PROVE  Seq(S) \subseteq T
<1> DEFINE N == {n \in Nat : \A s \in Seq(S) : Len(s) = n => s \in T}
<1>1. 0 \in N
  <2>1. \A s \in Seq(S) : Len(s) = 0 => s = <<>>
    BY EmptySeq
  <2> QED BY <2>1
<1>2. ASSUME NEW n \in Nat, n \in N PROVE n + 1 \in N
  <2> SUFFICES ASSUME NEW s \in Seq(S), Len(s) = n + 1 PROVE s \in T
    OBVIOUS
  <2>1. s # <<>>
    BY EmptySeq
  <2>2. PICK front \in Seq(S), last \in S : s = Append(front, last)
    BY <2>1, SequenceEmptyOrAppend
  <2>3. Len(s) = Len(front) + 1 /\ Len(front) \in Nat
    BY <2>2, AppendProperties, LenProperties
  <2>4. front \in T
    BY <1>2, <2>3
  <2> QED BY <2>2, <2>4
<1>3. Nat \subseteq N
  <2> HIDE DEF N
  <2> QED BY <1>1, <1>2, NatSetInduction
<1>4. \A s \in Seq(S) : Len(s) \in Nat
  BY LenProperties
<1> QED BY <1>3, <1>4

\* A function on the numbers up to n is a sequence of that length.
LEMMA IsSequence ==
  ASSUME NEW S, NEW n \in Nat, NEW s \in [1 .. n -> S]
  PROVE  s \in Seq(S) /\ Len(s) = n /\ DOMAIN s = 1 .. n
<1>1. s \in Seq(S)
  BY SeqDef
<1>2. Len(s) \in Nat /\ 1 .. Len(s) = 1 .. n
  BY <1>1, LenProperties
<1> QED BY <1>1, <1>2

\* A list made from another, element by element.
LEMMA MappedAppend ==
  ASSUME NEW S, NEW s \in Seq(S), NEW e \in S,
         NEW V, NEW m \in Seq(V), Len(m) = Len(s), NEW v \in V,
         NEW t, DOMAIN t = DOMAIN Append(s, e), t = [i \in DOMAIN t |-> t[i]],
         \A i \in 1 .. Len(s) : t[i] = m[i],
         t[Len(s) + 1] = v
  PROVE  t = Append(m, v)
<1>1. Append(s, e) \in Seq(S) /\ Len(Append(s, e)) = Len(s) + 1 /\ Len(s) \in Nat
  BY AppendProperties, LenProperties
<1>2. DOMAIN t = 1 .. Len(s) + 1
  BY <1>1, LenProperties
<1>3. /\ Append(m, v) \in Seq(V) /\ Len(Append(m, v)) = Len(s) + 1
      /\ \A i \in 1 .. Len(s) : Append(m, v)[i] = m[i]
      /\ Append(m, v)[Len(s) + 1] = v
  BY AppendProperties
<1>4. Append(m, v) = [i \in 1 .. Len(s) + 1 |-> Append(m, v)[i]]
  BY <1>3, LenProperties
<1>5. \A i \in 1 .. Len(s) + 1 : t[i] = Append(m, v)[i]
  BY <1>1, <1>3
<1> QED BY <1>2, <1>4, <1>5

\* A list behind another may be put there element by element.
LEMMA JoinAppend ==
  ASSUME NEW S, NEW s \in Seq(S), NEW h \in Seq(S), NEW e \in S
  PROVE  s \o h \in Seq(S) /\ Append(h, e) \in Seq(S) /\ s \o Append(h, e) = Append(s \o h, e)
<1> DEFINE long == s \o h
           one == <<e>>
<1>1. one \in Seq(S) /\ long \in Seq(S)
  BY ConcatProperties
<1>2. Append(h, e) \in Seq(S) /\ Append(h, e) = h \o one
  BY AppendProperties, AppendIsConcat
<1>3. Append(long, e) = long \o one
  <2> HIDE DEF long
  <2> QED BY <1>1, AppendIsConcat
<1>4. long \o one = s \o (h \o one)
  <2> HIDE DEF one
  <2> QED BY <1>1, ConcatAssociative
<1> QED BY <1>1, <1>2, <1>3, <1>4

-----------------------------------------------------------------------------
(* Lists put one behind the other.                                         *)

\* One step of the fold, and the function it builds.
Longer(f, g, n) == IF n = 0 THEN <<>> ELSE g[n - 1] \o f[n]
UpTo(f) == CHOOSE g : g = [n \in 0 .. Len(f) |-> Longer(f, g, n)]

LEMMA ConcatIsFold == ASSUME NEW f PROVE Concat(f) = UpTo(f)[Len(f)]
BY DEF Concat, UpTo, Longer

\* The function exists,
LEMMA UpToExists ==
  ASSUME NEW f, Len(f) \in Nat
  PROVE  UpTo(f) = [n \in 0 .. Len(f) |-> Longer(f, UpTo(f), n)]
<1> DEFINE Right(g, m) == \A n \in 0 .. m : g[n] = Longer(f, g, n)
           T == {m \in Nat : \E g : Right(g, m)}
<1>1. 0 \in T
  <2> DEFINE g == [n \in 0 .. 0 |-> <<>>]
  <2>1. Right(g, 0)
    BY DEF Longer
  <2> QED BY <2>1
<1>2. ASSUME NEW m \in Nat, NEW g, Right(g, m)
      PROVE  Right([n \in 0 .. m + 1 |-> Longer(f, g, n)], m + 1)
  <2> DEFINE h == [n \in 0 .. m + 1 |-> Longer(f, g, n)]
  <2> SUFFICES ASSUME NEW n \in 0 .. m + 1 PROVE h[n] = Longer(f, h, n)
    OBVIOUS
  <2>1. CASE n = 0
    BY <2>1 DEF Longer
  <2>2. CASE n # 0
    <3>1. n - 1 \in 0 .. m /\ n - 1 \in 0 .. m + 1
      BY <2>2
    <3>2. h[n - 1] = g[n - 1]
      BY <1>2, <3>1
    <3> QED BY <2>2, <3>2 DEF Longer
  <2> QED BY <2>1, <2>2
<1>3. ASSUME NEW m \in Nat, m \in T PROVE m + 1 \in T
  <2>1. PICK g : Right(g, m)
    BY <1>3
  <2>2. Right([n \in 0 .. m + 1 |-> Longer(f, g, n)], m + 1)
    BY <1>2, <2>1
  <2> HIDE DEF Right
  <2> QED BY <2>2
<1>4. Nat \subseteq T
  <2> HIDE DEF T
  <2> QED BY <1>1, <1>3, NatSetInduction
<1>5. PICK g : Right(g, Len(f))
  BY <1>4
<1> DEFINE h == [n \in 0 .. Len(f) |-> Longer(f, g, n)]
<1>6. \A n \in 0 .. Len(f) : h[n] = g[n]
  BY <1>5
<1>7. \A n \in 0 .. Len(f) : n # 0 => n - 1 \in 0 .. Len(f)
  OBVIOUS
<1>8. h = [n \in 0 .. Len(f) |-> Longer(f, h, n)]
  BY <1>6, <1>7 DEF Longer
<1> QED BY <1>8 DEF UpTo

\* takes one list at a time,
LEMMA UpToStep ==
  ASSUME NEW f, Len(f) \in Nat, NEW n \in 0 .. Len(f)
  PROVE  UpTo(f)[n] = IF n = 0 THEN <<>> ELSE UpTo(f)[n - 1] \o f[n]
<1> DEFINE G == UpTo(f)
           F == [k \in 0 .. Len(f) |-> Longer(f, G, k)]
<1>1. G = F
  BY UpToExists
<1>2. F[n] = Longer(f, G, n)
  <2> HIDE DEF G
  <2> QED OBVIOUS
<1>3. G[n] = F[n]
  <2> HIDE DEF G, F
  <2> QED BY <1>1
<1> QED BY <1>2, <1>3 DEF Longer

\* and of a list says what it says of a longer one.
LEMMA UpToAgrees ==
  ASSUME NEW f, NEW g, Len(f) \in Nat, Len(g) \in Nat, Len(f) <= Len(g),
         \A i \in 1 .. Len(f) : f[i] = g[i]
  PROVE  \A n \in 0 .. Len(f) : UpTo(f)[n] = UpTo(g)[n]
<1> DEFINE T == {n \in Nat : n <= Len(f) => UpTo(f)[n] = UpTo(g)[n]}
<1>1. 0 \in T
  BY UpToStep
<1>2. ASSUME NEW n \in Nat, n \in T PROVE n + 1 \in T
  <2> SUFFICES ASSUME n + 1 <= Len(f) PROVE UpTo(f)[n + 1] = UpTo(g)[n + 1]
    OBVIOUS
  <2>1. n + 1 \in 0 .. Len(f) /\ n + 1 \in 0 .. Len(g) /\ n + 1 # 0 /\ (n + 1) - 1 = n /\ n <= Len(f)
    OBVIOUS
  <2>2. UpTo(f)[n + 1] = UpTo(f)[n] \o f[n + 1] /\ UpTo(g)[n + 1] = UpTo(g)[n] \o g[n + 1]
    BY <2>1, UpToStep
  <2>3. UpTo(f)[n] = UpTo(g)[n]
    BY <1>2, <2>1
  <2>4. f[n + 1] = g[n + 1]
    BY <2>1
  <2> QED BY <2>2, <2>3, <2>4
<1>3. Nat \subseteq T
  <2> HIDE DEF T
  <2> QED BY <1>1, <1>2, NatSetInduction
<1> QED BY <1>3

LEMMA ConcatEmpty == Concat(<<>>) = <<>>
<1>1. Len(<<>>) = 0
  OBVIOUS
<1>2. UpTo(<<>>)[0] = <<>>
  BY <1>1, UpToStep
<1> QED BY <1>1, <1>2, ConcatIsFold

LEMMA ConcatAppend ==
  ASSUME NEW S, NEW f \in Seq(S), NEW e \in S
  PROVE  Concat(Append(f, e)) = Concat(f) \o e
<1> DEFINE g == Append(f, e)
<1>1. Len(f) \in Nat /\ Len(g) = Len(f) + 1 /\ (\A i \in 1 .. Len(f) : f[i] = g[i]) /\ g[Len(g)] = e
  BY AppendProperties, LenProperties
<1>2. UpTo(g)[Len(g)] = UpTo(g)[Len(f)] \o e
  <2> HIDE DEF g
  <2>1. Len(g) \in Nat /\ Len(g) \in 0 .. Len(g) /\ Len(g) # 0 /\ Len(g) - 1 = Len(f)
    BY <1>1
  <2> QED BY <1>1, <2>1, UpToStep
<1>3. UpTo(g)[Len(f)] = UpTo(f)[Len(f)]
  <2> HIDE DEF g
  <2>1. Len(f) \in 0 .. Len(f) /\ Len(f) <= Len(g) /\ Len(g) \in Nat
    BY <1>1
  <2> QED BY <1>1, <2>1, UpToAgrees
<1> QED BY <1>2, <1>3, ConcatIsFold

\* Lists of elements of a set make a list of elements of it.
LEMMA ConcatType == ASSUME NEW S, NEW f \in Seq(Seq(S)) PROVE Concat(f) \in Seq(S)
<1> DEFINE T == {g \in Seq(Seq(S)) : Concat(g) \in Seq(S)}
<1>1. <<>> \in T
  BY ConcatEmpty, EmptySeq
<1>2. ASSUME NEW g \in Seq(Seq(S)), NEW e \in Seq(S), g \in T PROVE Append(g, e) \in T
  BY <1>2, ConcatAppend, ConcatProperties, AppendProperties
<1>3. Seq(Seq(S)) \subseteq T
  <2> HIDE DEF T
  <2> QED BY <1>1, <1>2, SequenceInduction
<1> QED BY <1>3

LEMMA ConcatJoin ==
  ASSUME NEW S, NEW f \in Seq(Seq(S)), NEW g \in Seq(Seq(S))
  PROVE  Concat(f \o g) = Concat(f) \o Concat(g)
<1> DEFINE T == {h \in Seq(Seq(S)) : Concat(f \o h) = Concat(f) \o Concat(h)}
<1>0. Concat(f) \in Seq(S)
  BY ConcatType
<1>1. <<>> \in T
  BY <1>0, ConcatEmpty, ConcatEmptySeq, EmptySeq
<1>2. ASSUME NEW h \in Seq(Seq(S)), NEW e \in Seq(S), h \in T PROVE Append(h, e) \in T
  <2> DEFINE long == f \o h
             V == Seq(S)
  <2>1. long \in Seq(V) /\ Append(h, e) \in Seq(V) /\ f \o Append(h, e) = Append(long, e)
    <3> HIDE DEF V
    <3> QED BY JoinAppend, SMTT(30) DEF V
  <2>2. Concat(Append(long, e)) = Concat(long) \o e
    <3> HIDE DEF long
    <3> QED BY <2>1, ConcatAppend
  <2>3. Concat(h) \in Seq(S) /\ Concat(Append(h, e)) = Concat(h) \o e
    BY ConcatType, ConcatAppend
  <2>4. (Concat(f) \o Concat(h)) \o e = Concat(f) \o (Concat(h) \o e)
    BY <1>0, <2>3, ConcatAssociative, SMTT(30)
  <2>5. Concat(long) = Concat(f) \o Concat(h)
    BY <1>2
  <2> QED BY <2>1, <2>2, <2>3, <2>4, <2>5
<1>3. Seq(Seq(S)) \subseteq T
  <2> HIDE DEF T
  <2> QED BY <1>1, <1>2, SequenceInduction
<1> QED BY <1>3

-----------------------------------------------------------------------------
(* The elements of a list that are in a set, which is what Selected is     *)
(* where the elements of the list are known.                               *)

Marked(s, K) == [i \in DOMAIN s |-> IF s[i] \in K THEN <<s[i]>> ELSE <<>>]
Picked(s, K) == Concat(Marked(s, K))

LEMMA MarkedType ==
  ASSUME NEW S, NEW K, NEW s \in Seq(S)
  PROVE  Marked(s, K) \in Seq(Seq(S \cap K)) /\ Len(Marked(s, K)) = Len(s)
<1>1. Len(s) \in Nat /\ DOMAIN s = 1 .. Len(s) /\ \A i \in 1 .. Len(s) : s[i] \in S
  BY LenProperties, ElementOfSeq
<1>2. ASSUME NEW x \in S, x \in K PROVE <<x>> \in Seq(S \cap K)
  BY <1>2
<1>3. <<>> \in Seq(S \cap K)
  BY EmptySeq
<1>4. Marked(s, K) \in [1 .. Len(s) -> Seq(S \cap K)]
  BY <1>1, <1>2, <1>3 DEF Marked
<1> QED BY <1>1, <1>4, IsSequence

LEMMA PickedType ==
  ASSUME NEW S, NEW K, NEW s \in Seq(S)
  PROVE  Picked(s, K) \in Seq(S \cap K)
BY MarkedType, ConcatType DEF Picked

LEMMA PickedEmpty == ASSUME NEW K PROVE Picked(<<>>, K) = <<>>
<1>1. Marked(<<>>, K) = <<>>
  BY DEF Marked
<1> QED BY <1>1, ConcatEmpty DEF Picked

LEMMA PickedAppend ==
  ASSUME NEW S, NEW K, NEW s \in Seq(S), NEW e \in S
  PROVE  Picked(Append(s, e), K) = IF e \in K THEN Append(Picked(s, K), e) ELSE Picked(s, K)
<1> DEFINE W == Seq(S \cap K)
           m == Marked(s, K)
           t == Marked(Append(s, e), K)
           v == IF e \in K THEN <<e>> ELSE <<>>
<1>1. m \in Seq(W) /\ Len(m) = Len(s)
  BY MarkedType
<1>2. v \in W
  <2>1. <<>> \in W
    BY EmptySeq
  <2>2. ASSUME e \in K PROVE <<e>> \in W
    BY <2>2
  <2> HIDE DEF W
  <2> QED BY <2>1, <2>2
<1>3. /\ DOMAIN Append(s, e) = 1 .. Len(s) + 1 /\ Append(s, e)[Len(s) + 1] = e
      /\ (\A i \in 1 .. Len(s) : Append(s, e)[i] = s[i]) /\ DOMAIN s = 1 .. Len(s) /\ Len(s) \in Nat
  <2>1. Append(s, e) \in Seq(S) /\ Len(Append(s, e)) = Len(s) + 1
    BY AppendProperties
  <2> QED BY <2>1, AppendProperties, LenProperties
<1>4. DOMAIN t = DOMAIN Append(s, e) /\ t = [i \in DOMAIN t |-> t[i]]
  BY DEF Marked
<1>5. (\A i \in 1 .. Len(s) : t[i] = m[i]) /\ t[Len(s) + 1] = v
  BY <1>3 DEF Marked
<1>6. t = Append(m, v)
  <2> HIDE DEF t, m, v, W
  <2> QED BY <1>1, <1>2, <1>4, <1>5, MappedAppend
<1>7. Concat(t) = Concat(m) \o v /\ Concat(m) \in W
  <2> HIDE DEF t, m, v
  <2> QED BY <1>1, <1>2, <1>6, ConcatAppend, ConcatType
<1>8. CASE e \in K
  BY <1>7, <1>8, AppendIsConcat DEF Picked
<1>9. CASE e \notin K
  BY <1>7, <1>9, ConcatEmptySeq DEF Picked
<1> QED BY <1>8, <1>9

LEMMA PickedAll == ASSUME NEW K, NEW s \in Seq(K) PROVE Picked(s, K) = s
<1> DEFINE T == {u \in Seq(K) : Picked(u, K) = u}
<1>1. <<>> \in T
  BY PickedEmpty, EmptySeq
<1>2. ASSUME NEW u \in Seq(K), NEW e \in K, u \in T PROVE Append(u, e) \in T
  BY <1>2, PickedAppend, AppendProperties
<1>3. Seq(K) \subseteq T
  <2> HIDE DEF T
  <2> QED BY <1>1, <1>2, SequenceInduction
<1> QED BY <1>3

LEMMA PickedNone == ASSUME NEW S, NEW K, S \cap K = {}, NEW s \in Seq(S) PROVE Picked(s, K) = <<>>
<1> DEFINE T == {u \in Seq(S) : Picked(u, K) = <<>>}
<1>1. <<>> \in T
  BY PickedEmpty, EmptySeq
<1>2. ASSUME NEW u \in Seq(S), NEW e \in S, u \in T PROVE Append(u, e) \in T
  BY <1>2, PickedAppend, AppendProperties
<1>3. Seq(S) \subseteq T
  <2> HIDE DEF T
  <2> QED BY <1>1, <1>2, SequenceInduction
<1> QED BY <1>3

LEMMA PickedJoin ==
  ASSUME NEW S, NEW K, NEW s \in Seq(S), NEW u \in Seq(S)
  PROVE  Picked(s \o u, K) = Picked(s, K) \o Picked(u, K)
<1> DEFINE T == {h \in Seq(S) : Picked(s \o h, K) = Picked(s, K) \o Picked(h, K)}
           R == S \cap K
<1>0. \A h \in Seq(S) : Picked(h, K) \in Seq(R)
  BY PickedType
<1>1. <<>> \in T
  BY <1>0, PickedEmpty, ConcatEmptySeq, EmptySeq
<1>2. ASSUME NEW h \in Seq(S), NEW e \in S, h \in T PROVE Append(h, e) \in T
  <2> DEFINE long == s \o h
             a == Picked(s, K)
             b == Picked(h, K)
  <2>1. long \in Seq(S) /\ Append(h, e) \in Seq(S) /\ s \o Append(h, e) = Append(long, e)
    BY JoinAppend
  <2>2. Picked(Append(long, e), K) = IF e \in K THEN Append(Picked(long, K), e) ELSE Picked(long, K)
    <3> HIDE DEF long
    <3> QED BY <2>1, PickedAppend
  <2>3. Picked(Append(h, e), K) = IF e \in K THEN Append(b, e) ELSE b
    BY PickedAppend
  <2>4. Picked(long, K) = a \o b
    BY <1>2
  <2>5. ASSUME e \in K PROVE Append(a \o b, e) = a \o Append(b, e)
    <3>1. a \in Seq(R) /\ b \in Seq(R) /\ e \in R
      BY <1>0, <2>5
    <3>2. ASSUME NEW V, NEW x \in Seq(V), NEW y \in Seq(V), NEW z \in V
          PROVE  x \o y \in Seq(V) /\ Append(y, z) \in Seq(V) /\ x \o Append(y, z) = Append(x \o y, z)
      BY JoinAppend
    <3> HIDE DEF a, b, R
    <3>3. a \o b \in Seq(R) /\ Append(b, e) \in Seq(R) /\ a \o Append(b, e) = Append(a \o b, e)
      BY <3>1, <3>2
    <3> QED BY <3>3
  <2>6. Picked(s \o Append(h, e), K) = a \o Picked(Append(h, e), K)
    BY <2>1, <2>2, <2>3, <2>4, <2>5
  <2> QED BY <2>1, <2>6
<1>3. Seq(S) \subseteq T
  <2> HIDE DEF T
  <2> QED BY <1>1, <1>2, SequenceInduction
<1> QED BY <1>3
=============================================================================
