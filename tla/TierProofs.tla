----------------------------- MODULE TierProofs -----------------------------
(***************************************************************************)
(* Theorems about the limiters that tell priorities apart: RequestLimiters *)
(* and ColorConcurrency, for all limits, windows, rates and tiers and any  *)
(* number of requests.                                                     *)
(***************************************************************************)
EXTENDS RequestLimiters, ColorConcurrency, FiniteSetTheorems, SequenceTheorems, TLAPS

-----------------------------------------------------------------------------
(* The request limiters: arithmetic.                                       *)

\* Rounding down loses less than the divisor.
LEMMA RoundDown ==
    ASSUME NEW x \in Int, NEW w \in Nat \ {0}
    PROVE  /\ x \div w \in Int
           /\ (x \div w) * w <= x
           /\ x < (x \div w) * w + w
  BY Z3

\* A quotient is at least n as soon as the dividend is n times the divisor.
LEMMA AtLeast ==
    ASSUME NEW x \in Int, NEW w \in Nat \ {0}, NEW n \in {0, 1}, x >= n * w
    PROVE  x \div w >= n
<1> DEFINE q == x \div w
<1>1. q \in Int /\ x < q * w + w
  BY RoundDown
<1> HIDE DEF q
<1>2. q * w + w > n * w
  BY <1>1
<1>3. CASE q < n
  <2>1. q + 1 <= n
    BY <1>1, <1>3
  <2>2. (q + 1) * w <= n * w
    BY <1>1, <2>1
  <2>3. (q + 1) * w = q * w + w
    BY <1>1
  <2> QED
    BY <1>1, <1>2, <2>2, <2>3
<1> QED
  BY <1>1, <1>3 DEF q

\* Rounding up covers the dividend.
LEMMA RoundUp ==
    ASSUME NEW x \in Nat, NEW w \in Nat \ {0}
    PROVE  ((x + w - 1) \div w) * w >= x
<1> DEFINE y == x + w - 1
<1>1. y \in Int /\ y = x + w - 1
  OBVIOUS
<1> HIDE DEF y
<1>2. /\ y \div w \in Int
      /\ y < (y \div w) * w + w
  BY <1>1, RoundDown
<1>3. (y \div w) * w \in Int
  BY <1>2
<1>4. (y \div w) * w >= x
  BY <1>1, <1>2, <1>3
<1> QED
  BY <1>4 DEF y

-----------------------------------------------------------------------------
(* The keys and their constants.                                           *)

\* What the constructors give every key.
LEMMA KeyFacts ==
    ASSUME NEW k \in Keys
    PROVE  /\ Limit(k) \in Nat /\ Burst(k) \in Nat
           /\ Limit(k) > 0 => Burst(k) > 0
           /\ Limit(k) = 0 => Burst(k) = 0
           /\ Ttl(k) \in Nat
           /\ (Ttl(k) - Skew) * Limit(k) >= Burst(k) * Window
<1> USE LimitsAssumption, WindowAssumption, SkewAssumption
<1>1. Limit(k) \in Nat /\ Burst(k) \in Nat
  BY DEF Keys, Limit, Burst, Plain, Mark, Color, MarkTiers, ColorTiers
<1>2. (Limit(k) > 0 => Burst(k) > 0) /\ (Limit(k) = 0 => Burst(k) = 0)
  BY <1>1 DEF Keys, Limit, Burst, Plain, Mark, Color
<1>3. CASE Limit(k) = 0
  BY <1>1, <1>2, <1>3 DEF Ttl
<1>4. CASE Limit(k) # 0
  <2> DEFINE l == Limit(k)
             x == Burst(k) * Window
             q == (x + l - 1) \div l
  <2>1. l \in Nat \ {0} /\ x \in Nat
    BY <1>1, <1>4
  <2>2. Ttl(k) = q + 1
    BY <1>4 DEF Ttl
  <2> HIDE DEF l, x
  <2>3. q * l >= x
    BY <2>1, RoundUp
  <2>4. q \in Int
    BY <2>1, RoundDown
  <2> HIDE DEF q
  <2>5. q >= 0
    <3>1. CASE q < 0
      <4>1. q * l < 0
        BY <2>1, <2>4, <3>1
      <4> QED
        BY <2>1, <2>3, <2>4, <4>1
    <3> QED
      BY <2>4, <3>1
  <2>6. (q + 1 - Skew) * l >= q * l
    <3>1. CASE Skew = 0
      BY <2>1, <2>4, <3>1
    <3>2. CASE Skew = 1
      BY <2>1, <2>4, <3>2
    <3> QED
      BY <3>1, <3>2
  <2>7. (q + 1 - Skew) * l >= x
    <3>1. q * l \in Int /\ (q + 1 - Skew) * l \in Int
      BY <2>1, <2>4
    <3> QED
      BY <2>1, <2>3, <2>6, <3>1
  <2>8. Ttl(k) \in Nat
    BY <2>2, <2>4, <2>5
  <2>9. (Ttl(k) - Skew) * Limit(k) >= Burst(k) * Window
    <3>1. Ttl(k) - Skew = q + 1 - Skew
      BY <2>2, <2>4, SkewAssumption
    <3>2. (Ttl(k) - Skew) * l >= x
      BY <2>7, <3>1
    <3> QED
      BY <3>2 DEF l, x
  <2> QED
    BY <1>1, <1>2, <2>8, <2>9
<1> QED
  BY <1>1, <1>3, <1>4

\* Tier 0 of the color limiter and the plain bucket are keys.
LEMMA KeysHave ==
    /\ Plain \in Keys
    /\ \A i \in MarkTiers : Mark(i) \in Keys
    /\ \A i \in ColorTiers : Color(i) \in Keys
    /\ Color(0) \in Keys
BY LimitsAssumption DEF Keys, ColorTiers

\* The part of the type invariant that is about buckets.
BucketTypes ==
    /\ live \subseteq Keys
    /\ tokens \in [Keys -> Nat]
    /\ \A k \in Keys : tokens[k] <= Burst(k)
    /\ age \in [Keys -> Int]
    /\ \A k \in Keys : age[k] >= -Skew
    /\ left \in [Keys -> Nat]
    /\ debt \in [Keys -> Nat]

\* What a script computes.
LEMMA TokensBound ==
    ASSUME BucketTypes, NEW k \in Keys, NEW c \in 0..Skew
    PROVE  /\ Tokens(k, c) \in Int
           /\ Tokens(k, c) <= Burst(k)
           /\ k \in live =>
                Tokens(k, c) * Window <= tokens[k] * Window + (age[k] + c) * Limit(k)
           /\ k \notin live => Tokens(k, c) = Burst(k)
<1> DEFINE x == (age[k] + c) * Limit(k)
           q == x \div Window
<1>1. /\ x \in Int /\ tokens[k] \in Nat /\ Burst(k) \in Nat
      /\ Window \in Nat \ {0}
  BY KeyFacts, SkewAssumption, WindowAssumption DEF BucketTypes
<1>2. Tokens(k, c) = IF k \in live THEN Smaller(Burst(k), tokens[k] + q) ELSE Burst(k)
  BY DEF Tokens
<1> HIDE DEF x
<1>3. q \in Int /\ q * Window <= x
  BY <1>1, RoundDown
<1> HIDE DEF q
<1>4. Tokens(k, c) \in Int /\ Tokens(k, c) <= Burst(k)
  BY <1>1, <1>2, <1>3 DEF Smaller
<1>5. ASSUME k \in live
      PROVE  Tokens(k, c) * Window <= tokens[k] * Window + x
  <2>1. Tokens(k, c) <= tokens[k] + q
    BY <1>1, <1>2, <1>3, <1>5 DEF Smaller
  <2>2. Tokens(k, c) * Window <= (tokens[k] + q) * Window
    BY <1>1, <1>3, <1>4, <2>1
  <2>3. (tokens[k] + q) * Window = tokens[k] * Window + q * Window
    BY <1>1, <1>3
  <2>4. /\ Tokens(k, c) * Window \in Int /\ tokens[k] * Window \in Int
        /\ q * Window \in Int
    BY <1>1, <1>3, <1>4
  <2> QED
    BY <1>1, <1>3, <2>2, <2>3, <2>4
<1> QED
  BY <1>2, <1>4, <1>5 DEF x

-----------------------------------------------------------------------------
(* The inductive invariant.                                                *)

\* What is owed is not in the bucket, nor does the age of the bucket make
\* up for it.
Paid(k) ==
    \/ debt[k] = 0
    \/ k \in live /\ debt[k] + tokens[k] * Window + age[k] * Limit(k) <= Burst(k) * Window

\* A key expires when it is old enough to be full.
Timer(k) == k \in live => left[k] + age[k] >= Ttl(k) - Skew

\* The last token given is owed until time pays it back.
Recent(k) == k \in live => debt[k] + (age[k] + Skew) * Limit(k) >= Window

Ledger == BucketTypes /\ \A k \in Keys : Paid(k) /\ Timer(k) /\ Recent(k)

\* A script that admits, for one of the keys that pay.
LEMMA PaidByScript ==
    ASSUME Ledger, NEW k \in Keys, NEW c \in 0..Skew, Tokens(k, c) >= 1
    PROVE  debt[k] + Window + (Tokens(k, c) - 1) * Window + (-c) * Limit(k)
             <= Burst(k) * Window
<1> DEFINE t == Tokens(k, c)
           l == Limit(k)
           cl == c * Limit(k)
<1>1. /\ t \in Int /\ t <= Burst(k)
      /\ k \in live => t * Window <= tokens[k] * Window + (age[k] + c) * l
      /\ k \notin live => t = Burst(k)
  BY TokensBound DEF Ledger
<1>2. /\ l \in Nat /\ Burst(k) \in Nat /\ Window \in Nat /\ c \in Nat
      /\ debt[k] \in Nat /\ tokens[k] \in Nat /\ age[k] \in Int
  BY KeyFacts, WindowAssumption, SkewAssumption DEF Ledger, BucketTypes
<1> HIDE DEF t, l
<1>3. /\ cl \in Nat /\ t * Window \in Int /\ Burst(k) * Window \in Nat
      /\ tokens[k] * Window \in Nat /\ age[k] * l \in Int
  BY <1>1, <1>2 DEF l
<1>4. (t - 1) * Window = t * Window - Window /\ (-c) * l = -cl
  BY <1>1, <1>2 DEF l
<1>5. debt[k] + t * Window - cl <= Burst(k) * Window
  <2>1. CASE debt[k] = 0
    <3>1. t * Window <= Burst(k) * Window
      BY <1>1, <1>2
    <3> QED
      BY <1>2, <1>3, <2>1, <3>1
  <2>2. CASE k \in live /\ debt[k] + tokens[k] * Window + age[k] * l <= Burst(k) * Window
    <3>1. (age[k] + c) * l = age[k] * l + cl
      BY <1>2 DEF l
    <3> QED
      BY <1>1, <1>2, <1>3, <2>2, <3>1
  <2> QED
    BY <2>1, <2>2 DEF Ledger, Paid, l
<1> QED
  BY <1>2, <1>3, <1>4, <1>5 DEF t, l

\* A script that admits keeps the ledger.
LEMMA ConsumeStep ==
    ASSUME Ledger, NEW ks \in SUBSET Keys, NEW c \in 0..Skew,
           \A k \in ks : Tokens(k, c) >= 1, Consume(ks, c)
    PROVE  Ledger'
<1> USE DEF Consume
<1>1. /\ c \in Nat /\ c <= Skew /\ Skew \in Nat /\ Window \in Nat \ {0}
      /\ live \subseteq Keys /\ tokens \in [Keys -> Nat] /\ age \in [Keys -> Int]
      /\ left \in [Keys -> Nat] /\ debt \in [Keys -> Nat]
  BY SkewAssumption, WindowAssumption DEF Ledger, BucketTypes
<1>2. ASSUME NEW k \in ks
      PROVE  /\ Tokens(k, c) - 1 \in Nat /\ Tokens(k, c) - 1 <= Burst(k)
             /\ Burst(k) \in Nat /\ Ttl(k) \in Nat /\ Limit(k) \in Nat
  BY TokensBound, KeyFacts DEF Ledger
<1>3. BucketTypes'
  <2>1. tokens' \in [Keys -> Nat]
    BY <1>1, <1>2
  <2>2. \A k \in Keys : tokens'[k] <= Burst(k)
    BY <1>1, <1>2 DEF Ledger, BucketTypes
  <2>3. age' \in [Keys -> Int] /\ \A k \in Keys : age'[k] >= -Skew
    BY <1>1 DEF Ledger, BucketTypes
  <2>4. left' \in [Keys -> Nat] /\ debt' \in [Keys -> Nat] /\ live' \subseteq Keys
    BY <1>1, <1>2
  <2> QED
    BY <2>1, <2>2, <2>3, <2>4 DEF BucketTypes
<1>4. ASSUME NEW k \in Keys PROVE (Paid(k) /\ Timer(k) /\ Recent(k))'
  <2>1. CASE k \notin ks
    <3>1. /\ debt'[k] = debt[k] /\ tokens'[k] = tokens[k] /\ age'[k] = age[k]
          /\ left'[k] = left[k] /\ (k \in live' <=> k \in live)
      BY <2>1
    <3> QED
      BY <3>1 DEF Ledger, Paid, Timer, Recent, Burst, Ttl, Limit
  <2>2. CASE k \in ks
    <3>1. /\ debt'[k] = debt[k] + Window /\ tokens'[k] = Tokens(k, c) - 1
          /\ age'[k] = -c /\ left'[k] = Ttl(k) /\ k \in live'
      BY <2>2
    <3>2. Paid(k)'
      BY <2>2, <3>1, PaidByScript DEF Paid, Burst, Limit
    <3>3. Timer(k)'
      BY <1>1, <1>2, <2>2, <3>1 DEF Timer, Ttl, Limit, Burst
    <3>4. Recent(k)'
      <4>1. Limit(k) \in Nat /\ debt[k] \in Nat
        BY <1>1, <1>2, <2>2
      <4>2. (-c + Skew) * Limit(k) >= 0
        BY <1>1, <4>1
      <4>3. debt[k] + Window + (-c + Skew) * Limit(k) >= Window
        <5>1. (-c + Skew) * Limit(k) \in Int
          BY <1>1, <4>1
        <5> QED
          BY <1>1, <4>1, <4>2, <5>1
      <4> QED
        BY <3>1, <4>3 DEF Recent, Limit
    <3> QED
      BY <3>2, <3>3, <3>4
  <2> QED
    BY <2>1, <2>2
<1> QED
  BY <1>3, <1>4 DEF Ledger

\* An expired bucket was full: nothing is owed.
LEMMA ExpireStep ==
    ASSUME Ledger, NEW k \in Keys, Expire(k)
    PROVE  Ledger'
<1> USE DEF Expire
<1>1. /\ Limit(k) \in Nat /\ Burst(k) \in Nat /\ Ttl(k) \in Nat
      /\ (Ttl(k) - Skew) * Limit(k) >= Burst(k) * Window
      /\ Window \in Nat \ {0} /\ Skew \in Nat
      /\ debt[k] \in Nat /\ tokens[k] \in Nat /\ age[k] \in Int
  BY KeyFacts, WindowAssumption, SkewAssumption DEF Ledger, BucketTypes
<1>2. debt[k] = 0
  <2>1. age[k] >= Ttl(k) - Skew
    BY <1>1 DEF Ledger, Timer
  <2>2. age[k] * Limit(k) >= (Ttl(k) - Skew) * Limit(k)
    BY <1>1, <2>1
  <2>3. /\ age[k] * Limit(k) \in Int /\ (Ttl(k) - Skew) * Limit(k) \in Int
        /\ Burst(k) * Window \in Int /\ tokens[k] * Window \in Nat
    BY <1>1
  <2>4. age[k] * Limit(k) >= Burst(k) * Window
    BY <1>1, <2>2, <2>3
  <2>5. debt[k] = 0 \/ debt[k] + tokens[k] * Window + age[k] * Limit(k) <= Burst(k) * Window
    BY DEF Ledger, Paid
  <2> DEFINE a == age[k] * Limit(k)
             b == Burst(k) * Window
             t == tokens[k] * Window
  <2>6. debt[k] \in Nat
    BY <1>1
  <2>7. /\ a \in Int /\ b \in Int /\ t \in Nat /\ a >= b
        /\ debt[k] = 0 \/ debt[k] + t + a <= b
    BY <2>3, <2>4, <2>5
  <2> HIDE DEF a, b, t
  <2> QED
    BY <2>6, <2>7
<1>3. BucketTypes'
  BY <1>1 DEF Ledger, BucketTypes, Burst, Limit
<1>4. ASSUME NEW j \in Keys PROVE (Paid(j) /\ Timer(j) /\ Recent(j))'
  <2>1. CASE j = k
    BY <1>2, <2>1 DEF Ledger, Paid, Timer, Recent
  <2>2. CASE j # k
    <3>1. /\ debt'[j] = debt[j] /\ tokens'[j] = tokens[j] /\ age'[j] = age[j]
          /\ left'[j] = left[j] /\ (j \in live' <=> j \in live)
      BY <2>2 DEF Ledger, BucketTypes
    <3> QED
      BY <3>1 DEF Ledger, Paid, Timer, Recent, Burst, Ttl, Limit
  <2> QED
    BY <2>1, <2>2
<1> QED
  BY <1>3, <1>4 DEF Ledger

\* Time pays back as fast as it refills.
LEMMA TickStep ==
    ASSUME Ledger, Tick
    PROVE  Ledger'
<1> USE DEF Tick
<1>1. BucketTypes'
  <2>1. /\ \A k \in Keys : Limit(k) \in Nat
        /\ live \subseteq Keys /\ age \in [Keys -> Int] /\ left \in [Keys -> Nat]
        /\ debt \in [Keys -> Nat] /\ Skew \in Nat
    BY KeyFacts, SkewAssumption DEF Ledger, BucketTypes
  <2>2. age' \in [Keys -> Int] /\ left' \in [Keys -> Nat] /\ debt' \in [Keys -> Nat]
    BY <2>1
  <2>3. \A k \in Keys : age'[k] >= -Skew
    BY <2>1 DEF Ledger, BucketTypes
  <2> QED
    BY <2>2, <2>3 DEF Ledger, BucketTypes, Burst, Limit
<1>2. ASSUME NEW k \in Keys PROVE (Paid(k) /\ Timer(k) /\ Recent(k))'
  <2> DEFINE l == Limit(k)
  <2>1. /\ l \in Nat /\ Burst(k) \in Nat /\ Ttl(k) \in Nat
        /\ Window \in Nat \ {0} /\ Skew \in Nat
        /\ debt[k] \in Nat /\ tokens[k] \in Nat /\ age[k] \in Int /\ left[k] \in Nat
    BY KeyFacts, WindowAssumption, SkewAssumption DEF Ledger, BucketTypes
  <2>2. /\ tokens'[k] = tokens[k] /\ (k \in live' <=> k \in live)
        /\ debt'[k] = IF debt[k] > l THEN debt[k] - l ELSE 0
        /\ k \in live => age'[k] = age[k] + 1 /\ left'[k] = left[k] - 1
    OBVIOUS
  <2>3. Paid(k) /\ Timer(k) /\ Recent(k)
    BY DEF Ledger
  <2> HIDE DEF l
  <2>4. CASE k \notin live
    BY <2>1, <2>2, <2>3, <2>4 DEF Paid, Timer, Recent
  <2>5. CASE k \in live
    <3>1. /\ age'[k] * l = age[k] * l + l
          /\ (age'[k] + Skew) * l = (age[k] + Skew) * l + l
          /\ age[k] * l \in Int /\ (age[k] + Skew) * l \in Int
          /\ tokens[k] * Window \in Int /\ Burst(k) * Window \in Int
      <4>1. age'[k] = age[k] + 1
        BY <2>2, <2>5
      <4>2. (age[k] + 1) * l = age[k] * l + l
        BY <2>1
      <4>3. (age[k] + 1 + Skew) * l = (age[k] + Skew) * l + l
        BY <2>1
      <4>4. /\ age[k] * l \in Int /\ (age[k] + Skew) * l \in Int
            /\ tokens[k] * Window \in Int /\ Burst(k) * Window \in Int
        BY <2>1
      <4> QED
        BY <4>1, <4>2, <4>3, <4>4
    <3>2. Paid(k)'
      <4>1. \/ debt'[k] = 0
            \/ debt'[k] + tokens[k] * Window + age'[k] * l <= Burst(k) * Window
        BY <2>1, <2>2, <2>3, <3>1 DEF Paid, l
      <4> QED
        BY <2>2, <2>5, <4>1 DEF Paid, Burst, Limit, l
    <3>3. Timer(k)'
      BY <2>1, <2>2, <2>3, <2>5 DEF Timer, Ttl, Burst, Limit
    <3>4. Recent(k)'
      <4>1. debt[k] + (age[k] + Skew) * l >= Window
        BY <2>3, <2>5 DEF Recent, l
      <4>2. debt'[k] + (age'[k] + Skew) * l >= Window
        BY <2>1, <2>2, <3>1, <4>1
      <4> QED
        BY <4>2 DEF Recent, Limit, l
    <3> QED
      BY <3>2, <3>3, <3>4
  <2> QED
    BY <2>4, <2>5
<1> QED
  BY <1>1, <1>2 DEF Ledger

\* Steps that leave the buckets alone.
LEMMA IdleStep ==
    ASSUME Ledger, UNCHANGED <<buckets, debt>>
    PROVE  Ledger'
BY DEF Ledger, BucketTypes, buckets, Paid, Timer, Recent, Burst, Ttl, Limit

-----------------------------------------------------------------------------
(* The invariant of the specification.                                     *)

\* What tier 0 keeps for the tiers above the last that took from it.
Room == tokens[Color(0)] >= lastTaker

Control ==
    /\ pc \in [Requests -> {"new", "admitted", "marked"}]
    /\ priority \in [Requests -> Nat]
    /\ lastTaker \in ColorTiers

Inv == Ledger /\ Control /\ Room

\* The tier of a priority is a tier.
LEMMA TierOfPriority ==
    ASSUME NEW p \in Nat
    PROVE  TierOf(p) \in ColorTiers
BY LimitsAssumption DEF TierOf, ColorTiers

\* A script that admits at keys other than tier 0 of the color limiter does
\* not touch what is kept there, and one that denies nothing.
LEMMA ElsewhereRoom ==
    ASSUME Inv, UNCHANGED lastTaker, NEW ks \in SUBSET Keys, Color(0) \notin ks,
           NEW c \in 0..Skew, Consume(ks, c) \/ Deny(ks, c)
    PROVE  Room'
BY KeysHave DEF Inv, Room, Consume, Deny, buckets, Color

\* Each step keeps the invariant.
LEMMA InvStep == Inv /\ [Next]_vars => Inv'
<1> SUFFICES ASSUME Inv, [Next]_vars PROVE Inv'
  OBVIOUS
<1>1. ASSUME NEW r \in Requests, NEW c \in 0..Skew, AskPlain(r, c) PROVE Inv'
  <2>1. Plain \in Keys /\ Color(0) \notin {Plain}
    BY KeysHave DEF Plain, Color
  <2>2. Control'
    BY <1>1 DEF AskPlain, GoesOn, Inv, Control
  <2>3. CASE Tokens(Plain, c) >= 1 /\ Consume({Plain}, c)
    <3>1. Ledger'
      BY <2>1, <2>3, ConsumeStep DEF Inv
    <3>2. Room'
      BY <1>1, <2>1, <2>3, ElsewhereRoom DEF AskPlain
    <3> QED
      BY <2>2, <3>1, <3>2 DEF Inv
  <2>4. CASE Deny({Plain}, c)
    <3>1. Ledger'
      BY <2>4, IdleStep DEF Deny, Inv
    <3>2. Room'
      BY <1>1, <2>1, <2>4, ElsewhereRoom DEF AskPlain
    <3> QED
      BY <2>2, <3>1, <3>2 DEF Inv
  <2> QED
    BY <1>1, <2>3, <2>4 DEF AskPlain
<1>2. ASSUME NEW r \in Requests, NEW c \in 0..Skew, AskMarker(r, c) PROVE Inv'
  <2>1. ASSUME NEW i \in MarkTiers, HasToken(i, c), Consume({Mark(i)}, c),
               priority' = [priority EXCEPT ![r] = MarkLast - i], GoesOn(r, "marked"),
               UNCHANGED lastTaker
        PROVE  Inv'
    <3>1. Mark(i) \in Keys /\ Color(0) \notin {Mark(i)}
      BY KeysHave DEF Mark, Color
    <3>2. Tokens(Mark(i), c) >= 1
      BY <2>1 DEF HasToken
    <3>3. Ledger'
      BY <2>1, <3>1, <3>2, ConsumeStep DEF Inv
    <3>4. Room'
      BY <2>1, <3>1, ElsewhereRoom
    <3>5. MarkLast - i \in Nat
      BY LimitsAssumption DEF MarkTiers
    <3>6. Control'
      BY <2>1, <3>5 DEF GoesOn, Inv, Control
    <3> QED
      BY <3>3, <3>4, <3>6 DEF Inv
  <2>2. CASE /\ Deny({}, c) /\ pc' = [pc EXCEPT ![r] = "new"]
             /\ UNCHANGED <<priority, lastTaker>>
    <3>1. Ledger'
      BY <2>2, IdleStep DEF Deny, Inv
    <3> QED
      BY <2>2, <3>1 DEF Deny, Inv, Control, Room, buckets, Color
  <2> QED
    BY <1>2, <2>1, <2>2 DEF AskMarker
<1>3. ASSUME NEW r \in Requests, NEW c \in 0..Skew, AskColor(r, c) PROVE Inv'
  <2> DEFINE i == TierOf(priority[r])
  <2>1. i \in ColorTiers
    BY TierOfPriority DEF Inv, Control
  <2>2. PaidBy(i) \in SUBSET Keys /\ i \in Nat
    BY <2>1, KeysHave DEF PaidBy, ColorTiers
  <2> HIDE DEF i
  <2>3. CASE /\ Tokens(Color(i), c) >= 1 /\ LeavesEnough(i, c)
             /\ Consume(PaidBy(i), c) /\ lastTaker' = i /\ GoesOn(r, "new")
    <3>1. Tokens(Color(0), c) > i /\ Tokens(Color(0), c) \in Int
      BY <2>3, KeysHave, TokensBound DEF LeavesEnough, Inv, Ledger
    <3>2. \A k \in PaidBy(i) : Tokens(k, c) >= 1
      BY <2>2, <2>3, <3>1 DEF PaidBy
    <3>3. Ledger'
      BY <2>2, <2>3, <3>2, ConsumeStep DEF Inv
    <3>4. tokens'[Color(0)] = Tokens(Color(0), c) - 1
      BY <2>3, KeysHave DEF Consume, PaidBy
    <3>5. Room'
      BY <2>2, <2>3, <3>1, <3>4 DEF Room, Color
    <3>6. Control'
      BY <1>3, <2>1, <2>3 DEF AskColor, GoesOn, Inv, Control, ColorTiers
    <3> QED
      BY <3>3, <3>5, <3>6 DEF Inv
  <2>4. CASE Deny(PaidBy(i), c) /\ pc' = [pc EXCEPT ![r] = "new"] /\ UNCHANGED lastTaker
    <3>1. Ledger'
      BY <2>4, IdleStep DEF Deny, Inv
    <3>2. Control'
      BY <1>3, <2>4 DEF AskColor, Inv, Control, ColorTiers
    <3> QED
      BY <2>4, <3>1, <3>2 DEF Deny, Inv, Room, buckets, Color
  <2> QED
    BY <1>3, <2>3, <2>4 DEF AskColor, i
<1>4. ASSUME NEW r \in Requests, ScriptFails(r) PROVE Inv'
  <2>1. Ledger'
    BY <1>4, IdleStep DEF ScriptFails, Inv
  <2> QED
    BY <1>4, <2>1 DEF ScriptFails, Inv, Control, Room, buckets, Color, ColorTiers
<1>5. ASSUME NEW k \in Keys, Expire(k) PROVE Inv'
  <2>1. Ledger'
    BY <1>5, ExpireStep DEF Inv
  <2>2. tokens'[Color(0)] >= tokens[Color(0)]
    BY <1>5, KeysHave, KeyFacts DEF Expire, Inv, Ledger, BucketTypes
  <2>3. /\ tokens[Color(0)] \in Nat /\ tokens'[Color(0)] \in Nat /\ lastTaker \in Nat
        /\ lastTaker' = lastTaker /\ tokens[Color(0)] >= lastTaker
    BY <1>5, <2>1, KeysHave DEF Expire, Inv, Control, Room, Ledger, BucketTypes, ColorTiers
  <2>4. Room'
    BY <2>2, <2>3 DEF Room, Color
  <2> QED
    BY <1>5, <2>1, <2>4 DEF Expire, Inv, Control, ColorTiers
<1>6. CASE Tick
  <2>1. Ledger'
    BY <1>6, TickStep DEF Inv
  <2> QED
    BY <1>6, <2>1 DEF Tick, Inv, Control, Room, Color, ColorTiers
<1>7. CASE UNCHANGED vars
  <2>1. Ledger'
    BY <1>7, IdleStep DEF vars, Inv
  <2> QED
    BY <1>7, <2>1 DEF vars, buckets, Inv, Control, Room, Color, ColorTiers
<1> QED
  BY <1>1, <1>2, <1>3, <1>4, <1>5, <1>6, <1>7 DEF Next, Ask

\* The invariant holds initially and so for ever.
LEMMA Invariance == Spec => []Inv
<1>1. Init => Inv
  <2> SUFFICES ASSUME Init PROVE Inv
    OBVIOUS
  <2>1. \A k \in Keys : Burst(k) \in Nat
    BY KeyFacts
  <2>2. Ledger
    BY <2>1, SkewAssumption DEF Init, Ledger, BucketTypes, Paid, Timer, Recent
  <2>3. Control
    BY LimitsAssumption DEF Init, Control, ColorTiers
  <2>4. Room
    BY <2>1, KeysHave DEF Init, Room
  <2> QED
    BY <2>2, <2>3, <2>4 DEF Inv
<1> QED
  BY <1>1, InvStep, PTL DEF Spec

-----------------------------------------------------------------------------
(* The theorems.                                                           *)

\* Type correctness.
THEOREM TypeCorrect == Spec => []TypeOK
<1>1. Inv => TypeOK
  BY DEF Inv, Ledger, BucketTypes, Control, TypeOK
<1> QED
  BY <1>1, Invariance, PTL

\* No bucket admits more in any span than its burst and its rate give.
THEOREM RateIsBounded == Spec => []RateBounded
<1>1. ASSUME Inv, NEW k \in Keys
      PROVE  debt[k] <= Burst(k) * Window + Skew * Limit(k)
  <2>1. /\ Limit(k) \in Nat /\ Burst(k) \in Nat /\ Window \in Nat /\ Skew \in Nat
        /\ debt[k] \in Nat /\ tokens[k] \in Nat /\ age[k] \in Int /\ age[k] >= -Skew
    BY <1>1, KeyFacts, WindowAssumption, SkewAssumption DEF Inv, Ledger, BucketTypes
  <2>2. age[k] * Limit(k) >= -(Skew * Limit(k))
    <3>1. age[k] * Limit(k) >= (-Skew) * Limit(k)
      BY <2>1
    <3> QED
      BY <2>1, <3>1
  <2>3. debt[k] = 0 \/ debt[k] + tokens[k] * Window + age[k] * Limit(k) <= Burst(k) * Window
    BY <1>1 DEF Inv, Ledger, Paid
  <2> DEFINE a == age[k] * Limit(k)
             b == Burst(k) * Window
             s == Skew * Limit(k)
             t == tokens[k] * Window
  <2>4. a \in Int /\ b \in Nat /\ s \in Nat /\ t \in Nat /\ debt[k] \in Nat
    BY <2>1
  <2>5. a >= -s /\ (debt[k] = 0 \/ debt[k] + t + a <= b)
    BY <2>2, <2>3
  <2> HIDE DEF a, b, s, t
  <2>6. debt[k] <= b + s
    BY <2>4, <2>5
  <2> QED
    BY <2>6 DEF b, s
<1>2. Inv => RateBounded
  BY <1>1 DEF RateBounded
<1> QED
  BY <1>2, Invariance, PTL

\* After a lower tier the higher ones still find their tokens.
THEOREM RoomForHigh == Spec => []LowLeavesRoom
<1>1. Inv => LowLeavesRoom
  <2> SUFFICES ASSUME Inv PROVE LowLeavesRoom
    OBVIOUS
  <2> DEFINE k == Color(0)
             q == ((age[k] + Skew) * Limit(k)) \div Window
  <2>1. /\ Limit(k) \in Nat /\ Burst(k) \in Nat /\ Skew \in Nat /\ lastTaker \in Nat
        /\ tokens[k] \in Nat /\ tokens[k] <= Burst(k) /\ tokens[k] >= lastTaker
        /\ age[k] + Skew \in Nat
    BY KeysHave, KeyFacts, SkewAssumption
       DEF Inv, Ledger, BucketTypes, Control, ColorTiers, Room
  <2>2. (age[k] + Skew) * Limit(k) \in Int /\ (age[k] + Skew) * Limit(k) >= 0 * Window
    BY <2>1, WindowAssumption
  <2>3. q \in Int /\ q >= 0
    BY <2>2, AtLeast, RoundDown, WindowAssumption
  <2>4. Tokens(k, Skew) = IF k \in live THEN Smaller(Burst(k), tokens[k] + q) ELSE Burst(k)
    BY DEF Tokens
  <2> HIDE DEF k, q
  <2>5. Tokens(k, Skew) >= lastTaker
    BY <2>1, <2>3, <2>4 DEF Smaller
  <2> QED
    BY <2>5 DEF LowLeavesRoom, k
<1> QED
  BY <1>1, Invariance, PTL

\* Denials do not put off the refill.
THEOREM RefillNotPutOff == Spec => []RepaidBucketGives
<1>1. ASSUME Inv, NEW k \in Keys, debt[k] = 0, Limit(k) > 0
      PROVE  Tokens(k, Skew) >= 1
  <2> DEFINE x == (age[k] + Skew) * Limit(k)
             q == x \div Window
  <2>1. /\ Limit(k) \in Nat /\ Burst(k) \in Nat \ {0} /\ Skew \in Nat
        /\ Window \in Nat \ {0} /\ tokens[k] \in Nat /\ age[k] \in Int
    BY <1>1, KeyFacts, SkewAssumption, WindowAssumption DEF Inv, Ledger, BucketTypes
  <2>2. Tokens(k, Skew) = IF k \in live THEN Smaller(Burst(k), tokens[k] + q) ELSE Burst(k)
    BY DEF Tokens
  <2>3. x \in Int
    BY <2>1
  <2>4. k \in live => 0 + x >= Window
    BY <1>1 DEF Inv, Ledger, Recent
  <2> HIDE DEF x
  <2>5. k \in live => q \in Int /\ q >= 1
    <3>1. k \in live => x >= 1 * Window
      BY <2>1, <2>3, <2>4
    <3> QED
      BY <2>1, <2>3, <3>1, AtLeast, RoundDown
  <2> HIDE DEF q
  <2> QED
    BY <2>1, <2>2, <2>5 DEF Smaller
<1>2. Inv => RepaidBucketGives
  BY <1>1 DEF RepaidBucketGives
<1> QED
  BY <1>2, Invariance, PTL

-----------------------------------------------------------------------------
(* The concurrency colors.  That the last slots of tier 0 stay free and    *)
(* that members count in both their tiers is inductive together with two   *)
(* facts: a request whose turn at the limiter is yet to come is a member   *)
(* of no tier, so that its priority may still change, and tier 0 has       *)
(* finitely many members, whatever the set of requests.                    *)

\* Where a request has not passed the limiter yet.
Limiting == {"new", "marked"}
\* Such a request is a member of no tier.
NotHeldYet ==
    \A r \in ColorRequests : place[r] \in Limiting => \A t \in Tiers : tier[t][r] = Absent

\* The rates of all bands and tiers are integers, that of tier 0 is the total.
LEMMA RatesTyped ==
  /\ Len(MarkerRates) \in Nat \ {0} /\ Len(PerPriority) \in Nat
  /\ \A b \in Bands : BandRate(b) \in Int
  /\ \A t \in Tiers : TierRate(t) \in Int
  /\ TierRate(0) = Total /\ Total \in Nat \ {0}
  /\ 0 \in Tiers /\ Tiers \subseteq Nat
  /\ \A b \in Bands : Priority(b) \in Bands
  /\ Absent \in Scores /\ 0 \in Scores
<1>1. /\ Len(MarkerRates) \in Nat \ {0} /\ Len(PerPriority) \in Nat
      /\ DOMAIN MarkerRates = 1 .. Len(MarkerRates)
      /\ \A i \in 1 .. Len(MarkerRates) : MarkerRates[i] \in Int
      /\ \A i \in 1 .. Len(PerPriority) : PerPriority[i] \in Int
      /\ DOMAIN PerPriority = 1 .. Len(PerPriority)
  BY RatesAssumption
<1>2. \A b \in Bands : BandRate(b) \in Int
  BY <1>1 DEF Bands, BandRate, NormalizedMarkerRates, Clamped
<1> DEFINE low == Clamped(PerPriority)
<1>3. low \in Seq(Int) /\ Len(low) = Len(PerPriority)
  BY <1>1, RatesAssumption DEF Clamped
<1>4. <<Total>> \in Seq(Int) /\ Len(<<Total>>) = 1 /\ <<Total>>[1] = Total
  BY RatesAssumption
<1>5. /\ Len(LimiterRates) = 1 + Len(PerPriority) /\ LimiterRates[1] = Total
      /\ \A i \in 1 .. Len(LimiterRates) : LimiterRates[i] \in Int
  <2>1. LimiterRates = <<Total>> \o low
    BY DEF LimiterRates
  <2> HIDE DEF low
  <2>2. /\ LimiterRates \in Seq(Int) /\ Len(LimiterRates) = 1 + Len(low)
        /\ LimiterRates[1] = <<Total>>[1]
    BY <1>3, <1>4, <2>1, ConcatProperties
  <2> QED BY <1>3, <1>4, <2>2
<1>6. \A t \in Tiers : TierRate(t) \in Int
  BY <1>1, <1>5 DEF Tiers, TierRate
<1>7. TierRate(0) = Total
  BY <1>5 DEF TierRate
<1>8. \A b \in Bands : Priority(b) \in Bands
  BY <1>1 DEF Bands, Priority
<1> QED BY <1>1, <1>2, <1>6, <1>7, <1>8, RatesAssumption, TimeAssumption DEF Tiers, Scores, Absent

\* What most proofs need of it.
LEMMA TiersTyped ==
  /\ \A t \in Tiers : t \in Int /\ t >= 0
  /\ 0 \in Tiers /\ TierRate(0) \in Int
BY RatesTyped

\* Every priority, or none, leads to a tier that exists.
LEMMA ColorTierTyped ==
  ASSUME ColorTypeOK, NEW r \in ColorRequests
  PROVE  ColorTier(r) \in Tiers
<1>1. prio[r] \in Int /\ (prio[r] = NoPriority \/ prio[r] >= 0)
  BY DEF ColorTypeOK, Bands, NoPriority
<1> QED BY <1>1, RatesTyped DEF ColorTier, Tiers, NoPriority

\* What the scripts do to a set of members
LEMMA SetTyped ==
  ASSUME ColorTypeOK, NEW key \in [ColorRequests -> Scores], NEW r \in ColorRequests
  PROVE  /\ Purged(key) \in [ColorRequests -> Scores]
         /\ Stored(key, r) \in [ColorRequests -> Scores]
         /\ Removed(key, r) \in [ColorRequests -> Scores]
         /\ ExpiredKey \in [ColorRequests -> Scores]
BY RatesTyped, TimeAssumption DEF ColorTypeOK, Purged, Stored, Removed, ExpiredKey, Scores

\* The limiter and the marker start without members.
LEMMA InitColorType == ColorInit => ColorTypeOK
BY RatesTyped, TimeAssumption DEF ColorInit, ColorTypeOK, Bands, NoPriority, Scores

\* A script, a release, an expiry or a second keeps every score a time.
LEMMA NextColorType ==
  ASSUME ColorTypeOK, [ColorNext]_colorVars
  PROVE  ColorTypeOK'
<1> USE DEF ColorTypeOK
<1>1. ASSUME NEW r \in ColorRequests, MarkerAllow(r)
      PROVE  ColorTypeOK'
  <2> DEFINE purged == [b \in Bands |-> Purged(band[b])]
  <2>1. purged \in [Bands -> [ColorRequests -> Scores]]
    BY SetTyped
  <2>2. CASE \E b \in Bands :
               /\ band' = [purged EXCEPT ![b] = Stored(@, r)]
               /\ place' = [place EXCEPT ![r] = "marked"]
               /\ prio' = [prio EXCEPT ![r] = Priority(b)]
    <3>1. PICK b \in Bands : /\ band' = [purged EXCEPT ![b] = Stored(@, r)]
                             /\ place' = [place EXCEPT ![r] = "marked"]
                             /\ prio' = [prio EXCEPT ![r] = Priority(b)]
      BY <2>2
    <3>2. Stored(purged[b], r) \in [ColorRequests -> Scores]
      BY <2>1, SetTyped
    <3>3. band' \in [Bands -> [ColorRequests -> Scores]]
      <4> HIDE DEF purged
      <4> QED BY <2>1, <3>1, <3>2
    <3>4. prio' \in [ColorRequests -> {NoPriority} \cup Bands]
      BY <3>1, RatesTyped
    <3> QED BY <1>1, <3>1, <3>3, <3>4 DEF MarkerAllow
  <2>3. CASE band' = purged /\ place' = [place EXCEPT ![r] = "over"] /\ UNCHANGED prio
    BY <1>1, <2>1, <2>3 DEF MarkerAllow
  <2> QED BY <1>1, <2>2, <2>3 DEF MarkerAllow, FreeBands
<1>2. ASSUME NEW r \in ColorRequests, AllowSingle(r)
      PROVE  ColorTypeOK'
  <2>1. /\ Purged(tier[0]) \in [ColorRequests -> Scores]
        /\ Stored(Purged(tier[0]), r) \in [ColorRequests -> Scores]
    BY SetTyped, RatesTyped
  <2> QED BY <1>2, <2>1 DEF AllowSingle, Decide
<1>3. ASSUME NEW r \in ColorRequests, AllowDual(r)
      PROVE  ColorTypeOK'
  <2>1. /\ Purged(tier[0]) \in [ColorRequests -> Scores]
        /\ Stored(Purged(tier[0]), r) \in [ColorRequests -> Scores]
    BY SetTyped, RatesTyped
  <2>2. /\ Purged(tier[ColorTier(r)]) \in [ColorRequests -> Scores]
        /\ Stored(Purged(tier[ColorTier(r)]), r) \in [ColorRequests -> Scores]
    BY SetTyped, ColorTierTyped
  <2>3. /\ place' \in [ColorRequests -> {"new", "marked", "serving", "unmarking", "over"}]
        /\ UNCHANGED <<clock, band, prio>>
    BY <1>3 DEF AllowDual, Decide
  <2>4. tier' \in [Tiers -> [ColorRequests -> Scores]]
    BY <1>3, <2>1, <2>2 DEF AllowDual, StoredInBoth
  <2> QED BY <2>3, <2>4
<1>4. ASSUME NEW r \in ColorRequests, RenewMarker(r)
      PROVE  ColorTypeOK'
  <2>1. PICK b \in Bands : band' = [band EXCEPT ![b] = Stored(@, r)]
    BY <1>4 DEF RenewMarker
  <2>2. Stored(band[b], r) \in [ColorRequests -> Scores]
    BY SetTyped
  <2>3. band' \in [Bands -> [ColorRequests -> Scores]]
    BY <2>1, <2>2
  <2> QED BY <1>4, <2>3 DEF RenewMarker
<1>5. ASSUME NEW r \in ColorRequests, RenewLimiterSingle(r) \/ RenewLimiterDual(r)
      PROVE  ColorTypeOK'
  <2>1. \A t \in Tiers : Stored(tier[t], r) \in [ColorRequests -> Scores]
    BY SetTyped
  <2>2. 0 \in Tiers /\ ColorTier(r) \in Tiers
    BY RatesTyped, ColorTierTyped
  <2>3. \/ tier' = [tier EXCEPT ![0] = Stored(@, r)]
        \/ /\ tier' = [tier EXCEPT ![ColorTier(r)] = Stored(@, r), ![0] = Stored(@, r)]
           /\ ColorTier(r) # 0
    BY <1>5, <2>2, RatesTyped DEF RenewLimiterSingle, RenewLimiterDual
  <2>4. tier' \in [Tiers -> [ColorRequests -> Scores]]
    BY <2>1, <2>2, <2>3
  <2> QED BY <1>5, <2>4 DEF RenewLimiterSingle, RenewLimiterDual
<1>6. ASSUME NEW r \in ColorRequests, LimiterDone(r) \/ MarkerDone(r)
      PROVE  ColorTypeOK'
  <2>1. /\ \A t \in Tiers : Removed(tier[t], r) \in [ColorRequests -> Scores]
        /\ \A b \in Bands : Removed(band[b], r) \in [ColorRequests -> Scores]
    BY SetTyped
  <2>2. tier' \in [Tiers -> [ColorRequests -> Scores]] /\ band' \in [Bands -> [ColorRequests -> Scores]]
    <3>1. CASE LimiterDone(r)
      BY <2>1, <3>1, Zenon DEF LimiterDone
    <3>2. CASE MarkerDone(r)
      BY <2>1, <3>2, Zenon DEF MarkerDone
    <3> QED BY <1>6, <3>1, <3>2
  <2>3. place' \in [ColorRequests -> {"new", "marked", "serving", "unmarking", "over"}]
    BY <1>6 DEF LimiterDone, MarkerDone
  <2> QED BY <1>6, <2>2, <2>3 DEF LimiterDone, MarkerDone
<1>7. ASSUME NEW r \in ColorRequests, MarkerErrs(r) \/ LimiterErrs(r) \/ Unmarked(r) \/ Crash(r)
      PROVE  ColorTypeOK'
  BY <1>7 DEF MarkerErrs, LimiterErrs, Decide, Unmarked, Crash
<1>8. CASE KeyExpires
  <2>1. ExpiredKey \in [ColorRequests -> Scores]
    BY RatesTyped DEF ExpiredKey
  <2>2. band' \in [Bands -> [ColorRequests -> Scores]]
    BY <1>8, <2>1 DEF KeyExpires
  <2>3. tier' \in [Tiers -> [ColorRequests -> Scores]]
    BY <1>8, <2>1 DEF KeyExpires
  <2> QED BY <1>8, <2>2, <2>3 DEF KeyExpires
<1>9. CASE ColorTick
  BY <1>9, TimeAssumption DEF ColorTick
<1>10. CASE UNCHANGED colorVars
  BY <1>10 DEF colorVars
<1> QED BY <1>1, <1>2, <1>3, <1>4, <1>5, <1>6, <1>7, <1>8, <1>9, <1>10 DEF ColorNext, Finished

\* Only the limiter makes a request a member, and it is past it from then on.
LEMMA NextNotHeldYet ==
  ASSUME ColorTypeOK, NotHeldYet, [ColorNext]_colorVars
  PROVE  NotHeldYet'
<1> USE DEF NotHeldYet, Limiting
<1>1. ASSUME NEW r \in ColorRequests,
             MarkerAllow(r) \/ MarkerErrs(r) \/ LimiterErrs(r) \/ Unmarked(r) \/ RenewMarker(r) \/ MarkerDone(r) \/ Crash(r)
      PROVE  NotHeldYet'
  <2>1. UNCHANGED tier
    BY <1>1 DEF MarkerAllow, MarkerErrs, LimiterErrs, Decide, Unmarked, RenewMarker, MarkerDone, Crash
  <2>2. \A q \in ColorRequests : place'[q] \in Limiting => place[q] \in Limiting
    BY <1>1 DEF MarkerAllow, MarkerErrs, LimiterErrs, Decide, Unmarked, RenewMarker, MarkerDone, Crash, Limiting, ColorTypeOK
  <2> QED BY <2>1, <2>2 DEF Limiting
<1>2. ASSUME NEW r \in ColorRequests, AllowSingle(r)
      PROVE  NotHeldYet'
  <2>1. \A q \in ColorRequests : place'[q] \in Limiting => q # r /\ place[q] \in Limiting
    BY <1>2 DEF AllowSingle, Decide, Limiting, ColorTypeOK
  <2>2. \A q \in ColorRequests : tier[0][q] = Absent => Purged(tier[0])[q] = Absent
    BY DEF Purged
  <2>3. tier' = [tier EXCEPT ![0] = Purged(tier[0])] \/ tier' = [tier EXCEPT ![0] = Stored(Purged(tier[0]), r)]
    BY <1>2 DEF AllowSingle
  <2>4. \A q \in ColorRequests : q # r => Stored(Purged(tier[0]), r)[q] = Purged(tier[0])[q]
    BY DEF Stored, Purged
  <2> QED BY <2>1, <2>2, <2>3, <2>4, RatesTyped DEF ColorTypeOK, Limiting
<1>3. ASSUME NEW r \in ColorRequests, AllowDual(r)
      PROVE  NotHeldYet'
  <2>1. \A q \in ColorRequests : place'[q] \in Limiting => q # r /\ place[q] \in Limiting
    BY <1>3 DEF AllowDual, Decide, Limiting, ColorTypeOK
  <2>2. \A t \in Tiers, q \in ColorRequests : tier[t][q] = Absent => Purged(tier[t])[q] = Absent
    BY DEF Purged
  <2>3. \/ tier' = [tier EXCEPT ![ColorTier(r)] = Purged(tier[ColorTier(r)]), ![0] = Purged(tier[0])]
        \/ tier' = [tier EXCEPT ![ColorTier(r)] = Stored(Purged(tier[ColorTier(r)]), r), ![0] = Stored(Purged(tier[0]), r)]
    BY <1>3 DEF AllowDual, StoredInBoth
  <2>4. \A t \in Tiers, q \in ColorRequests : q # r => Stored(Purged(tier[t]), r)[q] = Purged(tier[t])[q]
    BY DEF Stored, Purged
  <2>5. \A t \in Tiers, q \in ColorRequests :
           q # r => tier'[t][q] = tier[t][q] \/ tier'[t][q] = Purged(tier[t])[q]
    <3>1. /\ ColorTier(r) \in Tiers /\ 0 \in Tiers /\ DOMAIN tier = Tiers
      BY RatesTyped, ColorTierTyped DEF ColorTypeOK
    <3>2. \A t \in Tiers : tier'[t] \in {tier[t], Purged(tier[t]), Stored(Purged(tier[t]), r)}
      BY <2>3, <3>1
    <3> QED BY <2>4, <3>2
  <2> QED BY <2>1, <2>2, <2>5 DEF Limiting
<1>4. ASSUME NEW r \in ColorRequests, RenewLimiterSingle(r) \/ RenewLimiterDual(r) \/ LimiterDone(r)
      PROVE  NotHeldYet'
  <2>1. \A q \in ColorRequests : place'[q] \in Limiting => q # r /\ place[q] \in Limiting
    BY <1>4 DEF RenewLimiterSingle, RenewLimiterDual, LimiterDone, Limiting, ColorTypeOK
  <2>2. \A t \in Tiers, q \in ColorRequests : q # r => tier'[t][q] = tier[t][q]
    BY <1>4, RatesTyped, ColorTierTyped
       DEF RenewLimiterSingle, RenewLimiterDual, LimiterDone, Stored, Removed, ColorTypeOK
  <2> QED BY <2>1, <2>2 DEF Limiting
<1>5. CASE KeyExpires
  <2>1. \A t \in Tiers, q \in ColorRequests : tier'[t][q] = tier[t][q] \/ tier'[t][q] = Absent
    BY <1>5 DEF KeyExpires, ExpiredKey, ColorTypeOK
  <2> QED BY <1>5, <2>1 DEF KeyExpires
<1>6. CASE ColorTick \/ UNCHANGED colorVars
  BY <1>6 DEF ColorTick, colorVars
<1> QED BY <1>1, <1>2, <1>3, <1>4, <1>5, <1>6 DEF ColorNext, Finished

\* A member that counts after a purge is one that counted before,
LEMMA FreshKept ==
  ASSUME ColorTypeOK, NEW key \in [ColorRequests -> Scores], NEW r \in ColorRequests, Fresh(Purged(key), r)
  PROVE  Fresh(key, r) /\ Purged(key)[r] = key[r]
BY DEF Fresh, Purged

\* and a member that counts is not purged.
LEMMA FreshNotPurged ==
  ASSUME ColorTypeOK, NEW key \in [ColorRequests -> Scores], NEW r \in ColorRequests, Fresh(key, r)
  PROVE  Purged(key)[r] = key[r]
<1>1. key[r] \in Int /\ clock - Timeout \in Int
  BY TimeAssumption DEF ColorTypeOK, Scores, Absent
<1> QED BY <1>1 DEF Fresh, Purged

\* The dual script stores, renews and removes a member under both its keys.
LEMMA NextCountedInBoth ==
  ASSUME ColorTypeOK, NotHeldYet, CountedInBoth, [ColorNext]_colorVars
  PROVE  CountedInBoth'
<1> SUFFICES ASSUME NEW q \in ColorRequests, Fresh(tier[0], q)'
             PROVE  (tier[ColorTier(q)][q] = tier[0][q])'
  BY DEF CountedInBoth
<1>0. /\ ColorTier(q) \in Tiers /\ 0 \in Tiers /\ clock \in Int
      /\ \A t \in Tiers : tier[t] \in [ColorRequests -> Scores] /\ tier[t][q] \in Int
      /\ Fresh(tier[0], q) => tier[ColorTier(q)][q] = tier[0][q]
      /\ tier \in [Tiers -> [ColorRequests -> Scores]]
  BY RatesTyped, ColorTierTyped, TimeAssumption DEF ColorTypeOK, CountedInBoth, Scores, Absent
<1> DEFINE Same == tier'[0][q] = tier[0][q] /\ tier'[ColorTier(q)][q] = tier[ColorTier(q)][q]
           SameTier == ColorTier(q)' = ColorTier(q)
<1>1. ASSUME SameTier, Same, clock' >= clock, clock' \in Int
      PROVE  (tier[ColorTier(q)][q] = tier[0][q])'
  <2>1. Fresh(tier[0], q)
    BY <1>0, <1>1, TimeAssumption DEF Fresh
  <2> QED BY <1>0, <1>1, <2>1
<1>2. ASSUME UNCHANGED prio
      PROVE  SameTier
  BY <1>2 DEF ColorTier
<1>3. ASSUME NEW r \in ColorRequests, MarkerAllow(r)
      PROVE  (tier[ColorTier(q)][q] = tier[0][q])'
  <2>1. UNCHANGED <<tier, clock>>
    BY <1>3 DEF MarkerAllow
  <2>2. tier'[0][q] # Absent
    BY DEF Fresh
  <2>3. q # r
    BY <1>0, <1>3, <2>1, <2>2 DEF MarkerAllow, NotHeldYet, Limiting
  <2>4. prio'[q] = prio[q]
    BY <1>3, <2>3 DEF MarkerAllow, ColorTypeOK
  <2> QED BY <1>0, <1>1, <2>1, <2>4 DEF ColorTier
<1>4. ASSUME NEW r \in ColorRequests, AllowSingle(r)
      PROVE  (tier[ColorTier(q)][q] = tier[0][q])'
  <2>1. /\ UNCHANGED <<prio, clock>>
        /\ tier' \in {[tier EXCEPT ![0] = Purged(tier[0])], [tier EXCEPT ![0] = Stored(Purged(tier[0]), r)]}
        /\ ColorTier(r) = 0
    BY <1>4 DEF AllowSingle, Decide
  <2>2. CASE ColorTier(q) = 0
    BY <1>2, <2>1, <2>2
  <2>3. CASE ColorTier(q) # 0
    <3>1. tier'[ColorTier(q)] = tier[ColorTier(q)]
      BY <1>0, <2>1, <2>3
    <3>2. tier'[0][q] = Purged(tier[0])[q]
      BY <1>0, <2>1, <2>3 DEF Stored, Purged
    <3>3. Fresh(Purged(tier[0]), q)
      BY <2>1, <3>2 DEF Fresh
    <3>4. tier[0][q] = Purged(tier[0])[q] /\ Fresh(tier[0], q)
      BY <1>0, <3>3, FreshKept
    <3> QED BY <1>0, <1>2, <2>1, <3>1, <3>2, <3>4
  <2> QED BY <2>2, <2>3
<1>5. ASSUME NEW r \in ColorRequests, AllowDual(r)
      PROVE  (tier[ColorTier(q)][q] = tier[0][q])'
  <2> DEFINE t == ColorTier(r)
  <2>1. /\ UNCHANGED <<prio, clock>> /\ t # 0 /\ t \in Tiers
        /\ \/ tier' = [tier EXCEPT ![t] = Purged(tier[t]), ![0] = Purged(tier[0])]
           \/ tier' = [tier EXCEPT ![t] = Stored(Purged(tier[t]), r), ![0] = Stored(Purged(tier[0]), r)]
    BY <1>5, RatesTyped, ColorTierTyped DEF AllowDual, Decide, StoredInBoth
  <2> HIDE DEF t
  <2>2. /\ \A u \in Tiers \ {0, t} : tier'[u] = tier[u]
        /\ \/ tier'[0] = Purged(tier[0]) /\ tier'[t] = Purged(tier[t])
           \/ tier'[0] = Stored(Purged(tier[0]), r) /\ tier'[t] = Stored(Purged(tier[t]), r)
    BY <1>0, <2>1
  <2>3. CASE q = r /\ tier'[0][q] # Purged(tier[0])[q]
    <3>1. tier'[0] = Stored(Purged(tier[0]), r) /\ tier'[t] = Stored(Purged(tier[t]), r)
      BY <2>2, <2>3
    <3>2. tier'[0][q] = clock /\ tier'[t][q] = clock
      BY <2>3, <3>1 DEF Stored, Purged
    <3> QED BY <1>2, <2>1, <2>3, <3>2 DEF t
  <2>4. CASE q = r /\ tier'[0][q] = Purged(tier[0])[q]
    <3>1. Purged(tier[0])[q] = Absent
      BY <1>0, <1>5, <2>4, RatesTyped DEF AllowDual, NotHeldYet, Limiting, Purged
    <3> QED BY <2>4, <3>1 DEF Fresh
  <2>5. CASE q # r
    <3>1. /\ tier'[0][q] = Purged(tier[0])[q]
          /\ tier'[t][q] = Purged(tier[t])[q]
      BY <2>2, <2>5 DEF Stored, Purged
    <3>2. Fresh(Purged(tier[0]), q)
      BY <2>1, <3>1 DEF Fresh
    <3>3. /\ Fresh(tier[0], q) /\ tier'[0][q] = tier[0][q]
          /\ tier[ColorTier(q)][q] = tier[0][q]
      BY <1>0, <3>1, <3>2, FreshKept
    <3>4. CASE ColorTier(q) \in {0, t}
      <4>1. Fresh(tier[ColorTier(q)], q)
        BY <3>3 DEF Fresh
      <4>2. Purged(tier[ColorTier(q)])[q] = tier[ColorTier(q)][q]
        BY <1>0, <4>1, FreshNotPurged
      <4> QED BY <1>2, <2>1, <3>1, <3>3, <3>4, <4>2
    <3>5. CASE ColorTier(q) \notin {0, t}
      BY <1>0, <1>2, <2>1, <2>2, <3>3, <3>5
    <3> QED BY <3>4, <3>5
  <2> QED BY <2>3, <2>4, <2>5
<1>6. ASSUME NEW r \in ColorRequests, RenewLimiterSingle(r) \/ RenewLimiterDual(r) \/ LimiterDone(r)
      PROVE  (tier[ColorTier(q)][q] = tier[0][q])'
  <2>1. UNCHANGED <<prio, clock>>
    BY <1>6 DEF RenewLimiterSingle, RenewLimiterDual, LimiterDone
  <2>2. CASE q # r
    <3>1. Same
      BY <1>0, <1>6, <2>2 DEF RenewLimiterSingle, RenewLimiterDual, LimiterDone, Stored, Removed
    <3> QED BY <1>0, <1>1, <1>2, <2>1, <3>1
  <2>3. CASE q = r
    <3>1. CASE RenewLimiterSingle(r)
      BY <1>0, <1>2, <2>1, <2>3, <3>1 DEF RenewLimiterSingle
    <3>2. CASE RenewLimiterDual(r)
      BY <1>0, <1>2, <2>1, <2>3, <3>2 DEF RenewLimiterDual, Stored
    <3>3. CASE LimiterDone(r)
      <4>1. UNCHANGED tier \/ (tier'[0][q] = Absent /\ tier'[ColorTier(q)][q] = Absent)
        BY <1>0, <2>3, <3>3 DEF LimiterDone, Removed
      <4> QED BY <1>0, <1>1, <1>2, <2>1, <4>1
    <3> QED BY <1>6, <3>1, <3>2, <3>3
  <2> QED BY <2>2, <2>3
<1>7. CASE KeyExpires
  <2>1. UNCHANGED <<prio, clock>>
    BY <1>7 DEF KeyExpires
  <2>2. CASE UNCHANGED tier
    BY <1>0, <1>1, <1>2, <2>1, <2>2
  <2>3. CASE \E t \in Tiers : Expirable(tier[t]) /\ tier' = [tier EXCEPT ![t] = ExpiredKey]
    <3>1. PICK t \in Tiers : Expirable(tier[t]) /\ tier' = [tier EXCEPT ![t] = ExpiredKey]
      BY <2>3
    <3>2. tier'[0][q] # Absent
      BY DEF Fresh
    <3>3. t # 0
      BY <1>0, <3>1, <3>2 DEF ExpiredKey
    <3>4. tier'[0] = tier[0] /\ Fresh(tier[0], q) /\ tier[ColorTier(q)][q] = tier[0][q]
      BY <1>0, <2>1, <3>1, <3>3 DEF Fresh
    <3>5. t # ColorTier(q)
      <4>1. tier[t][q] <= clock - KeyTTL
        BY <3>1 DEF Expirable
      <4>2. tier[0][q] > clock - Timeout
        BY <3>4 DEF Fresh
      <4> QED BY <1>0, <3>4, <4>1, <4>2, TimeAssumption
    <3>6. tier'[ColorTier(q)] = tier[ColorTier(q)]
      BY <1>0, <3>1, <3>5
    <3> QED BY <1>2, <2>1, <3>4, <3>6
  <2> QED BY <1>7, <2>2, <2>3 DEF KeyExpires
<1>8. ASSUME NEW r \in ColorRequests,
             MarkerErrs(r) \/ LimiterErrs(r) \/ Unmarked(r) \/ RenewMarker(r) \/ MarkerDone(r) \/ Crash(r)
      PROVE  (tier[ColorTier(q)][q] = tier[0][q])'
  BY <1>0, <1>1, <1>2, <1>8 DEF MarkerErrs, LimiterErrs, Decide, Unmarked, RenewMarker, MarkerDone, Crash
<1>9. CASE ColorTick \/ UNCHANGED colorVars
  BY <1>0, <1>1, <1>2, <1>9 DEF ColorTick, colorVars
<1> QED BY <1>3, <1>4, <1>5, <1>6, <1>7, <1>8, <1>9 DEF ColorNext, Finished

\* Tier 0 has finitely many members.
FiniteMembers == IsFiniteSet(MembersOf(tier[0]))

\* The holders of a tier shrink, or stay within those there were.
LEMMA FewerHolders ==
  ASSUME FiniteMembers, SlotsReserved, NEW t \in Tiers \ {0},
         LowerHolders(t)' \subseteq LowerHolders(t)
  PROVE  LowerHolders(t)' # {} => Cardinality(LowerHolders(t)') <= TierRate(0) - t
<1>1. IsFiniteSet(LowerHolders(t))
  <2>1. LowerHolders(t) \subseteq MembersOf(tier[0])
    BY DEF LowerHolders
  <2> QED BY <2>1, FS_Subset DEF FiniteMembers
<1>2. /\ Cardinality(LowerHolders(t)') <= Cardinality(LowerHolders(t))
      /\ Cardinality(LowerHolders(t)') \in Nat /\ Cardinality(LowerHolders(t)) \in Nat
  <2>1. IsFiniteSet(LowerHolders(t)') /\ Cardinality(LowerHolders(t)') <= Cardinality(LowerHolders(t))
    BY <1>1, FS_Subset
  <2> QED BY <1>1, <2>1, FS_CardinalityType
<1>3. t \in Int /\ TierRate(0) \in Int
  BY RatesTyped
<1>4. LowerHolders(t)' # {} => Cardinality(LowerHolders(t)) <= TierRate(0) - t
  BY DEF SlotsReserved
<1> QED BY <1>2, <1>3, <1>4

\* A step that only removes members of tier 0 reserves what was reserved.
LEMMA NoNewHolder ==
  ASSUME FiniteMembers, SlotsReserved,
         \A q \in ColorRequests : tier'[0][q] # Absent => tier[0][q] # Absent /\ ColorTier(q)' = ColorTier(q)
  PROVE  FiniteMembers' /\ SlotsReserved'
<1>1. MembersOf(tier[0])' \subseteq MembersOf(tier[0])
  BY DEF MembersOf
<1>2. FiniteMembers'
  BY <1>1, FS_Subset DEF FiniteMembers
<1>3. \A t \in Tiers \ {0} : LowerHolders(t)' \subseteq LowerHolders(t)
  BY DEF LowerHolders, MembersOf
<1>4. SlotsReserved'
  <2>1. TierRate(0)' = TierRate(0)
    BY DEF TierRate, LimiterRates
  <2> QED BY <1>3, <2>1, FewerHolders DEF SlotsReserved
<1> QED BY <1>2, <1>4

\* The limiter counts the members a purge leaves, and one more fits.
LEMMA NewHolder ==
  ASSUME ColorTypeOK, FiniteMembers, SlotsReserved, NEW r \in ColorRequests, UNCHANGED prio,
         tier'[0] = Stored(Purged(tier[0]), r),
         ColorTier(r) # 0 => Count(Purged(tier[0])) < TierRate(0) - ColorTier(r)
  PROVE  FiniteMembers' /\ SlotsReserved'
<1> DEFINE Left == MembersOf(Purged(tier[0]))
           Held == MembersOf(tier[0])'
<1>1. Left \subseteq MembersOf(tier[0]) /\ Held \subseteq Left \cup {r}
  BY DEF MembersOf, Purged, Stored
<1>2. IsFiniteSet(Left)
  BY <1>1, FS_Subset DEF FiniteMembers
<1>3. /\ IsFiniteSet(Left \cup {r})
      /\ Cardinality(Left \cup {r}) <= Cardinality(Left) + 1
      /\ Cardinality(Left) \in Nat
  <2> HIDE DEF Left
  <2>1. /\ IsFiniteSet(Left \cup {r})
        /\ Cardinality(Left \cup {r}) = IF r \in Left THEN Cardinality(Left) ELSE Cardinality(Left) + 1
    BY ONLY <1>2, FS_AddElement, Zenon
  <2>2. Cardinality(Left) \in Nat
    BY <1>2, FS_CardinalityType
  <2> QED BY <2>1, <2>2
<1>4. IsFiniteSet(Held)
  BY <1>1, <1>3, FS_Subset
<1>5. \A q \in ColorRequests : ColorTier(q)' = ColorTier(q)
  BY DEF ColorTier
<1>6. ASSUME NEW t \in Tiers \ {0}
      PROVE  LowerHolders(t)' # {} => Cardinality(LowerHolders(t)') <= TierRate(0) - t
  <2>0. ColorTier(r) \in Tiers
    BY ColorTierTyped
  <2>1. t \in Int /\ TierRate(0) \in Int /\ ColorTier(r) \in Nat
    BY ONLY <2>0, t \in Tiers \ {0}, TiersTyped
  <2>2. CASE ColorTier(r) >= t
    <3>1. LowerHolders(t)' \subseteq Left \cup {r}
      BY <1>1 DEF LowerHolders
    <3>2. /\ Cardinality(LowerHolders(t)') <= Cardinality(Left \cup {r})
          /\ Cardinality(LowerHolders(t)') \in Nat
          /\ Cardinality(Left \cup {r}) \in Nat
      <4>1. IsFiniteSet(LowerHolders(t)') /\ Cardinality(LowerHolders(t)') <= Cardinality(Left \cup {r})
        BY <1>3, <3>1, FS_Subset
      <4> QED BY <1>3, <4>1, FS_CardinalityType
    <3>3. ColorTier(r) # 0
      BY <2>1, <2>2, RatesTyped
    <3>4. Cardinality(Left) < TierRate(0) - ColorTier(r)
      BY <3>3 DEF Count
    <3> HIDE DEF Left
    <3> QED BY <1>3, <2>1, <2>2, <3>2, <3>4
  <2>3. CASE ColorTier(r) < t
    <3>1. LowerHolders(t)' \subseteq LowerHolders(t)
      <4>1. SUFFICES ASSUME NEW q \in ColorRequests, q \in MembersOf(tier[0])', ColorTier(q) >= t
                     PROVE  q \in MembersOf(tier[0])
        BY <1>5 DEF LowerHolders, MembersOf
      <4>2. q # r
        BY <2>1, <2>3, <4>1
      <4> QED BY <1>1, <4>1, <4>2
    <3> QED BY <3>1, FewerHolders
  <2> QED BY <2>1, <2>2, <2>3
<1>7. SlotsReserved'
  <2>1. TierRate(0)' = TierRate(0)
    BY DEF TierRate, LimiterRates
  <2> QED BY <1>6, <2>1 DEF SlotsReserved
<1> QED BY <1>4, <1>7 DEF FiniteMembers

\* A member is added to tier 0 only by the scripts that count before.
LEMMA NextSlotsReserved ==
  ASSUME ColorTypeOK, NotHeldYet, FiniteMembers, SlotsReserved, [ColorNext]_colorVars
  PROVE  FiniteMembers' /\ SlotsReserved'
<1>0. /\ 0 \in Tiers /\ tier \in [Tiers -> [ColorRequests -> Scores]]
      /\ \A q \in ColorRequests : ColorTier(q) \in Tiers
  BY RatesTyped, ColorTierTyped DEF ColorTypeOK
<1>1. ASSUME NEW r \in ColorRequests, MarkerAllow(r)
      PROVE  FiniteMembers' /\ SlotsReserved'
  <2>1. UNCHANGED tier /\ tier[0][r] = Absent
    BY <1>0, <1>1 DEF MarkerAllow, NotHeldYet, Limiting
  <2>2. \A q \in ColorRequests \ {r} : ColorTier(q)' = ColorTier(q)
    BY <1>1 DEF MarkerAllow, ColorTier, ColorTypeOK
  <2> QED BY <2>1, <2>2, NoNewHolder
<1>2. ASSUME NEW r \in ColorRequests, AllowSingle(r)
      PROVE  FiniteMembers' /\ SlotsReserved'
  <2>1. UNCHANGED prio /\ ColorTier(r) = 0
    BY <1>2 DEF AllowSingle, Decide
  <2>2. CASE tier' = [tier EXCEPT ![0] = Stored(Purged(tier[0]), r)]
    BY <1>0, <2>1, <2>2, NewHolder
  <2>3. CASE tier' = [tier EXCEPT ![0] = Purged(tier[0])]
    <3>1. \A q \in ColorRequests : tier'[0][q] # Absent => tier[0][q] # Absent
      BY <1>0, <2>3 DEF Purged
    <3> QED BY <2>1, <3>1, NoNewHolder DEF ColorTier
  <2> QED BY <1>2, <2>2, <2>3 DEF AllowSingle
<1>3. ASSUME NEW r \in ColorRequests, AllowDual(r)
      PROVE  FiniteMembers' /\ SlotsReserved'
  <2>1. UNCHANGED prio /\ ColorTier(r) # 0
    BY <1>0, <1>3 DEF AllowDual, Decide, Tiers
  <2>2. CASE /\ DualHasRoom(ColorTier(r), Purged(tier[ColorTier(r)]), Purged(tier[0]))
             /\ tier' = StoredInBoth(r, ColorTier(r), Purged(tier[ColorTier(r)]), Purged(tier[0]))
    <3>1. tier'[0] = Stored(Purged(tier[0]), r)
      BY <1>0, <2>2 DEF StoredInBoth
    <3>2. Count(Purged(tier[0])) < TierRate(0) - ColorTier(r)
      BY <2>2 DEF DualHasRoom
    <3> QED BY <2>1, <3>1, <3>2, NewHolder
  <2>3. CASE tier' = [tier EXCEPT ![ColorTier(r)] = Purged(tier[ColorTier(r)]), ![0] = Purged(tier[0])]
    <3>1. tier'[0] = Purged(tier[0])
      BY <1>0, <2>3
    <3>2. \A q \in ColorRequests : tier'[0][q] # Absent => tier[0][q] # Absent
      BY <3>1 DEF Purged
    <3> QED BY <2>1, <3>2, NoNewHolder DEF ColorTier
  <2> QED BY <1>3, <2>2, <2>3 DEF AllowDual
<1>4. ASSUME NEW r \in ColorRequests, RenewLimiterSingle(r) \/ RenewLimiterDual(r) \/ LimiterDone(r)
      PROVE  FiniteMembers' /\ SlotsReserved'
  <2>1. UNCHANGED prio
    BY <1>4 DEF RenewLimiterSingle, RenewLimiterDual, LimiterDone
  <2>2. \A q \in ColorRequests : tier'[0][q] # Absent => tier[0][q] # Absent
    BY <1>0, <1>4 DEF RenewLimiterSingle, RenewLimiterDual, LimiterDone, Stored, Removed
  <2> QED BY <2>1, <2>2, NoNewHolder DEF ColorTier
<1>5. CASE KeyExpires
  <2>1. \A q \in ColorRequests : tier'[0][q] # Absent => tier[0][q] # Absent
    BY <1>0, <1>5 DEF KeyExpires, ExpiredKey
  <2> QED BY <1>5, <2>1, NoNewHolder DEF KeyExpires, ColorTier
<1>6. ASSUME UNCHANGED <<tier, prio>>
      PROVE  FiniteMembers' /\ SlotsReserved'
  BY <1>6, NoNewHolder DEF ColorTier
<1>7. ASSUME NEW r \in ColorRequests,
             MarkerErrs(r) \/ LimiterErrs(r) \/ Unmarked(r) \/ RenewMarker(r) \/ MarkerDone(r) \/ Crash(r)
      PROVE  UNCHANGED <<tier, prio>>
  BY <1>7 DEF MarkerErrs, LimiterErrs, Decide, Unmarked, RenewMarker, MarkerDone, Crash
<1>8. ColorTick \/ UNCHANGED colorVars => UNCHANGED <<tier, prio>>
  BY DEF ColorTick, colorVars
<1> QED BY <1>1, <1>2, <1>3, <1>4, <1>5, <1>6, <1>7, <1>8 DEF ColorNext, Finished

\* The inductive invariant.
SlotsInv == ColorTypeOK /\ NotHeldYet /\ FiniteMembers /\ CountedInBoth /\ SlotsReserved

\* It holds when both engines start,
LEMMA InitSlotsInv == ColorInit => SlotsInv
<1> SUFFICES ASSUME ColorInit PROVE SlotsInv
  OBVIOUS
<1>1. ColorTypeOK
  BY InitColorType
<1>2. \A t \in Tiers, r \in ColorRequests : tier[t][r] = Absent
  BY DEF ColorInit
<1>3. MembersOf(tier[0]) = {} /\ FiniteMembers
  BY <1>2, RatesTyped, FS_EmptySet DEF MembersOf, FiniteMembers
<1>4. SlotsReserved
  BY <1>3 DEF SlotsReserved, LowerHolders
<1>5. NotHeldYet /\ CountedInBoth
  BY <1>2, RatesTyped DEF NotHeldYet, Limiting, CountedInBoth, Fresh
<1> QED BY <1>1, <1>3, <1>4, <1>5 DEF SlotsInv

\* and every step keeps it.
LEMMA NextSlotsInv == SlotsInv /\ [ColorNext]_colorVars => SlotsInv'
BY NextColorType, NextNotHeldYet, NextCountedInBoth, NextSlotsReserved DEF SlotsInv

\* The invariant holds in every state of the two engines.
THEOREM SlotsInvariant == ColorSpec => []SlotsInv
BY InitSlotsInv, NextSlotsInv, PTL DEF ColorSpec

\* Every reachable state has the declared types.
THEOREM ColorTypeCorrect == ColorSpec => []ColorTypeOK
BY SlotsInvariant, PTL DEF SlotsInv

\* Whatever is purged, renewed late or crashed, the requests of tier t and
\* below leave the last t slots of tier 0 to the priorities above them.
THEOREM ReservedSlotsStayFree == ColorSpec => []SlotsReserved
BY SlotsInvariant, PTL DEF SlotsInv

\* A member of tier 0 that is younger than the timeout is one of its own tier.
THEOREM MembersCountTwice == ColorSpec => []CountedInBoth
BY SlotsInvariant, PTL DEF SlotsInv

\* A purged set as large as the total has a member of the top priority.
LEMMA DeniedByTop ==
  ASSUME ColorTypeOK, FiniteMembers, SlotsReserved, ~SingleHasRoom(Purged(tier[0]))
  PROVE  \E q \in MembersOf(tier[0]) : ColorTier(q) = 0
<1> SUFFICES ASSUME \A q \in MembersOf(tier[0]) : ColorTier(q) # 0
             PROVE  FALSE
  OBVIOUS
<1> DEFINE Left == MembersOf(Purged(tier[0]))
<1>1. Left \subseteq MembersOf(tier[0])
  BY DEF MembersOf, Purged
<1>2. /\ Cardinality(Left) <= Cardinality(MembersOf(tier[0]))
      /\ Cardinality(Left) \in Nat /\ Cardinality(MembersOf(tier[0])) \in Nat
  <2>1. IsFiniteSet(Left) /\ Cardinality(Left) <= Cardinality(MembersOf(tier[0]))
    BY <1>1, FS_Subset DEF FiniteMembers
  <2> QED BY <2>1, FS_CardinalityType DEF FiniteMembers
<1>3. Cardinality(Left) >= Total
  <2>1. ~(Cardinality(Left) < TierRate(0))
    BY DEF SingleHasRoom, Count
  <2> QED BY <1>2, <2>1, RatesTyped
<1>4. MembersOf(tier[0]) # {}
  <2>1. Cardinality(MembersOf(tier[0])) # 0
    <3> HIDE DEF Left
    <3> QED BY <1>2, <1>3, RatesTyped
  <2> QED BY ONLY <2>1, FS_EmptySet, Zenon
<1>5. PICK q \in MembersOf(tier[0]) : TRUE
  BY <1>4
<1>6. q \in ColorRequests /\ ColorTier(q) \in Tiers \ {0}
  BY <1>5, ColorTierTyped DEF MembersOf
<1>7. 1 \in Tiers \ {0}
  BY <1>6, RatesTyped DEF Tiers
<1>8. LowerHolders(1) = MembersOf(tier[0])
  <2>1. ASSUME NEW p \in MembersOf(tier[0])
        PROVE  ColorTier(p) >= 1
    <3>1. p \in ColorRequests /\ ColorTier(p) # 0
      BY DEF MembersOf
    <3>2. ColorTier(p) \in Tiers
      BY <3>1, ColorTierTyped
    <3> QED BY ONLY <3>1, <3>2, TiersTyped
  <2> QED BY <2>1 DEF LowerHolders
<1>9. Cardinality(MembersOf(tier[0])) <= TierRate(0) - 1
  BY <1>4, <1>7, <1>8 DEF SlotsReserved
<1> QED BY <1>2, <1>3, <1>9, RatesTyped

\* With lower tiers configured, no flood of lower priorities shuts the top
\* priority out: the single script denies it only while another of its
\* requests is a member.
THEOREM TopDeniedByTopOnly == ColorSpec => TopDeniedByTop
<1>1. SlotsInv /\ [ColorNext]_colorVars =>
        [\A r \in ColorRequests :
            AllowSingle(r) /\ place'[r] = "unmarking"
            => \E q \in MembersOf(tier[0]) : ColorTier(q) = 0]_colorVars
  <2> SUFFICES ASSUME SlotsInv, NEW r \in ColorRequests, AllowSingle(r), place'[r] = "unmarking"
               PROVE  \E q \in MembersOf(tier[0]) : ColorTier(q) = 0
    OBVIOUS
  <2>1. ~SingleHasRoom(Purged(tier[0]))
    BY DEF AllowSingle, Decide, SlotsInv, ColorTypeOK
  <2> QED BY <2>1, DeniedByTop DEF SlotsInv
<1> QED BY <1>1, SlotsInvariant, PTL DEF ColorSpec, TopDeniedByTop
=============================================================================
