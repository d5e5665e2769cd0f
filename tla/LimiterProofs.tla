---------------------------- MODULE LimiterProofs ----------------------------
(***************************************************************************)
(* Theorems about ConcurrencyLimiter and TokenLimiter, for every number of *)
(* requests, every limit and every choice of the timing constants.         *)
(***************************************************************************)
EXTENDS ConcurrencyLimiter, TokenLimiter, FiniteSetTheorems, TLAPS

-----------------------------------------------------------------------------
(* The token limiter: what a bucket earns.  Refilling rounds down to whole *)
(* tokens, so that n seconds bring at least n times what one second        *)
(* brings, and exactly that where the rate is whole: Worth counts a bucket *)
(* at that rate, so that it does not matter when it was refilled last.     *)

\* The tokens that every second brings, rounded down.
Rate == Refill(1)

\* What n seconds bring at that rate.
Earned(n) == Rate * n

\* What a bucket holds, counted at that rate up to now.
Worth(b) == b.tokens + Earned(b.age)

\* No fraction of a token is rounded away.
WholeRate == Rate * Window = Limit

\* The bounds, one by one.
LEMMA Bounds ==
    /\ Burst \in Nat /\ Burst >= 1 /\ Limit \in Nat /\ Limit >= 1
    /\ Window \in Nat /\ Window >= 1 /\ MaxAttempts \in Nat /\ MaxAttempts >= 1
    /\ Delay \in Nat /\ MaxAge \in Nat /\ MaxOwed \in Nat /\ MaxUse \in Nat
    /\ MaxAge >= Delay + (Burst + MaxOwed) * Window
BY LimiterAssumption

\* Rounding down loses less than the divisor.
LEMMA DivFloor ==
    ASSUME NEW a \in Int, NEW d \in Nat, d >= 1
    PROVE  a \div d \in Int /\ d * (a \div d) <= a /\ a < d * (a \div d) + d
OBVIOUS

\* A quotient is at least q when the dividend is at least q times the divisor.
LEMMA DivAtLeast ==
    ASSUME NEW a \in Int, NEW d \in Nat, d >= 1, NEW q \in Int, q * d <= a
    PROVE  q <= a \div d
<1> DEFINE p == a \div d
<1>1. p \in Int /\ d * p <= a /\ a < d * p + d
  BY DivFloor
<1>2. SUFFICES ASSUME p < q PROVE FALSE
  BY <1>1
<1> HIDE DEF p
<1>3. p + 1 <= q
  BY <1>1, <1>2
<1>4. d * (p + 1) <= d * q
  BY <1>1, <1>3
<1>5. d * (p + 1) = d * p + d /\ d * q = q * d
  BY <1>1
<1> QED
  BY <1>1, <1>4, <1>5

\* A quotient is at most q when the dividend is at most q times the divisor.
LEMMA DivAtMost ==
    ASSUME NEW a \in Int, NEW d \in Nat, d >= 1, NEW q \in Int, a <= q * d
    PROVE  a \div d <= q
<1> DEFINE p == a \div d
<1>1. p \in Int /\ d * p <= a
  BY DivFloor
<1>2. SUFFICES ASSUME q < p PROVE FALSE
  BY <1>1
<1> HIDE DEF p
<1>3. q + 1 <= p
  BY <1>1, <1>2
<1>4. d * (q + 1) <= d * p
  BY <1>1, <1>3
<1>5. d * (q + 1) = d * q + d /\ d * q = q * d
  BY <1>1
<1> QED
  BY <1>1, <1>4, <1>5

\* A second brings a whole number of tokens, maybe none.
LEMMA RateType == Rate \in Nat /\ Rate * Window <= Limit
<1>1. Rate \in Int /\ Window * Rate <= Limit
  BY Bounds, DivFloor DEF Rate, Refill
<1>2. 0 * Window <= 1 * Limit
  BY Bounds
<1>3. Rate >= 0
  BY ONLY Bounds, <1>2, DivAtLeast, Limit \in Int, 1 * Limit \in Int, 0 \in Int DEF Rate, Refill
<1>4. Window * Rate = Rate * Window
  BY <1>1, Bounds
<1> QED
  BY <1>1, <1>3, <1>4

\* What is earned: a number,
LEMMA EarnedType == \A n \in Nat : Earned(n) \in Nat
BY RateType DEF Earned

\* none in no time,
LEMMA EarnedNone == Earned(0) = 0
BY RateType DEF Earned

\* Rate more a second later,
LEMMA EarnedNext == \A n \in Nat : Earned(n + 1) = Earned(n) + Rate
BY RateType DEF Earned

\* and never less.
LEMMA EarnedMore == \A m, n \in Nat : m <= n => Earned(m) <= Earned(n)
<1> SUFFICES ASSUME NEW m \in Nat, NEW n \in Nat, m <= n PROVE Earned(m) <= Earned(n)
  OBVIOUS
<1>1. PICK k \in Nat : n = m + k
  BY n - m \in Nat
<1>2. Rate * (m + k) = Rate * m + Rate * k /\ Rate * k >= 0 /\ Rate * m \in Int /\ Rate * k \in Int
  BY RateType
<1> QED
  BY <1>1, <1>2 DEF Earned

\* A lastRefill that is not in the past brings nothing.
LEMMA RefillSign == \A n \in Int : Refill(n) \in Int /\ (n <= 0 => Refill(n) <= 0)
<1> SUFFICES ASSUME NEW n \in Int PROVE Refill(n) \in Int /\ (n <= 0 => Refill(n) <= 0)
  OBVIOUS
<1>1. n * Limit \in Int /\ (n <= 0 => n * Limit <= 0 * Window)
  BY Bounds
<1>2. Refill(n) \in Int
  BY <1>1, Bounds, DivFloor DEF Refill
<1>3. ASSUME n <= 0 PROVE Refill(n) <= 0
  <2>1. n * Limit \in Int /\ n * Limit <= 0 * Window
    BY <1>1, <1>3
  <2> QED
    BY ONLY <2>1, 0 \in Int, DivAtMost, Bounds DEF Refill
<1> QED
  BY <1>2, <1>3

\* A refill brings at least what was earned in between,
LEMMA RefillFair ==
    \A m, n \in Nat : n <= m => Refill(m - n) >= Earned(m) - Earned(n)
<1> SUFFICES ASSUME NEW m \in Nat, NEW n \in Nat, n <= m
             PROVE  Refill(m - n) >= Earned(m) - Earned(n)
  OBVIOUS
<1> DEFINE k == m - n
<1>1. k \in Nat /\ m = n + k
  OBVIOUS
<1>2. Earned(m) - Earned(n) = Rate * k /\ Rate * k \in Int
  <2>1. Rate * (n + k) = Rate * n + Rate * k
    BY <1>1, RateType
  <2> QED
    BY <1>1, <2>1, RateType DEF Earned
<1>3. (Rate * k) * Window <= k * Limit
  <2>1. (Rate * k) * Window = k * (Rate * Window)
    BY <1>1, RateType, Bounds
  <2>2. k * (Rate * Window) <= k * Limit
    BY <1>1, RateType, Bounds, Rate * Window \in Int
  <2> QED
    BY <2>1, <2>2
<1>4. k * Limit \in Int
  BY <1>1, Bounds
<1> HIDE DEF k
<1>5. Rate * k <= (k * Limit) \div Window
  BY <1>2, <1>3, <1>4, Bounds, DivAtLeast
<1> QED
  BY <1>2, <1>5 DEF Refill, k

\* and nothing more where no fraction is rounded away.
LEMMA RefillWhole ==
    ASSUME WholeRate
    PROVE  \A m, n \in Nat : Refill(m - n) = Earned(m) - Earned(n)
<1> SUFFICES ASSUME NEW m \in Nat, NEW n \in Nat
             PROVE  Refill(m - n) = Earned(m) - Earned(n)
  OBVIOUS
<1> DEFINE k == m - n
<1>1. k \in Int /\ m = n + k
  OBVIOUS
<1>2. Earned(m) - Earned(n) = Rate * k /\ Rate * k \in Int
  <2>1. Rate * (n + k) = Rate * n + Rate * k
    BY <1>1, RateType
  <2> QED
    BY <1>1, <2>1, RateType DEF Earned
<1>3. (Rate * k) * Window = k * Limit
  <2>1. (Rate * k) * Window = k * (Rate * Window)
    BY <1>1, RateType, Bounds
  <2> QED
    BY <2>1 DEF WholeRate
<1>4. k * Limit \in Int
  BY <1>1, Bounds
<1> HIDE DEF k
<1>5. Rate * k <= (k * Limit) \div Window
  BY <1>2, <1>3, <1>4, Bounds, DivAtLeast
<1>6. (k * Limit) \div Window <= Rate * k
  BY <1>2, <1>3, <1>4, Bounds, DivAtMost
<1>7. (k * Limit) \div Window \in Int
  BY <1>4, Bounds, DivFloor
<1> QED
  BY <1>2, <1>5, <1>6, <1>7 DEF Refill, k

\* Such a rate is at least a token a second.
LEMMA WholeRateAtLeastOne == WholeRate => Rate >= 1
BY RateType, Bounds DEF WholeRate

\* A bucket of age MaxAge is full.
LEMMA OldIsFull ==
    Rate >= 1 => Earned(MaxAge) >= Earned(Delay) + Burst + MaxOwed
<1> SUFFICES ASSUME Rate >= 1 PROVE Earned(MaxAge) >= Earned(Delay) + Burst + MaxOwed
  OBVIOUS
<1> DEFINE s == Burst + MaxOwed
<1>1. s \in Nat
  BY Bounds
<1>2. s * Window \in Nat /\ s * Window >= s /\ MaxAge >= Delay + s * Window
  BY <1>1, Bounds
<1> HIDE DEF s
<1>3. PICK k \in Nat : MaxAge = Delay + k /\ k >= s
  <2>1. MaxAge - Delay \in Nat /\ MaxAge - Delay >= s /\ MaxAge = Delay + (MaxAge - Delay)
    BY <1>1, <1>2, Bounds
  <2> QED
    BY <2>1
<1>4. Rate * k >= k
  BY RateType, Rate - 1 \in Nat
<1>5. Rate * (Delay + k) = Rate * Delay + Rate * k
  BY RateType, Bounds
<1> QED
  <2>1. Rate * Delay \in Nat /\ Rate * k \in Nat
    BY RateType, Bounds
  <2> QED
    BY <1>3, <1>4, <1>5, <2>1, Bounds DEF Earned, s

-----------------------------------------------------------------------------
(* What refilling and waiting do to a bucket.                              *)

\* Every bucket is worth some number of tokens.
LEMMA WorthType == \A b \in Buckets : Worth(b) \in Int
BY EarnedType, Bounds DEF Buckets, Worth

\* A refill keeps a bucket a bucket, and Burst its limit.
LEMMA RefilledType ==
    ASSUME NEW b \in Buckets, b.tokens <= Burst, NEW c \in 0..Delay
    PROVE  Refilled(b, c) \in Buckets /\ Refilled(b, c).tokens <= Burst
<1>1. b.tokens \in Int /\ b.age \in 0..MaxAge /\ b.age - c \in Int
  BY Bounds DEF Buckets
<1>2. Refill(b.age - c) \in Int
  BY <1>1, RefillSign
<1>3. CASE Refill(b.age - c) > 0
  <2>1. Refilled(b, c) = [tokens |-> Smaller(Burst, b.tokens + Refill(b.age - c)), age |-> c]
    BY <1>3 DEF Refilled
  <2>2. /\ Smaller(Burst, b.tokens + Refill(b.age - c)) \in Int
        /\ Smaller(Burst, b.tokens + Refill(b.age - c)) <= Burst
    BY <1>1, <1>2, Bounds DEF Smaller
  <2>3. c \in 0..MaxAge
    BY <1>2, Bounds, MaxAge >= Delay, OldIsFull, (Burst + MaxOwed) * Window \in Nat
  <2> QED
    BY <2>1, <2>2, <2>3 DEF Buckets
<1>4. CASE ~(Refill(b.age - c) > 0)
  <2>1. Refilled(b, c) = [tokens |-> b.tokens, age |-> Larger(b.age, c)]
    BY <1>4 DEF Refilled
  <2>2. Larger(b.age, c) \in 0..MaxAge
    BY <1>1, Bounds, (Burst + MaxOwed) * Window \in Nat DEF Larger
  <2> QED
    BY <1>1, <2>1, <2>2 DEF Buckets
<1> QED
  BY <1>3, <1>4

\* With at least a token a second a refill moves lastRefill to the clock.
LEMMA RefilledAge ==
    ASSUME NEW b \in Buckets, NEW c \in 0..Delay, Rate >= 1
    PROVE  Refilled(b, c).age = c
<1>1. b.age \in Nat /\ c \in Nat
  BY Bounds DEF Buckets
<1>2. CASE b.age <= c
  <2>1. ~(Refill(b.age - c) > 0)
    BY <1>1, <1>2, b.age - c \in Int, b.age - c <= 0, RefillSign
  <2> QED
    BY <1>1, <1>2, <2>1 DEF Refilled, Larger
<1>3. CASE b.age > c
  <2>1. Refill(b.age - c) >= Earned(b.age) - Earned(c)
    BY <1>1, <1>3, RefillFair
  <2>2. Earned(b.age) >= Earned(c + 1) /\ Earned(c + 1) = Earned(c) + Rate
    BY <1>1, <1>3, EarnedMore, EarnedNext, c + 1 \in Nat, c + 1 <= b.age
  <2>3. Refill(b.age - c) \in Int /\ Earned(b.age) \in Nat /\ Earned(c) \in Nat
    BY <1>1, RefillSign, EarnedType, b.age - c \in Int
  <2>4. Refill(b.age - c) > 0
    BY <2>1, <2>2, <2>3, RateType
  <2> QED
    BY <2>4 DEF Refilled
<1> QED
  BY <1>1, <1>2, <1>3

\* The two outcomes of a refill.
LEMMA RefilledCases ==
    ASSUME NEW b \in Buckets, NEW c \in 0..Delay
    PROVE  \/ /\ Refill(b.age - c) > 0 /\ b.age > c
              /\ Refilled(b, c).tokens = Smaller(Burst, b.tokens + Refill(b.age - c))
              /\ Refilled(b, c).age = c
           \/ /\ Refill(b.age - c) <= 0
              /\ Refilled(b, c).tokens = b.tokens
              /\ Refilled(b, c).age = Larger(b.age, c)
<1>1. b.age \in Nat /\ c \in Nat /\ b.age - c \in Int
  BY Bounds DEF Buckets
<1>2. Refill(b.age - c) \in Int /\ (b.age - c <= 0 => Refill(b.age - c) <= 0)
  BY <1>1, RefillSign
<1>3. CASE Refill(b.age - c) > 0
  BY <1>1, <1>2, <1>3 DEF Refilled
<1>4. CASE Refill(b.age - c) <= 0
  BY <1>1, <1>2, <1>4 DEF Refilled
<1> QED
  BY <1>2, <1>3, <1>4

\* A refill takes nothing away but what is above Burst.
LEMMA RefilledCovers ==
    ASSUME NEW b \in Buckets, NEW c \in 0..Delay,
           NEW w \in Int, w <= Burst, w <= Worth(b)
    PROVE  w <= Worth(Refilled(b, c))
<1>1. /\ b.tokens \in Int /\ b.age \in Nat /\ c \in Nat
      /\ Earned(b.age) \in Nat /\ Earned(c) \in Nat
      /\ Refill(b.age - c) \in Int
  BY Bounds, EarnedType, RefillSign, b.age - c \in Int DEF Buckets
<1>2. CASE /\ Refill(b.age - c) > 0 /\ b.age > c
           /\ Refilled(b, c).tokens = Smaller(Burst, b.tokens + Refill(b.age - c))
           /\ Refilled(b, c).age = c
  <2>1. Refill(b.age - c) >= Earned(b.age) - Earned(c)
    BY <1>1, <1>2, RefillFair
  <2> QED
    BY <1>1, <1>2, <2>1, Bounds DEF Worth, Smaller
<1>3. CASE /\ Refill(b.age - c) <= 0
           /\ Refilled(b, c).tokens = b.tokens
           /\ Refilled(b, c).age = Larger(b.age, c)
  <2>1. Earned(b.age) <= Earned(Larger(b.age, c)) /\ Earned(Larger(b.age, c)) \in Nat
    BY <1>1, EarnedMore, EarnedType DEF Larger
  <2> QED
    BY <1>1, <1>3, <2>1 DEF Worth
<1> QED
  BY <1>2, <1>3, RefilledCases

\* A refill adds nothing that was not earned.
LEMMA RefilledNoGain ==
    ASSUME WholeRate, NEW b \in Buckets, NEW c \in 0..Delay, c <= b.age
    PROVE  Worth(Refilled(b, c)) <= Worth(b)
<1>1. /\ b.tokens \in Int /\ b.age \in Nat /\ c \in Nat
      /\ Earned(b.age) \in Nat /\ Earned(c) \in Nat
  BY Bounds, EarnedType DEF Buckets
<1>2. Refill(b.age - c) = Earned(b.age) - Earned(c)
  BY <1>1, RefillWhole
<1>3. CASE /\ Refill(b.age - c) > 0 /\ b.age > c
           /\ Refilled(b, c).tokens = Smaller(Burst, b.tokens + Refill(b.age - c))
           /\ Refilled(b, c).age = c
  BY <1>1, <1>2, <1>3, Bounds DEF Worth, Smaller
<1>4. CASE /\ Refill(b.age - c) <= 0
           /\ Refilled(b, c).tokens = b.tokens
           /\ Refilled(b, c).age = Larger(b.age, c)
  BY <1>1, <1>4 DEF Worth, Larger
<1> QED
  BY <1>3, <1>4, RefilledCases

\* Refilled up to now, a bucket is worth its tokens.
LEMMA RefilledNow ==
    ASSUME NEW b \in Buckets
    PROVE  Worth(Refilled(b, 0)) = Refilled(b, 0).tokens
<1>1. b.tokens \in Int /\ b.age \in Nat /\ 0 \in 0..Delay /\ Earned(b.age) \in Nat
  BY Bounds, EarnedType DEF Buckets
<1>2. CASE Refilled(b, 0).age = 0 /\ Refilled(b, 0).tokens = Smaller(Burst, b.tokens + Refill(b.age - 0))
  <2>1. Smaller(Burst, b.tokens + Refill(b.age - 0)) \in Int
    BY <1>1, Bounds, RefillSign, b.age - 0 \in Int DEF Smaller
  <2> QED
    BY <1>2, <2>1, EarnedNone DEF Worth
<1>3. CASE /\ Refill(b.age - 0) <= 0
           /\ Refilled(b, 0).tokens = b.tokens
           /\ Refilled(b, 0).age = Larger(b.age, 0)
  <2>1. Refill(b.age - 0) >= Earned(b.age) - Earned(0)
    BY <1>1, RefillFair
  <2>2. Refill(b.age - 0) \in Int
    BY <1>1, RefillSign, b.age - 0 \in Int
  <2>3. Earned(b.age) = 0
    BY <1>1, <1>3, <2>1, <2>2, EarnedNone
  <2>4. Larger(b.age, 0) = b.age
    BY <1>1 DEF Larger
  <2> QED
    BY <1>1, <1>3, <2>3, <2>4 DEF Worth
<1> QED
  BY <1>1, <1>2, <1>3, RefilledCases

\* A balance that lets a request in was earned.
LEMMA EnoughIsWorth ==
    ASSUME WholeRate, NEW b \in Buckets, NEW c \in 0..Delay, Enough(Refilled(b, c))
    PROVE  Worth(b) >= 1
<1>1. /\ b.tokens \in Int /\ b.age \in Nat /\ c \in Nat
      /\ Earned(b.age) \in Nat /\ Earned(c) \in Nat
  BY Bounds, EarnedType DEF Buckets
<1>2. Refill(b.age - c) = Earned(b.age) - Earned(c)
  BY <1>1, RefillWhole
<1>3. CASE Refilled(b, c).tokens = Smaller(Burst, b.tokens + Refill(b.age - c))
  BY <1>1, <1>2, <1>3, Bounds DEF Worth, Smaller, Enough
<1>4. CASE Refilled(b, c).tokens = b.tokens
  BY <1>1, <1>4 DEF Worth, Enough
<1> QED
  BY <1>3, <1>4, RefilledCases

\* A second changes the age of a bucket alone, up to MaxAge.
LEMMA OlderType ==
    ASSUME NEW b \in Buckets
    PROVE  Older(b) \in Buckets /\ Older(b).tokens = b.tokens
           /\ Older(b).age = Smaller(b.age + 1, MaxAge)
<1>1. b.tokens \in Int /\ b.age \in 0..MaxAge /\ b = [tokens |-> b.tokens, age |-> b.age]
  BY DEF Buckets
<1>2. Older(b) = [tokens |-> b.tokens, age |-> Smaller(b.age + 1, MaxAge)]
  BY <1>1 DEF Older
<1>3. Smaller(b.age + 1, MaxAge) \in 0..MaxAge
  BY <1>1, Bounds DEF Smaller
<1> QED
  BY <1>1, <1>2, <1>3 DEF Buckets

\* A second brings a bucket Rate tokens, or nothing once it is MaxAge old.
LEMMA OlderWorth ==
    ASSUME NEW b \in Buckets
    PROVE  /\ b.age < MaxAge => Worth(Older(b)) = Worth(b) + Rate
           /\ b.age = MaxAge => Worth(Older(b)) = Worth(b)
           /\ Worth(b) <= Worth(Older(b)) /\ Worth(Older(b)) <= Worth(b) + Rate
<1>1. b.tokens \in Int /\ b.age \in 0..MaxAge /\ b.age \in Nat /\ Earned(b.age) \in Nat
  BY Bounds, EarnedType DEF Buckets
<1>2. Older(b).tokens = b.tokens /\ Older(b).age = Smaller(b.age + 1, MaxAge)
  BY OlderType
<1>3. CASE b.age < MaxAge
  <2>1. Smaller(b.age + 1, MaxAge) = b.age + 1
    BY <1>1, <1>3, Bounds DEF Smaller
  <2>2. Earned(b.age + 1) = Earned(b.age) + Rate
    BY <1>1, EarnedNext
  <2> QED
    BY <1>1, <1>2, <1>3, <2>1, <2>2, RateType DEF Worth
<1>4. CASE b.age = MaxAge
  <2>1. Smaller(b.age + 1, MaxAge) = b.age
    BY <1>1, <1>4, Bounds DEF Smaller
  <2> QED
    BY <1>1, <1>2, <1>4, <2>1, RateType DEF Worth
<1> QED
  BY <1>1, <1>3, <1>4, Bounds

-----------------------------------------------------------------------------
(* Type correctness.                                                       *)

\* A request that may still be let in has an attempt left, and one that was
\* let in has a callback to do.
AttemptsLeft ==
    \A r \in TokenRequests :
        /\ stage[r] \in {"new", "asking", "checking"} => callbacks[r] < MaxAttempts
        /\ stage[r] \in {"admitted", "deducting", "timing", "reading", "writing"} => callbacks[r] > 0

\* A bucket that is gone has its defaults.
GoneIsFull == ~live => bucket = Full

\* The types, and what they need to be kept.
Typed == TokenTypeOK /\ AttemptsLeft /\ GoneIsFull

\* The TTL of a key is at least 0.
LEMMA TtlType == Ttl \in Nat
<1>1. 2 * Burst * Window \in Nat /\ 0 * Limit <= 2 * Burst * Window
  BY Bounds
<1>2. Ttl \in Int
  BY <1>1, Bounds, DivFloor DEF Ttl
<1>3. 0 <= Ttl
  BY <1>1, Bounds, DivAtLeast, 0 \in Int DEF Ttl
<1> QED
  BY <1>2, <1>3

\* A clock read is never older than MaxAge.
LEMMA DelayFits == \A c \in 0..Delay : c \in 0..MaxAge /\ c \in Nat
<1>1. (Burst + MaxOwed) * Window \in Nat
  BY Bounds
<1> QED
  BY <1>1, Bounds

\* The defaults of a key that is gone.
LEMMA FullType == Full \in Buckets /\ Full.tokens = Burst /\ Full.age = 0
BY Bounds DEF Full, Buckets

\* What HMGET answers is a bucket.
LEMMA FieldsType ==
    ASSUME TokenTypeOK, NEW r \in TokenRequests
    PROVE  /\ Fields(r) \in Buckets /\ Fields(r).tokens <= Burst
           /\ sinceClock[r] \in 0..Delay
<1>1. sinceClock[r] \in 0..Delay /\ bucket \in Buckets /\ bucket.tokens <= Burst
  BY DEF TokenTypeOK
<1>2. [tokens |-> Burst, age |-> sinceClock[r]] \in Buckets
  BY <1>1, DelayFits, Bounds DEF Buckets
<1> QED
  BY <1>1, <1>2, Bounds DEF Fields

\* What DeductRead writes to seen.
LEMMA ReadSeen ==
    ASSUME TokenTypeOK, NEW r \in TokenRequests, DeductRead(r)
    PROVE  LET b == Refilled(Fields(r), sinceClock[r])
           IN  /\ b \in Buckets /\ b.tokens <= Burst
               /\ seen'[r] \in Buckets
               /\ seen'[r].tokens = b.tokens - used[r]
               /\ seen'[r].age = b.age
<1> DEFINE b == Refilled(Fields(r), sinceClock[r])
<1>1. b \in Buckets /\ b.tokens <= Burst
  BY FieldsType, RefilledType
<1>2. used[r] \in 0..MaxUse /\ r \in DOMAIN seen
  BY DEF TokenTypeOK
<1>3. seen'[r] = [b EXCEPT !.tokens = @ - used[r]]
  BY <1>2 DEF DeductRead
<1> HIDE DEF b
<1>4. b = [tokens |-> b.tokens, age |-> b.age] /\ b.tokens \in Int /\ b.age \in 0..MaxAge
  BY <1>1 DEF Buckets
<1>5. seen'[r] = [tokens |-> b.tokens - used[r], age |-> b.age]
  BY <1>3, <1>4
<1>6. seen'[r] \in Buckets /\ seen'[r].tokens = b.tokens - used[r] /\ seen'[r].age = b.age
  BY <1>2, <1>4, <1>5, Bounds DEF Buckets
<1> QED
  BY <1>1, <1>6 DEF b

\* They hold when the limiter starts,
LEMMA TypedInit == TokenInit => Typed
<1> SUFFICES ASSUME TokenInit PROVE Typed
  OBVIOUS
<1>1. bucket \in Buckets /\ bucket.tokens <= Burst
  BY FullType, Bounds DEF TokenInit
<1>l. live \in BOOLEAN
  BY DEF TokenInit
<1>2. left \in {NoTtl} \cup 0..Ttl
  BY TtlType DEF TokenInit
<1>3. /\ seen \in [TokenRequests -> Buckets] /\ sinceClock \in [TokenRequests -> 0..Delay]
      /\ used \in [TokenRequests -> 0..MaxUse] /\ callbacks \in [TokenRequests -> 0..MaxAttempts]
  BY FullType, Bounds DEF TokenInit
<1> QED
  BY <1>1, <1>l, <1>2, <1>3, Bounds DEF TokenInit, Typed, TokenTypeOK, Stages, AttemptsLeft, GoneIsFull

\* and every step keeps them.
LEMMA TypedStep == Typed /\ [TokenNext]_tokenVars => Typed'
<1> SUFFICES ASSUME Typed, [TokenNext]_tokenVars PROVE Typed'
  OBVIOUS
<1>t. TokenTypeOK /\ AttemptsLeft /\ GoneIsFull
  BY DEF Typed
<1> USE DEF hash, history, Stages
<1>b. Burst \in Nat /\ MaxUse \in Nat /\ Delay \in Nat /\ MaxAge \in Nat /\ MaxAttempts \in Nat /\ MaxAttempts >= 1
  BY Bounds
<1>0. ASSUME NEW r \in TokenRequests, AllowClock(r) PROVE Typed'
  BY <1>t, <1>b, <1>0 DEF AllowClock, Typed, TokenTypeOK, AttemptsLeft, GoneIsFull
<1>1. ASSUME NEW r \in TokenRequests, AllowTtl(r) PROVE Typed'
  BY <1>t, <1>b, <1>1 DEF AllowTtl, Admit, Refuse, Typed, TokenTypeOK, AttemptsLeft, GoneIsFull
<1>2. ASSUME NEW r \in TokenRequests, AllowRead(r) PROVE Typed'
  BY <1>t, <1>b, <1>2 DEF AllowRead, Admit, Refuse, Typed, TokenTypeOK, AttemptsLeft, GoneIsFull
<1>3. ASSUME NEW r \in TokenRequests, Retry(r) PROVE Typed'
  BY <1>t, <1>b, <1>3 DEF Retry, Typed, TokenTypeOK, AttemptsLeft, GoneIsFull
<1>4. ASSUME NEW r \in TokenRequests, EndUnpaid(r) PROVE Typed'
  BY <1>t, <1>b, <1>4 DEF EndUnpaid, Leave, Typed, TokenTypeOK, AttemptsLeft, GoneIsFull
<1>5. ASSUME NEW r \in TokenRequests, Answer(r) PROVE Typed'
  <2>1. PICK u \in 0..MaxUse :
            IF u > 0 THEN /\ stage' = [stage EXCEPT ![r] = "deducting"]
                          /\ used' = [used EXCEPT ![r] = u]
                          /\ UNCHANGED callbacks
            ELSE Leave(r) /\ UNCHANGED used
    BY <1>5 DEF Answer
  <2>2. UNCHANGED <<live, bucket, left, sinceClock, seen>> /\ stage[r] = "admitted"
    BY <1>5 DEF Answer
  <2>3. CASE u > 0
    BY <1>t, <1>b, <2>1, <2>2, <2>3 DEF Typed, TokenTypeOK, AttemptsLeft, GoneIsFull
  <2>4. CASE ~(u > 0)
    BY <1>t, <1>b, <2>1, <2>2, <2>4 DEF Leave, Typed, TokenTypeOK, AttemptsLeft, GoneIsFull
  <2> QED
    BY <2>3, <2>4
<1>c. ASSUME NEW r \in TokenRequests, DeductClock(r) PROVE Typed'
  BY <1>t, <1>b, <1>c DEF DeductClock, Typed, TokenTypeOK, AttemptsLeft, GoneIsFull
<1>6. ASSUME NEW r \in TokenRequests, DeductTtl(r) PROVE Typed'
  <2>0. used[r] \in 0..MaxUse /\ sinceClock[r] \in 0..MaxAge
    BY <1>t, DelayFits DEF TokenTypeOK
  <2>1. used[r] \in 0..MaxUse /\ [tokens |-> Burst - used[r], age |-> sinceClock[r]] \in Buckets
    BY <1>b, <2>0 DEF Buckets
  <2> QED
    BY <1>t, <1>b, <1>6, <2>1 DEF DeductTtl, Typed, TokenTypeOK, AttemptsLeft, GoneIsFull
<1>7. ASSUME NEW r \in TokenRequests, DeductRead(r) PROVE Typed'
  <2>1. seen'[r] \in Buckets /\ seen'[r].tokens <= Burst - used[r]
    <3>1. used[r] \in 0..MaxUse
      BY <1>t DEF TokenTypeOK
    <3> HIDE DEF hash
    <3>2. PICK b \in Buckets : b.tokens <= Burst /\ seen'[r] \in Buckets /\ seen'[r].tokens = b.tokens - used[r]
      BY <1>t, <1>7, ReadSeen
    <3>3. b.tokens \in Int
      BY DEF Buckets
    <3> QED
      BY <1>b, <3>1, <3>2, <3>3
  <2>2. seen' \in [TokenRequests -> Buckets] /\ \A q \in TokenRequests \ {r} : seen'[q] = seen[q]
    BY <1>t, <1>7, <2>1 DEF DeductRead, TokenTypeOK
  <2>3. stage' = [stage EXCEPT ![r] = "writing"] /\ stage[r] = "reading"
        /\ UNCHANGED <<live, bucket, left, sinceClock, used, callbacks>>
    BY <1>7 DEF DeductRead
  <2> QED
    BY <1>t, <1>b, <2>1, <2>2, <2>3 DEF Typed, TokenTypeOK, AttemptsLeft, GoneIsFull
<1>n. ASSUME NEW r \in TokenRequests, callbacks[r] > 0, NextCallback(r)
      PROVE  /\ callbacks' \in [TokenRequests -> 0..MaxAttempts]
             /\ stage' \in [TokenRequests -> Stages]
             /\ used' \in [TokenRequests -> 0..MaxUse]
             /\ sinceClock' \in [TokenRequests -> 0..Delay]
             /\ seen' \in [TokenRequests -> Buckets]
             /\ \A q \in TokenRequests : stage'[q] = "writing" => seen'[q].tokens <= Burst - used'[q]
             /\ AttemptsLeft'
  BY <1>t, <1>b, <1>n, FullType DEF NextCallback, TokenTypeOK, AttemptsLeft
<1>8. ASSUME NEW r \in TokenRequests, DeductWrite(r) PROVE Typed'
  <2>1. callbacks[r] > 0 /\ NextCallback(r)
    BY <1>t, <1>8 DEF DeductWrite, AttemptsLeft
  <2>2. seen[r] \in Buckets /\ seen[r].tokens <= Burst
    <3>1. seen[r] \in Buckets /\ seen[r].tokens <= Burst - used[r] /\ used[r] \in 0..MaxUse
      BY <1>t, <1>8 DEF DeductWrite, TokenTypeOK
    <3>2. seen[r].tokens \in Int
      BY <3>1 DEF Buckets
    <3> QED
      BY <1>b, <3>1, <3>2
  <2>3. live' = TRUE /\ bucket' = seen[r] /\ left' \in {Ttl, left, NoTtl}
    BY <1>8 DEF DeductWrite
  <2>4. left' \in {NoTtl} \cup 0..Ttl
    BY <1>t, <2>3, TtlType DEF TokenTypeOK
  <2> QED
    BY <1>n, <2>1, <2>2, <2>3, <2>4 DEF Typed, TokenTypeOK, GoneIsFull
<1>9. ASSUME NEW r \in TokenRequests, DeductFails(r) PROVE Typed'
  <2>1. callbacks[r] > 0 /\ NextCallback(r) /\ UNCHANGED <<live, bucket, left>>
    BY <1>t, <1>9 DEF DeductFails, Deducting, AttemptsLeft
  <2> QED
    BY <1>t, <1>n, <2>1 DEF Typed, TokenTypeOK, GoneIsFull
<1>10. CASE Expire
  <2>1. bucket' \in Buckets /\ bucket'.tokens <= Burst /\ bucket' = Full
    BY <1>b, <1>10, FullType DEF Expire
  <2> QED
    BY <1>t, <1>10, <2>1 DEF Expire, Typed, TokenTypeOK, AttemptsLeft, GoneIsFull
<1>11. CASE TokenTick
  <2>1. left' \in {NoTtl} \cup 0..Ttl
    BY <1>t, <1>11, TtlType DEF TokenTick, TokenTypeOK, NoTtl
  <2>2. bucket' \in Buckets /\ bucket'.tokens <= Burst
    BY <1>t, <1>11, OlderType DEF TokenTick, TokenTypeOK
  <2>3. sinceClock' \in [TokenRequests -> 0..Delay]
    BY <1>t, <1>b, <1>11 DEF TokenTick, TokenTypeOK
  <2>4. \A r \in TokenRequests : Older(seen[r]) \in Buckets /\ Older(seen[r]).tokens = seen[r].tokens
    BY <1>t, OlderType DEF TokenTypeOK
  <2>5. seen' = [r \in TokenRequests |-> IF stage[r] = "writing" THEN Older(seen[r]) ELSE seen[r]]
        /\ UNCHANGED <<live, stage, used, callbacks>> /\ bucket' = IF live THEN Older(bucket) ELSE bucket
    BY <1>11 DEF TokenTick
  <2> QED
    BY <1>t, <2>1, <2>2, <2>3, <2>4, <2>5 DEF Typed, TokenTypeOK, AttemptsLeft, GoneIsFull
<1>12. CASE UNCHANGED tokenVars
  BY <1>t, <1>12 DEF tokenVars, Typed, TokenTypeOK, AttemptsLeft, GoneIsFull
<1> QED
  BY <1>0, <1>1, <1>2, <1>3, <1>4, <1>5, <1>c, <1>6, <1>7, <1>8, <1>9, <1>10, <1>11, <1>12
    DEF TokenNext

-----------------------------------------------------------------------------
(* A write that overtakes another one only forgets.                        *)

IdealRange == ideal \in Int /\ -MaxOwed <= ideal /\ ideal <= Burst

\* What Redis holds covers the balance of all bookings,
BucketCovers == live => Worth(bucket) >= ideal

\* and so does what a deduction will write, before its own booking.
WriteCovers ==
    \A r \in TokenRequests : stage[r] = "writing" =>
        /\ Worth(seen[r]) + used[r] >= ideal
        /\ Rate >= 1 => seen[r].age = sinceClock[r]

\* A bucket owes at most MaxOwed and what its write was late by.
BucketFloor == bucket.tokens >= -MaxOwed - Earned(Delay)

\* The invariant behind NeverBelowBookings.
Covered == IdealRange /\ BucketCovers /\ WriteCovers /\ BucketFloor

\* What a request does before it looks at the bucket to book, or instead.
Asides(r) ==
    \/ AllowClock(r) \/ AllowTtl(r) \/ AllowRead(r) \/ Retry(r) \/ EndUnpaid(r) \/ Answer(r)
    \/ DeductClock(r)

\* None of it is seen by the deductions.
LEMMA AsideFrame ==
    ASSUME Typed, NEW r \in TokenRequests, Asides(r)
    PROVE  /\ UNCHANGED <<live, bucket, left, seen, ideal, leaked>>
           /\ stage[r] \notin {"timing", "reading", "writing"}
           /\ \A q \in TokenRequests : stage'[q] \in {"reading", "writing"} =>
                 /\ q # r /\ stage'[q] = stage[q]
                 /\ used'[q] = used[q] /\ sinceClock'[q] = sinceClock[q]
           /\ \A q \in TokenRequests : stage'[q] = "timing" =>
                 \/ sinceClock'[q] = 0
                 \/ stage[q] = "timing" /\ sinceClock'[q] = sinceClock[q]
<1> USE DEF Typed, TokenTypeOK, hash, history
<1>0. CASE AllowClock(r)
  BY <1>0 DEF AllowClock
<1>1. CASE AllowTtl(r)
  BY <1>1 DEF AllowTtl, Admit, Refuse
<1>2. CASE AllowRead(r)
  BY <1>2 DEF AllowRead, Admit, Refuse
<1>3. CASE Retry(r)
  BY <1>3 DEF Retry
<1>4. CASE EndUnpaid(r)
  BY <1>4 DEF EndUnpaid, Leave
<1>5. CASE Answer(r)
  BY <1>5 DEF Answer, Leave
<1>6. CASE DeductClock(r)
  BY <1>6 DEF DeductClock
<1> QED
  BY <1>0, <1>1, <1>2, <1>3, <1>4, <1>5, <1>6 DEF Asides

\* The end of a callback is seen by no other deduction.
LEMMA CallbackFrame ==
    ASSUME Typed, NEW r \in TokenRequests, NextCallback(r)
    PROVE  /\ stage'[r] \in {"deducting", "new"}
           /\ \A q \in TokenRequests \ {r} :
                 /\ stage'[q] = stage[q] /\ seen'[q] = seen[q]
                 /\ used'[q] = used[q] /\ sinceClock'[q] = sinceClock[q]
BY DEF Typed, TokenTypeOK, NextCallback

\* The parts of what a deduction will write,
LEMMA SeenType ==
    ASSUME Typed, NEW r \in TokenRequests
    PROVE  seen[r] \in Buckets /\ seen[r].tokens \in Int /\ seen[r].age \in Nat
           /\ Worth(seen[r]) \in Int /\ used[r] \in Nat /\ used[r] <= MaxUse
           /\ sinceClock[r] \in 0..Delay /\ sinceClock[r] \in Nat /\ Delay \in Nat
<1>1. seen[r] \in Buckets /\ used[r] \in 0..MaxUse /\ sinceClock[r] \in 0..Delay
  BY DEF Typed, TokenTypeOK
<1> QED
  BY <1>1, Bounds, WorthType DEF Buckets

\* and of what Redis holds.
LEMMA BucketType ==
    ASSUME Typed
    PROVE  bucket \in Buckets /\ bucket.tokens \in Int /\ bucket.age \in Nat /\ Worth(bucket) \in Int
           /\ bucket.tokens <= Burst /\ bucket.age <= MaxAge
<1>1. bucket \in Buckets /\ bucket.tokens <= Burst
  BY DEF Typed, TokenTypeOK
<1> QED
  BY <1>1, Bounds, WorthType DEF Buckets

\* A new client has its burst, and owes nothing.
LEMMA CoveredInit == TokenInit => Covered
<1> SUFFICES ASSUME TokenInit PROVE Covered
  OBVIOUS
<1>1. Worth(Full) = Burst /\ Full.tokens = Burst
  BY FullType, EarnedNone, Bounds DEF Worth
<1>2. Earned(Delay) \in Nat
  BY EarnedType, Bounds
<1> QED
  BY <1>1, <1>2, Bounds DEF TokenInit, Covered, IdealRange, BucketCovers, WriteCovers,
     BucketFloor

\* The whole use of a deduction is subtracted where its write is late by at
\* most Delay.
LEMMA SeenFloor ==
    ASSUME Typed, IdealRange, WriteCovers, NEW r \in TokenRequests, stage[r] = "writing",
           ideal - used[r] >= -MaxOwed
    PROVE  seen[r].tokens >= -MaxOwed - Earned(Delay)
<1>1. Worth(seen[r]) + used[r] >= ideal
  BY DEF WriteCovers
<1>2. Earned(Delay) \in Nat /\ Earned(seen[r].age) \in Nat
  BY SeenType, EarnedType, Bounds
<1>3. Earned(seen[r].age) <= Earned(Delay)
  <2>1. CASE Rate >= 1
    <3>1. seen[r].age = sinceClock[r]
      BY <2>1 DEF WriteCovers
    <3> QED
      BY <3>1, SeenType, EarnedMore, sinceClock[r] <= Delay
  <2>2. CASE ~(Rate >= 1)
    <3>1. Rate = 0
      BY <2>2, RateType
    <3> QED
      BY <3>1, SeenType, Bounds DEF Earned
  <2> QED
    BY <2>1, <2>2
<1> QED
  BY <1>1, <1>2, <1>3, SeenType, Bounds DEF Worth, IdealRange

\* An old bucket that covers the balance covers it a second later.
LEMMA OlderCovers ==
    ASSUME NEW b \in Buckets, NEW i \in Int, i <= Burst, Worth(b) >= i,
           b.tokens >= -MaxOwed - Earned(Delay)
    PROVE  Worth(Older(b)) >= Smaller(Burst, i + Rate)
<1>1. b.tokens \in Int /\ b.age \in 0..MaxAge /\ b.age \in Nat /\ Worth(b) \in Int
      /\ Older(b) \in Buckets /\ Worth(Older(b)) \in Int
  BY Bounds, WorthType, OlderType DEF Buckets
<1>2. CASE b.age < MaxAge
  BY <1>1, <1>2, OlderWorth, RateType, Bounds DEF Smaller
<1>3. CASE b.age = MaxAge /\ Rate >= 1
  <2>1. Earned(MaxAge) >= Earned(Delay) + Burst + MaxOwed
        /\ Earned(MaxAge) \in Nat /\ Earned(Delay) \in Nat
    BY <1>3, OldIsFull, EarnedType, Bounds
  <2>2. Worth(b) >= Burst
    BY <1>1, <1>3, <2>1, Bounds DEF Worth
  <2> QED
    BY <1>1, <1>3, <2>2, OlderWorth, RateType, Bounds DEF Smaller
<1>4. CASE b.age = MaxAge /\ ~(Rate >= 1)
  BY <1>1, <1>4, OlderWorth, RateType, Bounds DEF Smaller
<1> QED
  BY <1>1, <1>2, <1>3, <1>4, Bounds

\* Every step keeps the balance of all bookings covered: a write takes it down
\* by the use that it books, and a second brings both the same.
LEMMA CoveredStep == Typed /\ Covered /\ [TokenNext]_tokenVars => Covered'
<1> SUFFICES ASSUME Typed, Covered, [TokenNext]_tokenVars PROVE Covered'
  OBVIOUS
<1>c. IdealRange /\ BucketCovers /\ WriteCovers /\ BucketFloor
  BY DEF Covered
<1>e. Earned(Delay) \in Nat
  BY EarnedType, Bounds
<1>1. ASSUME NEW r \in TokenRequests, Asides(r) PROVE Covered'
  <2>1. IdealRange' /\ BucketCovers' /\ BucketFloor'
    BY <1>c, <1>1, AsideFrame DEF IdealRange, BucketCovers, BucketFloor, Worth
  <2>2. WriteCovers'
    BY <1>c, <1>1, AsideFrame DEF WriteCovers, Worth
  <2> QED
    BY <2>1, <2>2 DEF Covered
<1>2. ASSUME NEW r \in TokenRequests, DeductTtl(r) PROVE Covered'
  <2>1. UNCHANGED <<live, bucket, ideal, used>>
    BY <1>2 DEF DeductTtl, hash, history
  <2>2. ASSUME NEW q \in TokenRequests, stage'[q] = "writing"
        PROVE  Worth(seen'[q]) + used[q] >= ideal /\ (Rate >= 1 => seen'[q].age = sinceClock'[q])
    <3>1. CASE q # r
      <4>1. stage[q] = "writing" /\ seen'[q] = seen[q] /\ sinceClock'[q] = sinceClock[q]
        BY <1>2, <2>2, <3>1 DEF DeductTtl, Typed, TokenTypeOK
      <4> QED
        BY <1>c, <4>1 DEF WriteCovers
    <3>2. CASE q = r
      <4>1. seen'[q] = [tokens |-> Burst - used[q], age |-> sinceClock[q]] /\ sinceClock'[q] = sinceClock[q]
        BY <1>2, <2>2, <3>2 DEF DeductTtl, Typed, TokenTypeOK
      <4>2. Earned(sinceClock[q]) \in Nat
        BY SeenType, EarnedType
      <4> QED
        BY <1>c, <4>1, <4>2, Bounds, SeenType DEF Worth, IdealRange
    <3> QED
      BY <3>1, <3>2
  <2> QED
    BY <1>c, <2>1, <2>2 DEF Covered, IdealRange, BucketCovers, WriteCovers, BucketFloor, Worth
<1>3. ASSUME NEW r \in TokenRequests, DeductRead(r) PROVE Covered'
  <2>1. UNCHANGED <<live, bucket, ideal, used, sinceClock>> /\ stage' = [stage EXCEPT ![r] = "writing"]
    BY <1>3 DEF DeductRead, hash, history
  <2> DEFINE b == Refilled(Fields(r), sinceClock[r])
  <2>2. /\ b \in Buckets /\ seen'[r] \in Buckets
        /\ seen'[r].tokens = b.tokens - used[r] /\ seen'[r].age = b.age
    BY <1>3, ReadSeen DEF Typed
  <2>3. Worth(seen'[r]) + used[r] = Worth(b)
    BY <2>2, SeenType, EarnedType, Bounds DEF Worth, Buckets
  <2>4. Worth(Fields(r)) >= ideal
    <3>1. CASE live
      BY <1>c, <3>1 DEF Fields, BucketCovers
    <3>2. CASE ~live
      <4>1. Fields(r).tokens = Burst /\ Fields(r).age = sinceClock[r]
        BY <3>2 DEF Fields
      <4> QED
        BY <1>c, <4>1, SeenType, EarnedType, Bounds DEF Worth, IdealRange
    <3> QED
      BY <3>1, <3>2
  <2>5. Worth(b) >= ideal
    BY <1>c, <2>4, FieldsType, RefilledCovers DEF Typed, IdealRange
  <2>6. Rate >= 1 => b.age = sinceClock[r]
    BY FieldsType, RefilledAge DEF Typed
  <2> HIDE DEF b
  <2>7. \A q \in TokenRequests \ {r} : stage'[q] = stage[q] /\ seen'[q] = seen[q]
    BY <1>3 DEF DeductRead, Typed, TokenTypeOK
  <2>8. ASSUME NEW q \in TokenRequests, stage'[q] = "writing"
        PROVE  Worth(seen'[q]) + used[q] >= ideal /\ (Rate >= 1 => seen'[q].age = sinceClock[q])
    <3>1. CASE q # r
      BY <1>c, <2>7, <2>8, <3>1 DEF WriteCovers
    <3>2. CASE q = r
      BY <2>2, <2>3, <2>5, <2>6, <3>2
    <3> QED
      BY <3>1, <3>2
  <2> QED
    BY <1>c, <2>1, <2>8 DEF Covered, IdealRange, BucketCovers, WriteCovers, BucketFloor, Worth
<1>4. ASSUME NEW r \in TokenRequests, DeductWrite(r) PROVE Covered'
  <2>1. /\ stage[r] = "writing" /\ NextCallback(r) /\ live' = TRUE /\ bucket' = seen[r]
        /\ ideal - used[r] >= -MaxOwed /\ ideal' = ideal - used[r]
    BY <1>4 DEF DeductWrite
  <2>2. Worth(seen[r]) + used[r] >= ideal
    BY <1>c, <2>1 DEF WriteCovers
  <2>3. IdealRange' /\ BucketCovers'
    BY <1>c, <2>1, <2>2, SeenType, Bounds DEF IdealRange, BucketCovers, Worth
  <2>4. BucketFloor'
    BY <1>c, <2>1, SeenFloor DEF BucketFloor
  <2>5. ASSUME NEW q \in TokenRequests, stage'[q] = "writing"
        PROVE  Worth(seen'[q]) + used'[q] >= ideal' /\ (Rate >= 1 => seen'[q].age = sinceClock'[q])
    <3>1. q # r
      BY <2>1, <2>5, CallbackFrame
    <3>2. stage'[q] = stage[q] /\ seen'[q] = seen[q] /\ used'[q] = used[q] /\ sinceClock'[q] = sinceClock[q]
      BY <2>1, <3>1, CallbackFrame
    <3>3. Worth(seen[q]) + used[q] >= ideal /\ (Rate >= 1 => seen[q].age = sinceClock[q])
      BY <1>c, <2>5, <3>2 DEF WriteCovers
    <3> QED
      BY <1>c, <2>1, <3>2, <3>3, SeenType DEF IdealRange
  <2> QED
    BY <2>3, <2>4, <2>5 DEF Covered, WriteCovers, Worth
<1>5. ASSUME NEW r \in TokenRequests, DeductFails(r) PROVE Covered'
  <2>1. NextCallback(r) /\ UNCHANGED <<live, bucket, ideal>>
    BY <1>5 DEF DeductFails, hash, history
  <2>2. ASSUME NEW q \in TokenRequests, stage'[q] = "writing"
        PROVE  Worth(seen'[q]) + used'[q] >= ideal /\ (Rate >= 1 => seen'[q].age = sinceClock'[q])
    <3>1. q # r
      BY <2>1, <2>2, CallbackFrame
    <3> QED
      BY <1>c, <2>1, <2>2, <3>1, CallbackFrame DEF WriteCovers
  <2> QED
    BY <1>c, <2>1, <2>2 DEF Covered, IdealRange, BucketCovers, WriteCovers, BucketFloor, Worth
<1>6. CASE Expire
  <2>1. live' = FALSE /\ bucket' = Full /\ UNCHANGED <<ideal, stage, sinceClock, seen, used>>
    BY <1>6 DEF Expire, history
  <2>2. Full.tokens = Burst
    BY FullType
  <2> QED
    BY <1>c, <1>e, <2>1, <2>2, Bounds
      DEF Covered, IdealRange, BucketCovers, WriteCovers, BucketFloor, Worth
<1>7. CASE TokenTick
  <2>1. /\ UNCHANGED <<live, stage, used>> /\ ideal' = Smaller(Burst, ideal + Rate)
        /\ bucket' = IF live THEN Older(bucket) ELSE bucket
    BY <1>7 DEF TokenTick, Rate
  <2>2. IdealRange'
    BY <1>c, <2>1, RateType, Bounds DEF IdealRange, Smaller
  <2>3. BucketCovers'
    BY <1>c, <2>1, BucketType, OlderCovers DEF BucketCovers, IdealRange, BucketFloor, Worth
  <2>4. BucketFloor'
    BY <1>c, <2>1, BucketType, OlderType DEF BucketFloor
  <2>5. ASSUME NEW q \in TokenRequests, stage'[q] = "writing"
        PROVE  Worth(seen'[q]) + used[q] >= ideal' /\ (Rate >= 1 => seen'[q].age = sinceClock'[q])
    <3>1. stage[q] = "writing" /\ seen'[q] = Older(seen[q]) /\ sinceClock[q] < Delay
          /\ sinceClock'[q] = sinceClock[q] + 1
      BY <1>7, <2>5 DEF TokenTick, Busy, Deducting
    <3>2. Worth(seen[q]) + used[q] >= ideal /\ (Rate >= 1 => seen[q].age = sinceClock[q])
      BY <1>c, <3>1 DEF WriteCovers
    <3>3. /\ seen[q] \in Buckets /\ Worth(seen[q]) \in Int /\ seen[q].age \in Nat /\ used[q] \in Nat
          /\ sinceClock[q] \in Nat /\ Delay <= MaxAge /\ Delay \in Nat /\ MaxAge \in Nat
          /\ Older(seen[q]) \in Buckets
      BY SeenType, DelayFits, Bounds, OlderType, Delay \in 0..Delay
    <3>4. CASE Rate >= 1
      <4>1. seen[q].age < MaxAge
        BY <3>1, <3>2, <3>3, <3>4
      <4>2. Worth(Older(seen[q])) = Worth(seen[q]) + Rate
        BY <3>3, <4>1, OlderWorth
      <4>3. Older(seen[q]).age = seen[q].age + 1
        BY <3>3, <4>1, OlderType DEF Smaller
      <4> QED
        BY <1>c, <2>1, <3>1, <3>2, <3>3, <3>4, <4>2, <4>3, RateType, Bounds
          DEF IdealRange, Smaller
    <3>5. CASE ~(Rate >= 1)
      <4>1. Rate = 0
        BY <3>5, RateType
      <4>2. Worth(Older(seen[q])) >= Worth(seen[q]) /\ Worth(Older(seen[q])) \in Int
        BY <3>3, OlderWorth, WorthType
      <4> QED
        BY <1>c, <2>1, <3>1, <3>2, <3>3, <3>5, <4>1, <4>2, Bounds DEF IdealRange, Smaller
    <3> QED
      BY <3>4, <3>5
  <2> QED
    BY <2>1, <2>2, <2>3, <2>4, <2>5 DEF Covered, WriteCovers, Worth
<1>8. CASE UNCHANGED tokenVars
  BY <1>c, <1>8 DEF tokenVars, hash, history, Covered, IdealRange, BucketCovers,
     WriteCovers, BucketFloor, Worth
<1> QED
  BY <1>1, <1>2, <1>3, <1>4, <1>5, <1>6, <1>7, <1>8 DEF TokenNext, Asides

\* What Redis holds covers is what the next request finds.
LEMMA BalanceCovers ==
    ASSUME Typed, NEW w \in Int, w <= Burst, TtlRuns => w <= Worth(bucket)
    PROVE  Balance >= w
<1>1. CASE TtlRuns
  <2>1. w <= Worth(Refilled(bucket, 0))
    BY <1>1, BucketType, RefilledCovers, Bounds, 0 \in 0..Delay
  <2> QED
    BY <1>1, <2>1, BucketType, RefilledNow DEF Balance
<1>2. CASE ~TtlRuns
  BY <1>2, Bounds DEF Balance
<1> QED
  BY <1>1, <1>2

\* Both hold in every state.
LEMMA CoveredAlways == TokenSpec => [](Typed /\ Covered)
<1>1. TokenInit => Typed /\ Covered
  BY TypedInit, CoveredInit
<1>2. Typed /\ Covered /\ [TokenNext]_tokenVars => (Typed /\ Covered)'
  BY TypedStep, CoveredStep
<1> QED
  BY <1>1, <1>2, PTL DEF TokenSpec

\* Every reachable state has the declared types.
THEOREM TokenTypeCorrect == TokenSpec => []TokenTypeOK
<1>1. Typed /\ Covered => TokenTypeOK
  BY DEF Typed
<1> QED
  BY <1>1, CoveredAlways, PTL

\* However stale what a deduction writes back, and whatever calls are lost and
\* keys expire, the balance is not below that of the bookings: an overtaken write
\* forgets, and never takes more than the callbacks booked.
THEOREM StaleWritesForgive == TokenSpec => []NeverBelowBookings
<1>1. Typed /\ Covered => NeverBelowBookings
  BY BalanceCovers DEF Covered, IdealRange, BucketCovers, NeverBelowBookings, TtlRuns
<1> QED
  BY <1>1, CoveredAlways, PTL

-----------------------------------------------------------------------------
(* Which bookings are forgotten.                                           *)

\* A key without a TTL counts as full: then nobody owes anything.
RestedIsFull == ~leaked /\ ~TtlRuns => ideal = Burst

\* A deduction meets a bucket that was written before it read its clock.
ReadInOrder ==
    ~leaked /\ live =>
        \A r \in TokenRequests :
            stage[r] \in {"timing", "reading"} => sinceClock[r] <= bucket.age

\* What Redis holds is no more than the balance of all bookings and what was
\* earned while a deduction took its time,
BucketKept ==
    ~leaked /\ TtlRuns => ideal = Burst \/ Worth(bucket) <= ideal + Earned(Delay)

\* and so is what a deduction will write, before its own booking.
WriteKept ==
    ~leaked =>
        \A r \in TokenRequests : stage[r] = "writing" =>
            /\ seen[r].tokens + used[r] <= Burst
            /\ ideal = Burst \/ Worth(seen[r]) + used[r] <= ideal + Earned(Delay)

\* The invariant behind UsesPersist.
BalanceKept == RestedIsFull /\ ReadInOrder /\ BucketKept /\ WriteKept

\* Nothing is used yet.
LEMMA BalanceKeptInit == TokenInit => BalanceKept
BY DEF TokenInit, BalanceKept, RestedIsFull, ReadInOrder, BucketKept, WriteKept, TtlRuns

\* At a whole rate every step that forgets a booking is one that sets leaked.
LEMMA BalanceKeptStep ==
    ASSUME WholeRate
    PROVE  Typed /\ Covered /\ BalanceKept /\ [TokenNext]_tokenVars => BalanceKept'
<1> SUFFICES ASSUME Typed, Covered, BalanceKept, [TokenNext]_tokenVars PROVE BalanceKept'
  OBVIOUS
<1>c. IdealRange /\ WriteCovers
  BY DEF Covered
<1>k. RestedIsFull /\ ReadInOrder /\ BucketKept /\ WriteKept
  BY DEF BalanceKept
<1>e. Earned(Delay) \in Nat
  BY EarnedType, Bounds
<1>o. Rate >= 1
  BY WholeRateAtLeastOne
<1>1. ASSUME NEW r \in TokenRequests, Asides(r) PROVE BalanceKept'
  <2>1. RestedIsFull' /\ BucketKept'
    BY <1>k, <1>1, AsideFrame DEF RestedIsFull, BucketKept, TtlRuns, Worth
  <2>2. ReadInOrder'
    <3>1. SUFFICES ASSUME ~leaked', live', NEW q \in TokenRequests,
                          stage'[q] \in {"timing", "reading"}
                   PROVE  sinceClock'[q] <= bucket'.age
      BY DEF ReadInOrder
    <3>2. UNCHANGED <<live, bucket, leaked>> /\ bucket.age \in Nat
      BY <1>1, AsideFrame, BucketType
    <3>3. \/ sinceClock'[q] = 0
          \/ stage[q] = stage'[q] /\ sinceClock'[q] = sinceClock[q]
      BY <1>1, <3>1, AsideFrame
    <3> QED
      BY <1>k, <3>1, <3>2, <3>3 DEF ReadInOrder
  <2>3. WriteKept'
    BY <1>k, <1>1, AsideFrame DEF WriteKept, Worth
  <2> QED
    BY <2>1, <2>2, <2>3 DEF BalanceKept
<1>2. ASSUME NEW r \in TokenRequests, DeductTtl(r) PROVE BalanceKept'
  <2>1. UNCHANGED <<live, bucket, left, ideal, leaked, used>>
    BY <1>2 DEF DeductTtl, hash, history
  <2>2. \A q \in TokenRequests \ {r} :
           stage'[q] = stage[q] /\ seen'[q] = seen[q] /\ sinceClock'[q] = sinceClock[q]
    BY <1>2 DEF DeductTtl, Typed, TokenTypeOK
  <2>3. sinceClock'[r] = sinceClock[r] /\ stage[r] = "timing"
    BY <1>2 DEF DeductTtl
  <2>4. ReadInOrder'
    BY <1>k, <2>1, <2>2, <2>3 DEF ReadInOrder
  <2>5. ASSUME ~leaked, NEW q \in TokenRequests, stage'[q] = "writing"
        PROVE  /\ seen'[q].tokens + used[q] <= Burst
               /\ ideal = Burst \/ Worth(seen'[q]) + used[q] <= ideal + Earned(Delay)
    <3>1. CASE q # r
      BY <1>k, <2>2, <2>5, <3>1 DEF WriteKept
    <3>2. CASE q = r
      <4>1. seen'[r] = [tokens |-> Burst - used[r], age |-> sinceClock[r]] /\ ~TtlRuns
        BY <1>2, <2>5, <3>2 DEF DeductTtl, Typed, TokenTypeOK
      <4> QED
        BY <1>k, <2>5, <3>2, <4>1, SeenType, Bounds DEF RestedIsFull
    <3> QED
      BY <3>1, <3>2
  <2> QED
    BY <1>k, <2>1, <2>4, <2>5 DEF BalanceKept, RestedIsFull, BucketKept, WriteKept, TtlRuns,
       Worth
<1>3. ASSUME NEW r \in TokenRequests, DeductRead(r) PROVE BalanceKept'
  <2>1. /\ UNCHANGED <<live, bucket, left, ideal, leaked, used, sinceClock>>
        /\ stage[r] = "reading" /\ stage'[r] = "writing"
        /\ \A q \in TokenRequests \ {r} : stage'[q] = stage[q] /\ seen'[q] = seen[q]
    BY <1>3 DEF DeductRead, hash, history, Typed, TokenTypeOK
  <2> DEFINE b == Refilled(Fields(r), sinceClock[r])
  <2>2. /\ b \in Buckets /\ b.tokens <= Burst /\ seen'[r] \in Buckets
        /\ seen'[r].tokens = b.tokens - used[r] /\ seen'[r].age = b.age
    BY <1>3, ReadSeen DEF Typed
  <2>3. Worth(seen'[r]) + used[r] = Worth(b) /\ seen'[r].tokens + used[r] <= Burst /\ Worth(b) \in Int
    BY <2>2, SeenType, EarnedType, Bounds DEF Worth, Buckets
  <2>4. ~leaked => ideal = Burst \/ Worth(b) <= ideal + Earned(Delay)
    <3>1. SUFFICES ASSUME ~leaked, ideal # Burst PROVE Worth(b) <= ideal + Earned(Delay)
      OBVIOUS
    <3>2. TtlRuns /\ live
      BY <1>k, <3>1 DEF RestedIsFull, TtlRuns
    <3>3. Fields(r) = bucket /\ sinceClock[r] <= bucket.age /\ Worth(bucket) <= ideal + Earned(Delay)
      BY <1>k, <2>1, <3>1, <3>2 DEF Fields, ReadInOrder, BucketKept
    <3>4. Worth(b) <= Worth(bucket)
      BY <3>3, RefilledNoGain, BucketType, SeenType
    <3> HIDE DEF b
    <3> QED
      BY <1>c, <1>e, <2>3, <3>3, <3>4, BucketType DEF IdealRange
  <2> HIDE DEF b
  <2>5. ASSUME ~leaked, NEW q \in TokenRequests, stage'[q] = "writing"
        PROVE  /\ seen'[q].tokens + used[q] <= Burst
               /\ ideal = Burst \/ Worth(seen'[q]) + used[q] <= ideal + Earned(Delay)
    <3>1. CASE q # r
      BY <1>k, <2>1, <2>5, <3>1 DEF WriteKept
    <3>2. CASE q = r
      BY <2>3, <2>4, <2>5, <3>2
    <3> QED
      BY <3>1, <3>2
  <2>6. ReadInOrder'
    BY <1>k, <2>1 DEF ReadInOrder
  <2> QED
    BY <1>k, <2>1, <2>5, <2>6 DEF BalanceKept, RestedIsFull, BucketKept, WriteKept, TtlRuns,
       Worth
<1>4. ASSUME NEW r \in TokenRequests, DeductWrite(r) PROVE BalanceKept'
  <2>1. /\ stage[r] = "writing" /\ NextCallback(r) /\ live' = TRUE /\ bucket' = seen[r]
        /\ ideal' = ideal - used[r]
        /\ leaked' = (leaked \/ left' <= 0 \/ \E q \in TokenRequests \ {r} : stage[q] \in {"timing", "reading", "writing"})
    BY <1>4 DEF DeductWrite, Deducting
  <2>2. CASE leaked'
    BY <2>2 DEF BalanceKept, RestedIsFull, ReadInOrder, BucketKept, WriteKept
  <2>3. CASE ~leaked'
    <3>1. ~leaked /\ ~(left' <= 0) /\ \A q \in TokenRequests \ {r} : stage[q] \notin {"timing", "reading", "writing"}
      BY <2>1, <2>3
    <3>2. TtlRuns'
      <4>1. left' \in Int
        BY <1>4, TtlType DEF DeductWrite, Typed, TokenTypeOK, NoTtl
      <4> QED
        BY <2>1, <3>1, <4>1 DEF TtlRuns
    <3>3. \A q \in TokenRequests : stage'[q] \notin {"timing", "reading", "writing"}
      BY <2>1, <3>1, CallbackFrame
    <3>4. Worth(seen[r]) <= ideal' + Earned(Delay)
      <4>1. /\ seen[r].tokens + used[r] <= Burst /\ seen[r].age = sinceClock[r]
            /\ ideal = Burst \/ Worth(seen[r]) + used[r] <= ideal + Earned(Delay)
        BY <1>c, <1>k, <1>o, <2>1, <3>1 DEF WriteKept, WriteCovers
      <4>2. Earned(sinceClock[r]) <= Earned(Delay) /\ Earned(sinceClock[r]) \in Nat
        BY SeenType, EarnedMore, EarnedType
      <4>3. CASE ideal = Burst
        BY <1>c, <1>e, <2>1, <4>1, <4>2, <4>3, SeenType, Bounds DEF Worth, IdealRange
      <4>4. CASE Worth(seen[r]) + used[r] <= ideal + Earned(Delay)
        BY <1>c, <1>e, <2>1, <4>4, SeenType DEF IdealRange
      <4> QED
        BY <4>1, <4>3, <4>4
    <3>5. BucketKept'
      BY <2>1, <3>4 DEF BucketKept, Worth
    <3> QED
      BY <3>2, <3>3, <3>5 DEF BalanceKept, RestedIsFull, ReadInOrder, WriteKept
  <2> QED
    BY <2>2, <2>3
<1>5. ASSUME NEW r \in TokenRequests, DeductFails(r) PROVE BalanceKept'
  <2>1. NextCallback(r) /\ UNCHANGED <<live, bucket, left, ideal, leaked>>
    BY <1>5 DEF DeductFails, hash, history
  <2>2. \A q \in TokenRequests : stage'[q] \in {"timing", "reading", "writing"} =>
           stage'[q] = stage[q] /\ seen'[q] = seen[q] /\ used'[q] = used[q] /\ sinceClock'[q] = sinceClock[q]
    BY <2>1, CallbackFrame
  <2>3. RestedIsFull' /\ BucketKept'
    BY <1>k, <2>1 DEF RestedIsFull, BucketKept, TtlRuns, Worth
  <2>4. ReadInOrder' /\ WriteKept'
    BY <1>k, <2>1, <2>2 DEF ReadInOrder, WriteKept, Worth
  <2> QED
    BY <2>3, <2>4 DEF BalanceKept
<1>6. CASE Expire
  <2>1. live' = FALSE /\ live /\ left = 0 /\ UNCHANGED <<ideal, leaked, stage, sinceClock, seen, used>>
    BY <1>6 DEF Expire, history
  <2>2. ~leaked => ideal = Burst
    BY <1>k, <2>1 DEF RestedIsFull, TtlRuns
  <2>3. ~TtlRuns'
    BY <2>1 DEF TtlRuns
  <2> QED
    BY <1>k, <2>1, <2>2, <2>3 DEF BalanceKept, RestedIsFull, ReadInOrder, BucketKept,
       WriteKept, Worth
<1>7. CASE TokenTick
  <2>1. /\ UNCHANGED <<live, stage, used>> /\ ideal' = Smaller(Burst, ideal + Rate)
        /\ bucket' = IF live THEN Older(bucket) ELSE bucket
        /\ left' = IF live /\ left # NoTtl THEN left - 1 ELSE left
        /\ leaked' = (leaked \/ (live /\ left = 1 /\ ideal' < Burst))
    BY <1>7 DEF TokenTick, Rate
  <2>l. left \in {NoTtl} \cup Nat
    BY TtlType DEF Typed, TokenTypeOK
  <2>2. ideal' \in Int /\ ideal' <= Burst /\ (ideal = Burst => ideal' = Burst)
        /\ (ideal' = Burst \/ ideal' = ideal + Rate)
    BY <1>c, <2>1, RateType, Bounds DEF IdealRange, Smaller
  <2>3. RestedIsFull'
    <3>1. SUFFICES ASSUME ~leaked', ~TtlRuns' PROVE ideal' = Burst
      BY DEF RestedIsFull
    <3>2. CASE TtlRuns
      <4>1. live /\ left = 1
        BY <2>1, <2>l, <3>1, <3>2 DEF TtlRuns, NoTtl
      <4>2. ~(ideal' < Burst)
        BY <2>1, <3>1, <4>1
      <4> QED
        BY <2>2, <4>2, Bounds
    <3>3. CASE ~TtlRuns
      BY <1>k, <2>1, <2>2, <3>1, <3>3 DEF RestedIsFull
    <3> QED
      BY <3>2, <3>3
  <2>4. ~leaked' => ~leaked
    BY <2>1
  <2>5. TtlRuns' => TtlRuns
    BY <2>1, <2>l DEF TtlRuns, NoTtl
  <2>6. BucketKept'
    <3>1. SUFFICES ASSUME ~leaked', TtlRuns', ideal' # Burst
                   PROVE  Worth(bucket') <= ideal' + Earned(Delay)
      BY DEF BucketKept, Worth
    <3>2. ideal' = ideal + Rate /\ Worth(bucket) <= ideal + Earned(Delay) /\ bucket' = Older(bucket)
      BY <1>k, <2>1, <2>2, <2>4, <2>5, <3>1 DEF BucketKept, TtlRuns
    <3>3. Worth(bucket') <= Worth(bucket) + Rate /\ Worth(bucket') \in Int
      BY <3>2, BucketType, OlderWorth, OlderType, WorthType
    <3> QED
      BY <1>c, <1>e, <3>2, <3>3, BucketType, RateType DEF IdealRange
  <2>7. ReadInOrder'
    <3>1. SUFFICES ASSUME ~leaked', live', NEW q \in TokenRequests,
                          stage'[q] \in {"timing", "reading"}
                   PROVE  sinceClock'[q] <= bucket'.age
      BY DEF ReadInOrder
    <3>2. stage[q] \in {"timing", "reading"} /\ sinceClock'[q] = sinceClock[q] + 1
          /\ sinceClock[q] < Delay
      BY <1>7, <3>1 DEF TokenTick, Busy, Deducting
    <3>3. sinceClock[q] <= bucket.age /\ bucket' = Older(bucket)
      BY <1>k, <2>1, <2>4, <3>1, <3>2 DEF ReadInOrder
    <3>4. bucket'.age = Smaller(bucket.age + 1, MaxAge)
      BY <3>3, BucketType, OlderType
    <3>5. Delay <= MaxAge /\ MaxAge \in Nat
      BY DelayFits, Bounds, Delay \in 0..Delay
    <3> QED
      BY <3>2, <3>3, <3>4, <3>5, BucketType, SeenType DEF Smaller
  <2>8. ASSUME ~leaked', NEW q \in TokenRequests, stage'[q] = "writing"
        PROVE  /\ seen'[q].tokens + used'[q] <= Burst
               /\ ideal' = Burst \/ Worth(seen'[q]) + used'[q] <= ideal' + Earned(Delay)
    <3>1. stage[q] = "writing" /\ seen'[q] = Older(seen[q]) /\ used'[q] = used[q]
      BY <1>7, <2>8 DEF TokenTick
    <3>2. /\ seen[q].tokens + used[q] <= Burst
          /\ ideal = Burst \/ Worth(seen[q]) + used[q] <= ideal + Earned(Delay)
      BY <1>k, <2>4, <2>8, <3>1 DEF WriteKept
    <3>3. /\ Older(seen[q]).tokens = seen[q].tokens /\ Worth(Older(seen[q])) <= Worth(seen[q]) + Rate
          /\ Worth(Older(seen[q])) \in Int
      BY SeenType, OlderType, OlderWorth, WorthType
    <3> QED
      BY <1>c, <1>e, <2>2, <3>1, <3>2, <3>3, SeenType, RateType DEF IdealRange
  <2> QED
    BY <2>3, <2>6, <2>7, <2>8 DEF BalanceKept, WriteKept, Worth
<1>8. CASE UNCHANGED tokenVars
  BY <1>k, <1>8 DEF tokenVars, hash, history, BalanceKept, RestedIsFull, ReadInOrder,
     BucketKept, WriteKept, TtlRuns, Worth
<1> QED
  BY <1>1, <1>2, <1>3, <1>4, <1>5, <1>6, <1>7, <1>8 DEF TokenNext, Asides

\* At a whole rate a booking is forgotten only by overlapping deductions, a lost
\* EXPIRE or a key that expires before its debt is paid.  At other rates a
\* refill brings up to a token that the history, which rounds every second,
\* does not count.
THEOREM UseForgottenForAReason ==
    ASSUME WholeRate PROVE TokenSpec => []UsesPersist
<1>1. TokenInit => BalanceKept
  BY BalanceKeptInit
<1>2. Typed /\ Covered /\ BalanceKept /\ [TokenNext]_tokenVars => BalanceKept'
  BY BalanceKeptStep
<1>3. Typed /\ Covered /\ BalanceKept => UsesPersist
  <2>1. SUFFICES ASSUME Typed, Covered, BalanceKept, ~leaked PROVE Balance <= ideal + Refill(Delay)
    BY DEF UsesPersist
  <2>2. IdealRange /\ RestedIsFull /\ BucketKept
    BY <2>1 DEF Covered, BalanceKept
  <2>3. Refill(Delay) = Earned(Delay) /\ Earned(Delay) \in Nat
    <3>1. Refill(Delay - 0) = Earned(Delay) - Earned(0)
      BY RefillWhole, Bounds
    <3> QED
      BY <3>1, EarnedNone, EarnedType, Bounds
  <2>4. CASE ~TtlRuns
    BY <2>1, <2>2, <2>3, <2>4, Bounds DEF RestedIsFull, Balance
  <2>5. CASE TtlRuns
    <3>1. /\ Balance = Worth(Refilled(bucket, 0)) /\ Balance <= Burst /\ Balance \in Int
          /\ Worth(Refilled(bucket, 0)) <= Worth(bucket)
      <4>1. Refilled(bucket, 0) \in Buckets /\ Refilled(bucket, 0).tokens <= Burst
        BY <2>1, BucketType, RefilledType, Bounds, 0 \in 0..Delay
      <4>2. Refilled(bucket, 0).tokens \in Int
        BY <4>1 DEF Buckets
      <4> QED
        BY <2>1, <2>5, <4>1, <4>2, BucketType, RefilledNow, RefilledNoGain, WorthType,
           Bounds, 0 \in 0..Delay DEF Balance
    <3> QED
      BY <2>1, <2>2, <2>3, <2>5, <3>1, BucketType, Bounds DEF BucketKept, IdealRange
  <2> QED
    BY <2>4, <2>5
<1> QED
  BY <1>1, <1>2, <1>3, CoveredAlways, PTL DEF TokenSpec

-----------------------------------------------------------------------------
(* How far the bucket can be overdrawn.                                    *)

\* The attempts of all requests, and those that have yet to pay: the
\* callbacks of a request are the attempts 1..callbacks[r].
Attempts == TokenRequests \X (1..MaxAttempts)
Pending == {p \in Attempts : p[2] <= callbacks[p[1]]}

\* The balance that is left when all attempts but those of P took MaxUse.
Room(P) == 1 - (Cardinality(TokenRequests) * MaxAttempts - Cardinality(P)) * MaxUse

\* There are MaxAttempts of them for each request.
LEMMA AttemptsCount ==
    ASSUME IsFiniteSet(TokenRequests)
    PROVE  /\ IsFiniteSet(Attempts) /\ Cardinality(TokenRequests) \in Nat
           /\ Cardinality(Attempts) = Cardinality(TokenRequests) * MaxAttempts
           /\ Cardinality(Attempts) \in Nat
<1>1. IsFiniteSet(1..MaxAttempts) /\ Cardinality(1..MaxAttempts) = MaxAttempts
  <2>1. 1 \in Int /\ MaxAttempts \in Int /\ ~(1 > MaxAttempts) /\ MaxAttempts - 1 + 1 = MaxAttempts
    BY Bounds
  <2>2. /\ IsFiniteSet(1..MaxAttempts)
        /\ Cardinality(1..MaxAttempts) = IF 1 > MaxAttempts THEN 0 ELSE MaxAttempts - 1 + 1
    BY <2>1, FS_Interval
  <2> QED
    BY <2>1, <2>2
<1>2. IsFiniteSet(Attempts) /\ Cardinality(Attempts) = Cardinality(TokenRequests) * Cardinality(1..MaxAttempts)
  BY <1>1, FS_Product DEF Attempts
<1>3. Cardinality(Attempts) \in Nat /\ Cardinality(TokenRequests) \in Nat
  BY <1>2, FS_CardinalityType
<1> QED
  BY <1>1, <1>2, <1>3

\* The room is at most 1, and least when everything is paid.
LEMMA RoomType ==
    ASSUME IsFiniteSet(TokenRequests), NEW P \in SUBSET Attempts
    PROVE  /\ IsFiniteSet(P) /\ Cardinality(P) \in Nat
           /\ Room(P) \in Int /\ Room(P) <= 1
           /\ Room(P) >= 1 - Cardinality(TokenRequests) * MaxAttempts * MaxUse
<1> DEFINE n == Cardinality(TokenRequests) * MaxAttempts
           c == Cardinality(P)
<1>1. n \in Nat /\ Cardinality(Attempts) = n /\ IsFiniteSet(Attempts)
  BY AttemptsCount
<1>2. IsFiniteSet(P) /\ c <= n
  BY <1>1, FS_Subset
<1>3. c \in Nat
  BY <1>2, FS_CardinalityType
<1>4. Room(P) = 1 - (n - c) * MaxUse
  BY DEF Room
<1> HIDE DEF n, c
<1>5. n - c \in Nat /\ (n - c) * MaxUse \in Nat /\ n * MaxUse = (n - c) * MaxUse + c * MaxUse /\ c * MaxUse \in Nat
  BY <1>1, <1>2, <1>3, Bounds
<1>6. Room(P) \in Int /\ Room(P) <= 1 /\ Room(P) >= 1 - n * MaxUse
  BY <1>4, <1>5
<1> QED
  BY <1>2, <1>3, <1>6 DEF n, c

\* With fewer attempts pending less room is needed,
LEMMA RoomShrinks ==
    ASSUME IsFiniteSet(TokenRequests), NEW P \in SUBSET Attempts, NEW Q \in SUBSET P
    PROVE  Room(Q) <= Room(P)
<1> DEFINE n == Cardinality(TokenRequests) * MaxAttempts
           c == Cardinality(P)
           d == Cardinality(Q)
<1>1. c \in Nat /\ IsFiniteSet(P) /\ d \in Nat /\ n \in Nat
  BY RoomType, AttemptsCount
<1>2. d <= c
  BY <1>1, FS_Subset
<1>3. Room(P) = 1 - (n - c) * MaxUse /\ Room(Q) = 1 - (n - d) * MaxUse
  BY DEF Room
<1> HIDE DEF n, c, d
<1>4. (n - d) * MaxUse = (n - c) * MaxUse + (c - d) * MaxUse /\ (c - d) * MaxUse \in Nat
      /\ (n - c) * MaxUse \in Int
  BY <1>1, <1>2, Bounds
<1> QED
  BY <1>3, <1>4

\* by MaxUse for each.
LEMMA RoomPaid ==
    ASSUME IsFiniteSet(TokenRequests), NEW P \in SUBSET Attempts, NEW x \in P
    PROVE  Room(P \ {x}) = Room(P) - MaxUse
<1> DEFINE n == Cardinality(TokenRequests) * MaxAttempts
           c == Cardinality(P)
<1>1. c \in Nat /\ IsFiniteSet(P) /\ n \in Nat
  BY RoomType, AttemptsCount
<1>2. Cardinality(P \ {x}) = c - 1
  BY <1>1, FS_RemoveElement
<1>3. Room(P) = 1 - (n - c) * MaxUse /\ Room(P \ {x}) = 1 - (n - (c - 1)) * MaxUse
  BY <1>2 DEF Room
<1> HIDE DEF n, c
<1>4. (n - (c - 1)) * MaxUse = (n - c) * MaxUse + MaxUse /\ (n - c) * MaxUse \in Int
  BY <1>1, Bounds
<1> QED
  BY <1>3, <1>4, Bounds

\* While nothing is forgotten there is room in Redis for what is pending,
BucketRoom == ~leaked /\ live => Worth(bucket) >= Room(Pending)

\* and in what a deduction will write, which is no staler than Redis.
WriteRoom ==
    ~leaked =>
        \A r \in TokenRequests : stage[r] = "writing" =>
            /\ Worth(seen[r]) + used[r] >= Room(Pending)
            /\ live => Worth(seen[r]) + used[r] >= Smaller(Burst, Worth(bucket))

\* The invariant behind OverdraftBounded.
RoomKept == BucketRoom /\ WriteRoom

\* There is no key yet.
LEMMA RoomKeptInit == TokenInit => RoomKept
BY DEF TokenInit, RoomKept, BucketRoom, WriteRoom

\* An attempt is added only where the bucket counts as full or has a token.
LEMMA AsidePending ==
    ASSUME Typed, NEW r \in TokenRequests, Asides(r)
    PROVE  \/ Pending' \subseteq Pending
           \/ ~TtlRuns
           \/ Enough(Refilled(Fields(r), sinceClock[r]))
<1>t. callbacks \in [TokenRequests -> 0..MaxAttempts] /\ MaxAttempts \in Nat
  BY Bounds DEF Typed, TokenTypeOK
<1>1. ASSUME Leave(r) PROVE Pending' \subseteq Pending
  <2>1. callbacks' = [callbacks EXCEPT ![r] = 0]
    BY <1>1 DEF Leave
  <2>2. \A q \in TokenRequests : callbacks'[q] <= callbacks[q] /\ callbacks'[q] \in Int /\ callbacks[q] \in Int
    BY <1>t, <2>1
  <2> QED
    BY <2>2 DEF Pending, Attempts
<1>2. ASSUME UNCHANGED callbacks PROVE Pending' \subseteq Pending
  BY <1>2 DEF Pending
<1> QED
  BY <1>1, <1>2 DEF Asides, AllowClock, AllowTtl, AllowRead, Refuse, Retry, EndUnpaid, Answer,
     DeductClock

\* A callback that is done pays one attempt.
LEMMA CallbackPending ==
    ASSUME Typed, NEW r \in TokenRequests, callbacks[r] > 0, NextCallback(r)
    PROVE  /\ <<r, callbacks[r]>> \in Pending
           /\ Pending' = Pending \ {<<r, callbacks[r]>>}
<1>1. /\ callbacks \in [TokenRequests -> 0..MaxAttempts] /\ MaxAttempts \in Nat
      /\ callbacks' = [callbacks EXCEPT ![r] = @ - 1]
  BY Bounds DEF Typed, TokenTypeOK, NextCallback
<1>2. <<r, callbacks[r]>> \in Pending
  BY <1>1 DEF Pending, Attempts
<1>3. ASSUME NEW q \in TokenRequests, NEW k \in 1..MaxAttempts
      PROVE  (k <= callbacks'[q]) <=> (k <= callbacks[q] /\ <<q, k>> # <<r, callbacks[r]>>)
  BY <1>1
<1>4. \A p \in Attempts : p \in Pending' <=> p \in Pending \ {<<r, callbacks[r]>>}
  BY <1>3 DEF Pending, Attempts
<1> QED
  BY <1>2, <1>4 DEF Pending

\* An attempt is added only when there is a token, and every other step takes
\* no more from the bucket than from the room.
LEMMA RoomKeptStep ==
    ASSUME WholeRate, IsFiniteSet(TokenRequests)
    PROVE  Typed /\ Covered /\ BalanceKept /\ RoomKept /\ [TokenNext]_tokenVars => RoomKept'
<1> SUFFICES ASSUME Typed, Covered, BalanceKept, RoomKept, [TokenNext]_tokenVars PROVE RoomKept'
  OBVIOUS
<1>c. IdealRange /\ BucketCovers /\ WriteCovers /\ RestedIsFull
  BY DEF Covered, BalanceKept
<1>h. BucketRoom /\ WriteRoom
  BY DEF RoomKept
<1>r. Pending \in SUBSET Attempts /\ Room(Pending) \in Int /\ Room(Pending) <= 1
  <2>1. Pending \in SUBSET Attempts
    BY DEF Pending
  <2> QED
    BY <2>1, RoomType
<1>p. Pending' \in SUBSET Attempts /\ Room(Pending') \in Int /\ Room(Pending') <= 1
  <2>1. Pending' \in SUBSET Attempts
    BY DEF Pending
  <2> QED
    BY <2>1, RoomType
<1>1. ASSUME NEW r \in TokenRequests, Asides(r) PROVE RoomKept'
  <2>1. /\ UNCHANGED <<live, bucket, leaked>>
        /\ \A q \in TokenRequests : stage'[q] = "writing" =>
              stage[q] = "writing" /\ seen'[q] = seen[q] /\ used'[q] = used[q]
    BY <1>1, AsideFrame
  <2>2. CASE Pending' \subseteq Pending
    <3>1. Room(Pending') <= Room(Pending)
      BY <1>r, <2>2, RoomShrinks
    <3>2. BucketRoom'
      BY <1>h, <1>r, <1>p, <2>1, <3>1, BucketType DEF BucketRoom, Worth
    <3>3. ASSUME ~leaked, NEW q \in TokenRequests, stage'[q] = "writing"
          PROVE  /\ Worth(seen'[q]) + used'[q] >= Room(Pending')
                 /\ live => Worth(seen'[q]) + used'[q] >= Smaller(Burst, Worth(bucket))
      BY <1>h, <1>r, <1>p, <2>1, <3>1, <3>3, SeenType DEF WriteRoom
    <3> QED
      BY <2>1, <3>2, <3>3 DEF RoomKept, WriteRoom, Worth
  <2>3. CASE ~TtlRuns
    <3>1. ~leaked => ideal = Burst
      BY <1>c, <2>3 DEF RestedIsFull
    <3>2. BucketRoom'
      BY <1>c, <1>p, <2>1, <3>1, BucketType, Bounds DEF BucketRoom, BucketCovers, Worth
    <3>3. ASSUME ~leaked, NEW q \in TokenRequests, stage'[q] = "writing"
          PROVE  /\ Worth(seen'[q]) + used'[q] >= Room(Pending')
                 /\ live => Worth(seen'[q]) + used'[q] >= Smaller(Burst, Worth(bucket))
      <4>1. Worth(seen[q]) + used[q] >= Burst
        BY <1>c, <2>1, <3>1, <3>3 DEF WriteCovers
      <4> QED
        BY <1>p, <2>1, <3>3, <4>1, SeenType, BucketType, Bounds DEF Smaller
    <3> QED
      BY <2>1, <3>2, <3>3 DEF RoomKept, WriteRoom, Worth
  <2>4. CASE TtlRuns /\ Enough(Refilled(Fields(r), sinceClock[r]))
    <3>1. live /\ Fields(r) = bucket
      BY <2>4 DEF TtlRuns, Fields
    <3>2. Worth(bucket) >= 1
      BY <2>4, <3>1, EnoughIsWorth, BucketType, SeenType
    <3>3. BucketRoom'
      BY <1>p, <2>1, <3>2, BucketType DEF BucketRoom, Worth
    <3>4. ASSUME ~leaked, NEW q \in TokenRequests, stage'[q] = "writing"
          PROVE  /\ Worth(seen'[q]) + used'[q] >= Room(Pending')
                 /\ live => Worth(seen'[q]) + used'[q] >= Smaller(Burst, Worth(bucket))
      <4>1. Worth(seen[q]) + used[q] >= Smaller(Burst, Worth(bucket))
        BY <1>h, <2>1, <3>1, <3>4 DEF WriteRoom
      <4> QED
        BY <1>p, <2>1, <3>2, <3>4, <4>1, SeenType, BucketType, Bounds DEF Smaller
    <3> QED
      BY <2>1, <3>3, <3>4 DEF RoomKept, WriteRoom, Worth
  <2> QED
    BY <1>1, <2>2, <2>3, <2>4, AsidePending
<1>2. ASSUME NEW r \in TokenRequests, DeductTtl(r) PROVE RoomKept'
  <2>1. UNCHANGED <<live, bucket, leaked, used, callbacks>> /\ Pending' = Pending
    BY <1>2 DEF DeductTtl, hash, history, Pending
  <2>2. ASSUME ~leaked, NEW q \in TokenRequests, stage'[q] = "writing"
        PROVE  /\ Worth(seen'[q]) + used[q] >= Room(Pending)
               /\ live => Worth(seen'[q]) + used[q] >= Smaller(Burst, Worth(bucket))
    <3>1. CASE q # r
      <4>1. stage[q] = "writing" /\ seen'[q] = seen[q]
        BY <1>2, <2>2, <3>1 DEF DeductTtl, Typed, TokenTypeOK
      <4> QED
        BY <1>h, <2>2, <4>1 DEF WriteRoom
    <3>2. CASE q = r
      <4>1. seen'[r] = [tokens |-> Burst - used[r], age |-> sinceClock[r]]
        BY <1>2, <2>2, <3>2 DEF DeductTtl, Typed, TokenTypeOK
      <4>2. Earned(sinceClock[r]) \in Nat
        BY SeenType, EarnedType
      <4>3. Worth(seen'[r]) + used[r] >= Burst /\ Worth(seen'[r]) \in Int
        BY <4>1, <4>2, SeenType, Bounds DEF Worth
      <4> QED
        BY <1>r, <3>2, <4>3, BucketType, SeenType, Bounds DEF Smaller
    <3> QED
      BY <3>1, <3>2
  <2> QED
    BY <1>h, <2>1, <2>2 DEF RoomKept, BucketRoom, WriteRoom, Worth
<1>3. ASSUME NEW r \in TokenRequests, DeductRead(r) PROVE RoomKept'
  <2>1. /\ UNCHANGED <<live, bucket, leaked, used, callbacks>> /\ Pending' = Pending
        /\ \A q \in TokenRequests \ {r} : stage'[q] = stage[q] /\ seen'[q] = seen[q]
    BY <1>3 DEF DeductRead, hash, history, Pending, Typed, TokenTypeOK
  <2> DEFINE b == Refilled(Fields(r), sinceClock[r])
             w == Smaller(Burst, Worth(Fields(r)))
  <2>2. /\ b \in Buckets /\ seen'[r] \in Buckets
        /\ seen'[r].tokens = b.tokens - used[r] /\ seen'[r].age = b.age
    BY <1>3, ReadSeen DEF Typed
  <2>3. Worth(seen'[r]) + used[r] = Worth(b) /\ Worth(b) \in Int
    BY <2>2, SeenType, EarnedType, Bounds DEF Worth, Buckets
  <2>4. Fields(r) \in Buckets /\ Worth(Fields(r)) \in Int /\ sinceClock[r] \in 0..Delay
    BY FieldsType, WorthType DEF Typed
  <2>5. w \in Int /\ w <= Burst /\ w <= Worth(Fields(r))
    BY <2>4, Bounds DEF Smaller
  <2>6. w <= Worth(b)
    BY <2>4, <2>5, RefilledCovers
  <2>7. live => Fields(r) = bucket
    BY DEF Fields
  <2>8. ~live => Worth(Fields(r)) >= Burst
    <3>1. ~live => Fields(r).tokens = Burst /\ Fields(r).age = sinceClock[r]
      BY DEF Fields
    <3> QED
      BY <3>1, SeenType, EarnedType, Bounds DEF Worth
  <2>9. ~leaked => w >= Room(Pending)
    <3>1. CASE live
      BY <1>h, <1>r, <2>4, <2>7, <3>1, Bounds DEF BucketRoom, Smaller
    <3>2. CASE ~live
      BY <1>r, <2>4, <2>8, <3>2, Bounds DEF Smaller
    <3> QED
      BY <3>1, <3>2
  <2>10. live => w = Smaller(Burst, Worth(bucket))
    BY <2>7
  <2> HIDE DEF b, w
  <2>11. ASSUME ~leaked, NEW q \in TokenRequests, stage'[q] = "writing"
         PROVE  /\ Worth(seen'[q]) + used[q] >= Room(Pending)
                /\ live => Worth(seen'[q]) + used[q] >= Smaller(Burst, Worth(bucket))
    <3>1. CASE q # r
      BY <1>h, <2>1, <2>11, <3>1 DEF WriteRoom
    <3>2. CASE q = r
      BY <1>r, <2>3, <2>5, <2>6, <2>9, <2>10, <2>11, <3>2
    <3> QED
      BY <3>1, <3>2
  <2> QED
    BY <1>h, <2>1, <2>11 DEF RoomKept, BucketRoom, WriteRoom, Worth
<1>4. ASSUME NEW r \in TokenRequests, DeductWrite(r) PROVE RoomKept'
  <2>1. /\ stage[r] = "writing" /\ NextCallback(r) /\ bucket' = seen[r]
        /\ leaked' = (leaked \/ left' <= 0 \/ \E q \in TokenRequests \ {r} : stage[q] \in {"timing", "reading", "writing"})
    BY <1>4 DEF DeductWrite, Deducting
  <2>2. CASE leaked'
    BY <2>2 DEF RoomKept, BucketRoom, WriteRoom
  <2>3. CASE ~leaked'
    <3>1. ~leaked /\ \A q \in TokenRequests \ {r} : stage[q] \notin {"timing", "reading", "writing"}
      BY <2>1, <2>3
    <3>2. \A q \in TokenRequests : stage'[q] # "writing"
      BY <2>1, <3>1, CallbackFrame
    <3>3. Room(Pending') = Room(Pending) - MaxUse
      <4>1. callbacks[r] > 0
        BY <2>1 DEF Typed, AttemptsLeft
      <4>2. <<r, callbacks[r]>> \in Pending /\ Pending' = Pending \ {<<r, callbacks[r]>>}
        BY <2>1, <4>1, CallbackPending
      <4> QED
        BY <1>r, <4>2, RoomPaid
    <3>4. Worth(seen[r]) + used[r] >= Room(Pending)
      BY <1>h, <2>1, <3>1 DEF WriteRoom
    <3>5. Worth(seen[r]) >= Room(Pending')
      BY <1>r, <3>3, <3>4, SeenType, Bounds
    <3> QED
      BY <2>1, <3>2, <3>5 DEF RoomKept, BucketRoom, WriteRoom, Worth
  <2> QED
    BY <2>2, <2>3
<1>5. ASSUME NEW r \in TokenRequests, DeductFails(r) PROVE RoomKept'
  <2>1. NextCallback(r) /\ UNCHANGED <<live, bucket, leaked>> /\ callbacks[r] > 0
    BY <1>5 DEF DeductFails, Deducting, hash, history, Typed, AttemptsLeft
  <2>2. Room(Pending') <= Room(Pending)
    <3>1. Pending' \subseteq Pending
      BY <2>1, CallbackPending
    <3> QED
      BY <1>r, <3>1, RoomShrinks
  <2>3. ASSUME ~leaked, NEW q \in TokenRequests, stage'[q] = "writing"
        PROVE  /\ Worth(seen'[q]) + used'[q] >= Room(Pending')
               /\ live => Worth(seen'[q]) + used'[q] >= Smaller(Burst, Worth(bucket))
    <3>1. stage[q] = "writing" /\ seen'[q] = seen[q] /\ used'[q] = used[q]
      BY <2>1, <2>3, CallbackFrame
    <3> QED
      BY <1>h, <1>r, <1>p, <2>2, <2>3, <3>1, SeenType DEF WriteRoom
  <2>4. BucketRoom'
    BY <1>h, <1>r, <1>p, <2>1, <2>2, BucketType DEF BucketRoom, Worth
  <2> QED
    BY <2>1, <2>3, <2>4 DEF RoomKept, WriteRoom, Worth
<1>6. CASE Expire
  <2>1. live' = FALSE /\ live /\ UNCHANGED <<leaked, stage, seen, used, callbacks>> /\ Pending' = Pending
    BY <1>6 DEF Expire, history, Pending
  <2> QED
    BY <1>h, <2>1 DEF RoomKept, BucketRoom, WriteRoom, Worth
<1>7. CASE TokenTick
  <2>1. /\ UNCHANGED <<live, stage, used, callbacks>> /\ Pending' = Pending
        /\ bucket' = IF live THEN Older(bucket) ELSE bucket
    BY <1>7 DEF TokenTick, Pending
  <2>2. ~leaked' => ~leaked
    BY <1>7 DEF TokenTick
  <2>3. BucketRoom'
    <3>1. live => Worth(bucket') >= Worth(bucket) /\ Worth(bucket') \in Int
      BY <2>1, BucketType, OlderType, OlderWorth, WorthType
    <3> QED
      BY <1>h, <1>r, <2>1, <2>2, <3>1, BucketType DEF BucketRoom, Worth
  <2>4. ASSUME ~leaked', NEW q \in TokenRequests, stage'[q] = "writing"
        PROVE  /\ Worth(seen'[q]) + used'[q] >= Room(Pending)
               /\ live => Worth(seen'[q]) + used'[q] >= Smaller(Burst, Worth(bucket'))
    <3>1. stage[q] = "writing" /\ seen'[q] = Older(seen[q]) /\ used'[q] = used[q]
          /\ sinceClock[q] < Delay
      BY <1>7, <2>4 DEF TokenTick, Busy, Deducting
    <3>2. /\ Worth(seen[q]) + used[q] >= Room(Pending)
          /\ live => Worth(seen[q]) + used[q] >= Smaller(Burst, Worth(bucket))
      BY <1>h, <2>2, <2>4, <3>1 DEF WriteRoom
    <3>3. seen[q].age < MaxAge
      <4>1. seen[q].age = sinceClock[q]
        BY <1>c, <3>1, WholeRateAtLeastOne DEF WriteCovers
      <4> QED
        BY <3>1, <4>1, SeenType, DelayFits, Bounds, Delay \in 0..Delay
    <3>4. Worth(Older(seen[q])) = Worth(seen[q]) + Rate
      BY <3>3, SeenType, OlderWorth
    <3>5. live => Worth(bucket') <= Worth(bucket) + Rate /\ Worth(bucket') \in Int
      BY <2>1, BucketType, OlderType, OlderWorth, WorthType
    <3> QED
      BY <1>r, <3>1, <3>2, <3>4, <3>5, SeenType, BucketType, RateType, Bounds DEF Smaller
  <2> QED
    BY <2>1, <2>3, <2>4 DEF RoomKept, WriteRoom, Worth
<1>8. CASE UNCHANGED tokenVars
  <2>1. UNCHANGED <<live, bucket, leaked, stage, seen, used, callbacks>> /\ Pending' = Pending
    BY <1>8 DEF tokenVars, hash, history, Pending
  <2> QED
    BY <1>h, <2>1 DEF RoomKept, BucketRoom, WriteRoom, Worth
<1> QED
  BY <1>1, <1>2, <1>3, <1>4, <1>5, <1>6, <1>7, <1>8 DEF TokenNext, Asides

\* At a whole rate, while no booking is forgotten, what requests overdraw together
\* is bounded by a whole use for each of their attempts: none is let in
\* below one token, whichever of the requests before it have paid.
THEOREM JointOverdraft ==
    ASSUME WholeRate, IsFiniteSet(TokenRequests)
    PROVE  TokenSpec => []OverdraftBounded
<1>1. TokenInit => BalanceKept /\ RoomKept
  BY BalanceKeptInit, RoomKeptInit
<1>2. Typed /\ Covered /\ BalanceKept /\ RoomKept /\ [TokenNext]_tokenVars => (BalanceKept /\ RoomKept)'
  BY BalanceKeptStep, RoomKeptStep
<1>3. Typed /\ Covered /\ BalanceKept /\ RoomKept => OverdraftBounded
  <2>1. SUFFICES ASSUME Typed, RoomKept, ~leaked
                 PROVE  Balance >= 1 - Cardinality(TokenRequests) * MaxAttempts * MaxUse
    BY DEF OverdraftBounded
  <2>2. /\ Room(Pending) \in Int /\ Room(Pending) <= 1
        /\ Room(Pending) >= 1 - Cardinality(TokenRequests) * MaxAttempts * MaxUse
    BY RoomType DEF Pending
  <2>3. TtlRuns => Room(Pending) <= Worth(bucket)
    BY <2>1, BucketType DEF RoomKept, BucketRoom, TtlRuns
  <2>4. Balance >= Room(Pending)
    BY <2>1, <2>2, <2>3, BalanceCovers, Bounds
  <2>5. Balance \in Int
    BY <2>1, BucketType, RefilledType, Bounds, 0 \in 0..Delay DEF Balance, Buckets
  <2>6. Cardinality(TokenRequests) * MaxAttempts * MaxUse \in Int
    BY AttemptsCount, Bounds
  <2> QED
    BY <2>2, <2>4, <2>5, <2>6
<1> QED
  BY <1>1, <1>2, <1>3, CoveredAlways, PTL DEF TokenSpec

USE ConcurrencyAssumption, TimingAssumption

-----------------------------------------------------------------------------
(* The concurrency limiter: type correctness.                              *)

\* A step of any request, goroutine or of the clock keeps every variable in
\* its type.
LEMMA TypeStep == TypeOK /\ [Next]_vars => TypeOK'
<1> SUFFICES ASSUME TypeOK, [Next]_vars PROVE TypeOK'
  OBVIOUS
<1> USE DEF TypeOK, PCs, Absent, Outside, redis, renewal
<1>1. ASSUME NEW r \in Requests, Start(r) PROVE TypeOK'
  BY <1>1 DEF Start
<1>2. ASSUME NEW r \in Requests, AcquireScript(r) PROVE TypeOK'
  <2>1. Purged(acqNow[r]) \in [Requests -> Nat \cup {Absent}]
    BY DEF Purged
  <2>2. /\ score' \in {Purged(acqNow[r]), [Purged(acqNow[r]) EXCEPT ![r] = acqNow[r]]}
        /\ expireAt' \in {expireAt, clock + KeyTTL}
        /\ \/ pc' = [pc EXCEPT ![r] = "granted"]
           \/ pc' = [pc EXCEPT ![r] = "denied"]
        /\ UNCHANGED <<clock, acqNow, renewal>>
    BY <1>2 DEF AcquireScript
  <2> QED
    BY <2>1, <2>2
<1>3. ASSUME NEW r \in Requests, AcquireFails(r) PROVE TypeOK'
  BY <1>3 DEF AcquireFails
<1>4. ASSUME NEW r \in Requests, Granted(r) PROVE TypeOK'
  BY <1>4 DEF Granted
<1>5. ASSUME NEW r \in Requests, Respond(r) PROVE TypeOK'
  BY <1>5 DEF Respond
<1>6. ASSUME NEW r \in Requests, Close(r) PROVE TypeOK'
  BY <1>6 DEF Close
<1>7. ASSUME NEW r \in Requests, Release(r) PROVE TypeOK'
  BY <1>7 DEF Release
<1>8. ASSUME NEW r \in Requests, TickFires(r) PROVE TypeOK'
  BY <1>8 DEF TickFires
<1>9. ASSUME NEW r \in Requests, RenewScript(r) PROVE TypeOK'
  BY <1>9 DEF RenewScript, Renewed, Present
<1>10. ASSUME NEW r \in Requests, RenewFails(r) PROVE TypeOK'
  BY <1>10 DEF RenewFails
<1>11. ASSUME NEW r \in Requests, RenewerCancelled(r) PROVE TypeOK'
  BY <1>11 DEF RenewerCancelled
<1>12. ASSUME NEW r \in Requests, Crash(r) PROVE TypeOK'
  BY <1>12 DEF Crash
<1>13. CASE Tick
  BY <1>13 DEF Tick
<1>14. CASE UNCHANGED vars
  BY <1>14 DEF vars
<1> QED
  BY <1>1, <1>2, <1>3, <1>4, <1>5, <1>6, <1>7, <1>8, <1>9, <1>10, <1>11,
     <1>12, <1>13, <1>14 DEF Next, Request, Renewal, Finished

\* Type correctness of the whole specification.
THEOREM TypeCorrect == Spec => []TypeOK
<1>1. Init => TypeOK
  BY DEF Init, TypeOK, PCs, Absent
<1> QED
  BY <1>1, TypeStep, PTL DEF Spec

-----------------------------------------------------------------------------
(* The bound on the members, and that none is resurrected.                 *)

\* Only the acquire script makes a member appear.
LEMMA OnlyAcquireAdds ==
    ASSUME TypeOK, [Next]_vars, NEW r \in Requests, ~Present(r), Present(r)'
    PROVE  pc[r] = "acquiring" /\ AcquireScript(r)
<1> USE DEF TypeOK, Present, Absent, redis, renewal
<1>1. ASSUME NEW q \in Requests, AcquireScript(q) PROVE q = r
  BY <1>1 DEF AcquireScript, Purged
<1>2. ASSUME NEW q \in Requests, RenewScript(q) PROVE FALSE
  BY <1>2 DEF RenewScript, Renewed
<1>3. ASSUME NEW q \in Requests, Release(q) PROVE FALSE
  BY <1>3 DEF Release
<1>4. ASSUME NEW q \in Requests, Start(q) PROVE FALSE
  BY <1>4 DEF Start
<1>5. ASSUME NEW q \in Requests,
             AcquireFails(q) \/ Granted(q) \/ Respond(q) \/ Close(q)
      PROVE FALSE
  BY <1>5 DEF AcquireFails, Granted, Respond, Close
<1>6. ASSUME NEW q \in Requests,
             TickFires(q) \/ RenewFails(q) \/ RenewerCancelled(q) \/ Crash(q)
      PROVE FALSE
  BY <1>6 DEF TickFires, RenewFails, RenewerCancelled, Crash
<1>7. ~Tick
  BY DEF Tick
<1>8. ~UNCHANGED vars
  BY DEF vars
<1>9. PICK q \in Requests : AcquireScript(q)
  BY <1>2, <1>3, <1>4, <1>5, <1>6, <1>7, <1>8 DEF Next, Request, Renewal, Finished
<1> QED
  BY <1>1, <1>9 DEF AcquireScript

\* The renewal script cannot bring back a member that was released, purged or
\* expired, however late it reaches Redis.
THEOREM NeverResurrected == Spec => NoResurrection
<1>1. TypeOK /\ [Next]_vars =>
        [\A r \in Requests : ~Present(r) /\ Present(r)' => pc[r] = "acquiring"]_vars
  BY OnlyAcquireAdds
<1> QED
  BY <1>1, TypeCorrect, PTL DEF Spec, NoResurrection

\* What is counted, and that it can be counted: Requests may be infinite.
MembersInv == IsFiniteSet(Members) /\ Cardinality(Members) <= Concurrency

\* The count of members grows only by the one that the ZCARD test let in.
LEMMA MembersStep == TypeOK /\ MembersInv /\ [Next]_vars => MembersInv'
<1> SUFFICES ASSUME TypeOK, MembersInv, [Next]_vars PROVE MembersInv'
  OBVIOUS
<1>1. ASSUME NEW r \in Requests, AcquireScript(r) PROVE MembersInv'
  <2> DEFINE kept == Purged(acqNow[r])
             Kept == {q \in Requests : kept[q] # Absent}
  <2>1. Kept \subseteq Members
    BY DEF Purged, Members, Present
  <2>2. IsFiniteSet(Kept) /\ Cardinality(Kept) <= Concurrency
    <3>1. IsFiniteSet(Kept) /\ Cardinality(Kept) <= Cardinality(Members)
      BY <2>1, FS_Subset DEF MembersInv
    <3>2. Cardinality(Kept) \in Nat /\ Cardinality(Members) \in Nat
      BY <3>1, FS_CardinalityType DEF MembersInv
    <3> QED
      BY <3>1, <3>2 DEF MembersInv
  <2>3. CASE score' = kept
    <3>1. Members' = Kept
      BY <2>3 DEF Members, Present
    <3> QED
      BY <3>1, <2>2 DEF MembersInv
  <2>4. CASE HasRoom(Cardinality(Kept)) /\ score' = [kept EXCEPT ![r] = acqNow[r]]
    <3>1. Members' \subseteq Kept \cup {r}
      BY <2>4 DEF Members, Present, Purged
    <3>2. IsFiniteSet(Kept \cup {r}) /\ Cardinality(Kept \cup {r}) <= Cardinality(Kept) + 1
      <4>1. /\ IsFiniteSet(Kept \cup {r})
            /\ \/ Cardinality(Kept \cup {r}) = Cardinality(Kept)
               \/ Cardinality(Kept \cup {r}) = Cardinality(Kept) + 1
        BY ONLY <2>2, FS_AddElement, Zenon
      <4>2. Cardinality(Kept) \in Nat
        BY ONLY <2>2, FS_CardinalityType
      <4> HIDE DEF Kept
      <4> QED
        BY ONLY <4>1, <4>2
    <3>3. IsFiniteSet(Members') /\ Cardinality(Members') <= Cardinality(Kept \cup {r})
      BY <3>1, <3>2, FS_Subset
    <3>4. /\ Cardinality(Kept) \in Nat
          /\ Cardinality(Kept \cup {r}) \in Nat
          /\ Cardinality(Members') \in Nat
      BY <2>2, <3>2, <3>3, FS_CardinalityType
    <3>5. Cardinality(Kept) < Concurrency
      BY <2>4 DEF HasRoom
    <3> QED
      BY <3>2, <3>3, <3>4, <3>5 DEF MembersInv
  <2>5. \/ score' = kept
        \/ HasRoom(Cardinality(Kept)) /\ score' = [kept EXCEPT ![r] = acqNow[r]]
    BY <1>1, Zenon DEF AcquireScript
  <2> QED
    BY <2>3, <2>4, <2>5
<1>2. CASE ~\E r \in Requests : AcquireScript(r)
  <2>1. Members' \subseteq Members
    BY <1>2, OnlyAcquireAdds DEF Members
  <2>2. IsFiniteSet(Members') /\ Cardinality(Members') <= Cardinality(Members)
    BY <2>1, FS_Subset DEF MembersInv
  <2>3. Cardinality(Members') \in Nat /\ Cardinality(Members) \in Nat
    BY <2>2, FS_CardinalityType DEF MembersInv
  <2> QED
    BY <2>2, <2>3 DEF MembersInv
<1> QED
  BY <1>1, <1>2

\* The strengthened count is an invariant of every behaviour.
LEMMA MembersCounted == Spec => []MembersInv
<1>1. Init => MembersInv
  <2> SUFFICES ASSUME Init PROVE MembersInv
    OBVIOUS
  <2>1. Members = {}
    BY DEF Init, Members, Present
  <2> QED
    BY <2>1, FS_EmptySet DEF MembersInv
<1> QED
  BY <1>1, MembersStep, TypeCorrect, PTL DEF Spec

\* The sorted set never holds more than Concurrency members.
THEOREM SlotsBounded == Spec => []MembersBounded
<1>1. MembersInv => MembersBounded
  BY DEF MembersInv, MembersBounded
<1> QED
  BY <1>1, MembersCounted, PTL

\* A denial is always the work of members younger than Timeout: a slot that a
\* crash or a lost reply left behind costs nobody more than that.
THEOREM DeniedByTheLivingOnly == Spec => DeniedByTheLiving
<1>1. ASSUME TypeOK, MembersInv, [Next]_vars, NEW r \in Requests,
             pc[r] = "acquiring", pc'[r] = "denied"
      PROVE  Cardinality({q \in Members : score[q] > acqNow[r] - Timeout}) >= Concurrency
  <2> DEFINE Young == {q \in Members : score[q] > acqNow[r] - Timeout}
  <2>1. AcquireScript(r)
    BY <1>1 DEF TypeOK, Next, Request, Renewal, Start, AcquireScript, AcquireFails,
                Granted, Respond, Close, Release, TickFires, RenewScript, RenewFails,
                RenewerCancelled, Crash, Tick, Finished, vars
  <2>2. Young = {q \in Requests : Purged(acqNow[r])[q] # Absent}
    BY <1>1 DEF Purged, Members, Present, TypeOK, Absent
  <2>3. ~HasRoom(Cardinality({q \in Requests : Purged(acqNow[r])[q] # Absent}))
    BY <1>1, <2>1 DEF AcquireScript, TypeOK
  <2>4. Cardinality(Young) \in Nat
    <3>1. IsFiniteSet(Young)
      BY <1>1, FS_Subset DEF MembersInv
    <3> QED
      BY <3>1, FS_CardinalityType
  <2> HIDE DEF Young
  <2>5. ~(Cardinality(Young) < Concurrency)
    BY <2>2, <2>3 DEF HasRoom
  <2>6. Cardinality(Young) >= Concurrency
    BY <2>4, <2>5
  <2> QED
    BY <2>6 DEF Young
<1>2. TypeOK /\ MembersInv /\ [Next]_vars =>
        [\A r \in Requests : pc[r] = "acquiring" /\ pc'[r] = "denied" =>
          Cardinality({q \in Members : score[q] > acqNow[r] - Timeout}) >= Concurrency]_vars
  BY <1>1
<1> QED
  BY <1>2, TypeCorrect, MembersCounted, PTL DEF Spec, DeniedByTheLiving

-----------------------------------------------------------------------------
(* In-flight requests keep their members while renewals keep up.           *)

\* The arithmetic of the renewals that may be missing.
LEMMA GapFacts ==
    /\ \A f \in Nat : Gap(f) \in Nat
    /\ \A f \in Nat : Gap(f + 1) = Gap(f) + RenewPeriod
    /\ \A f, g \in Nat : f <= g => Gap(f) <= Gap(g)
    /\ Gap(0) = RenewPeriod
<1>1. \A f \in Nat : Gap(f) \in Nat
  BY DEF Gap
<1>2. \A f \in Nat : Gap(f + 1) = Gap(f) + RenewPeriod
  BY DEF Gap
<1>3. ASSUME NEW f \in Nat, NEW g \in Nat, f <= g PROVE Gap(f) <= Gap(g)
  <2>1. (g + 1) * RenewPeriod = (f + 1) * RenewPeriod + (g - f) * RenewPeriod
    OBVIOUS
  <2>2. (g - f) * RenewPeriod >= 0
    BY <1>3
  <2>3. (f + 1) * RenewPeriod \in Int /\ (g - f) * RenewPeriod \in Int
    OBVIOUS
  <2> QED
    BY <2>1, <2>2, <2>3 DEF Gap
<1>4. Gap(0) = RenewPeriod
  BY DEF Gap
<1> QED
  BY <1>1, <1>2, <1>3, <1>4

\* A request past the limiter, or about to be, is young enough.
LEMMA YoungEnough ==
    ASSUME TypeOK, RenewalsKeepUp, NEW r \in Requests, Alive(r),
           r \in InFlight \/ pc[r] = "granted"
    PROVE  /\ Present(r)
           /\ clock <= score[r] + 3 * Latency + Gap(MaxFails)
           /\ clock < score[r] + Timeout
           /\ Timely(r) => clock + 1 < expireAt
<1> USE DEF TypeOK, Absent
<1>1. /\ Gap(MaxFails) \in Nat /\ RenewPeriod \in Nat \ {0}
      /\ Gap(fails[r]) \in Nat
      /\ fails[r] <= MaxFails => Gap(fails[r]) <= Gap(MaxFails)
      /\ {Timeout, Latency, MaxFails} \subseteq Nat
  BY GapFacts
<1>2. CASE pc[r] = "granted"
  <2>1. score[r] = acqNow[r] /\ clock <= acqNow[r] + Latency
    BY <1>2 DEF Alive, NotYetServing
  <2>2. Timely(r) => clock < acqNow[r] + Latency
    BY <1>2 DEF Timely
  <2>3. Present(r) /\ expireAt >= score[r] + KeyTTL
    BY <2>1 DEF Present, Alive, ScoreRecorded
  <2> QED
    BY <2>1, <2>2, <2>3, <1>1 DEF RenewalsKeepUp
<1>3. CASE r \in InFlight
  <2>1. Present(r) /\ fails[r] <= MaxFails /\ RenewerOnTime(r)
    BY <1>3 DEF Alive, HoldsSlot
  <2>2. expireAt >= score[r] + KeyTTL
    BY <2>1 DEF Alive, ScoreRecorded
  <2>3. CASE renewer[r] = "idle"
    <3>1. clock <= nextTick[r] + Latency /\ nextTick[r] <= score[r] + Latency + Gap(fails[r])
      BY <2>1, <2>3 DEF RenewerOnTime
    <3>2. Timely(r) => clock < nextTick[r] + Latency
      BY <1>3, <2>3 DEF Timely, InFlight
    <3> QED
      BY <1>1, <2>1, <2>2, <3>1, <3>2 DEF RenewalsKeepUp
  <2>4. CASE renewer[r] = "waiting"
    <3>1. /\ renewCmd[r] # Absent
          /\ renewCmd[r] <= nextTick[r] - RenewPeriod + Latency
          /\ nextTick[r] <= score[r] + Latency + Gap(fails[r]) + RenewPeriod
      BY <2>1, <2>4 DEF RenewerOnTime
    <3>2. clock <= renewCmd[r] + Latency
      BY <3>1 DEF Alive, CommandRecent
    <3>3. Timely(r) => clock < renewCmd[r] + Latency
      BY <3>1 DEF Timely
    <3> QED
      BY <1>1, <2>1, <2>2, <3>1, <3>2, <3>3 DEF RenewalsKeepUp
  <2> QED
    BY <2>1, <2>3, <2>4 DEF RenewerOnTime
<1> QED
  BY <1>2, <1>3

\* What a step of other requests may do to r: time and r's own state stand
\* still, and r's member is kept or, when nobody relies on it, dropped.
Undisturbed(r) ==
    /\ clock' = clock
    /\ expireAt' >= expireAt
    /\ pc'[r] = pc[r] /\ acqNow'[r] = acqNow[r]
    /\ renewer'[r] = renewer[r] /\ nextTick'[r] = nextTick[r]
    /\ renewCmd'[r] = renewCmd[r] /\ fails'[r] = fails[r]
    /\ \/ score'[r] = score[r]
       \/ score'[r] = Absent /\ r \notin InFlight /\ pc[r] # "granted"

\* Such a step keeps what the invariant says of r.
LEMMA UndisturbedAlive ==
    ASSUME TypeOK, TypeOK', NEW r \in Requests, Alive(r), Undisturbed(r)
    PROVE  Alive(r)'
<1> USE DEF TypeOK, Absent, Undisturbed, Alive
<1>1. ScoreRecorded(r)'
  BY DEF ScoreRecorded, Present
<1>2. CommandRecent(r)'
  BY DEF CommandRecent
<1>3. NotYetServing(r)'
  BY DEF NotYetServing
<1>4. HoldsSlot(r)'
  BY DEF HoldsSlot, InFlight, Present, RenewerOnTime
<1> QED
  BY <1>1, <1>2, <1>3, <1>4

\* Every step of a request, of its goroutine or of Redis on its behalf leaves
\* the other requests undisturbed.
LEMMA OthersUndisturbed ==
    ASSUME TypeOK, TypeOK', RenewalsKeepUp, AliveInv, NEW r \in Requests,
           Request(r) \/ Renewal(r) \/ Crash(r),
           NEW q \in Requests, q # r
    PROVE  Undisturbed(q)
<1> USE DEF TypeOK, Absent, Undisturbed, redis, renewal
<1>1. CASE AcquireScript(r)
  <2>1. acqNow[r] <= clock
    BY <1>1 DEF AcquireScript, AliveInv, Alive, NotYetServing
  <2>2. q \in InFlight \/ pc[q] = "granted" => clock < score[q] + Timeout
    BY YoungEnough DEF AliveInv
  <2>3. /\ score'[q] = Purged(acqNow[r])[q]
        /\ expireAt' \in {expireAt, clock + KeyTTL}
        /\ pc'[q] = pc[q]
        /\ UNCHANGED <<clock, acqNow, renewal>>
    <3>1. Purged(acqNow[r]) = [x \in Requests |-> Purged(acqNow[r])[x]]
      BY DEF Purged
    <3>2. /\ score' \in {Purged(acqNow[r]), [Purged(acqNow[r]) EXCEPT ![r] = acqNow[r]]}
          /\ expireAt' \in {expireAt, clock + KeyTTL}
          /\ \/ pc' = [pc EXCEPT ![r] = "granted"]
             \/ pc' = [pc EXCEPT ![r] = "denied"]
          /\ UNCHANGED <<clock, acqNow, renewal>>
      BY <1>1 DEF AcquireScript
    <3> QED
      BY <3>1, <3>2
  <2>4. Purged(acqNow[r])[q] = IF score[q] <= acqNow[r] - Timeout THEN Absent ELSE score[q]
    BY DEF Purged
  <2>5. expireAt <= clock + KeyTTL
    BY DEF AliveInv
  <2> QED
    BY <2>1, <2>2, <2>3, <2>4, <2>5
<1>2. CASE RenewScript(r)
  <2>1. expireAt <= clock + KeyTTL
    BY DEF AliveInv
  <2> QED
    BY <1>2, <2>1 DEF RenewScript, Renewed
<1>3. CASE Release(r)
  BY <1>3 DEF Release
<1>4. CASE Start(r) \/ AcquireFails(r) \/ Granted(r) \/ Respond(r) \/ Close(r)
  BY <1>4 DEF Start, AcquireFails, Granted, Respond, Close
<1>5. CASE TickFires(r) \/ RenewFails(r) \/ RenewerCancelled(r) \/ Crash(r)
  BY <1>5 DEF TickFires, RenewFails, RenewerCancelled, Crash
<1> QED
  BY <1>1, <1>2, <1>3, <1>4, <1>5 DEF Request, Renewal

\* A step of a request keeps what the invariant says of that request.
LEMMA OwnStepAlive ==
    ASSUME TypeOK, TypeOK', RenewalsKeepUp, AliveInv, NEW r \in Requests,
           Request(r) \/ Renewal(r) \/ Crash(r)
    PROVE  Alive(r)'
<1> USE DEF TypeOK, Absent, redis, renewal
<1> DEFINE Parts == /\ ScoreRecorded(r) /\ CommandRecent(r)
                    /\ NotYetServing(r) /\ HoldsSlot(r)
<1>0. Parts
  BY DEF AliveInv, Alive
<1>1. CASE Start(r)
  BY <1>0, <1>1 DEF Start, Alive, ScoreRecorded, CommandRecent, NotYetServing,
                    HoldsSlot, InFlight, Present
<1>2. CASE AcquireScript(r)
  <2>1. /\ score'[r] \in {Absent, score[r], acqNow[r]}
        /\ expireAt' \in {expireAt, clock + KeyTTL}
        /\ expireAt <= clock + KeyTTL
        /\ pc[r] = "acquiring"
        /\ \/ pc'[r] = "granted" /\ score'[r] = acqNow[r] /\ expireAt' = clock + KeyTTL
           \/ pc'[r] = "denied" /\ score'[r] \in {Absent, score[r]}
        /\ UNCHANGED <<clock, acqNow, renewal>>
    <3>1. Purged(acqNow[r]) \in [Requests -> {Absent} \cup {score[q] : q \in Requests}]
      BY DEF Purged
    <3>2. Purged(acqNow[r])[r] \in {Absent, score[r]}
      BY DEF Purged
    <3>3. /\ \/ /\ score' = [Purged(acqNow[r]) EXCEPT ![r] = acqNow[r]]
              /\ expireAt' = clock + KeyTTL
              /\ pc' = [pc EXCEPT ![r] = "granted"]
           \/ /\ score' = Purged(acqNow[r])
              /\ pc' = [pc EXCEPT ![r] = "denied"]
              /\ expireAt' = expireAt
          /\ pc[r] = "acquiring"
          /\ UNCHANGED <<clock, acqNow, renewal>>
      BY <1>2 DEF AcquireScript
    <3> QED
      BY <3>1, <3>2, <3>3 DEF AliveInv
  <2>2. ScoreRecorded(r)' /\ CommandRecent(r)' /\ NotYetServing(r)'
    BY <1>0, <2>1 DEF ScoreRecorded, CommandRecent, NotYetServing, Present
  <2>3. HoldsSlot(r)'
    BY <2>1 DEF HoldsSlot, InFlight
  <2> QED
    BY <2>2, <2>3 DEF Alive
<1>3. CASE AcquireFails(r)
  BY <1>0, <1>3 DEF AcquireFails, Alive, ScoreRecorded, CommandRecent,
                    NotYetServing, HoldsSlot, InFlight, Present
<1>4. CASE Granted(r)
  <2>1. /\ pc[r] = "granted" /\ pc'[r] = "serving"
        /\ renewer'[r] = "idle" /\ nextTick'[r] = clock + RenewPeriod
        /\ UNCHANGED <<clock, score, expireAt, acqNow, renewCmd, fails>>
    BY <1>4 DEF Granted
  <2>2. fails[r] = 0 /\ score[r] = acqNow[r] /\ clock <= acqNow[r] + Latency
    BY <1>0, <2>1 DEF NotYetServing
  <2>3. ScoreRecorded(r)' /\ CommandRecent(r)' /\ NotYetServing(r)'
    BY <1>0, <2>1 DEF ScoreRecorded, CommandRecent, NotYetServing, Present
  <2>4. HoldsSlot(r)'
    <3>1. Present(r)' /\ fails'[r] <= MaxFails
      BY <2>1, <2>2 DEF Present
    <3>2. nextTick'[r] <= score'[r] + Latency + Gap(fails'[r])
      <4>1. Gap(0) = RenewPeriod /\ fails'[r] = 0
        BY <2>1, <2>2, GapFacts
      <4> QED
        BY <2>1, <2>2, <4>1
    <3>3. RenewerOnTime(r)'
      BY <2>1, <3>2 DEF RenewerOnTime
    <3> QED
      BY <3>1, <3>3 DEF HoldsSlot
  <2> QED
    BY <2>3, <2>4 DEF Alive
<1>5. CASE Respond(r) \/ Close(r)
  BY <1>0, <1>5 DEF Respond, Close, Alive, ScoreRecorded, CommandRecent,
                    NotYetServing, HoldsSlot, InFlight, Present, RenewerOnTime
<1>6. CASE Release(r)
  BY <1>0, <1>6 DEF Release, Alive, ScoreRecorded, CommandRecent,
                    NotYetServing, HoldsSlot, InFlight, Present
<1>7. CASE TickFires(r)
  <2>1. /\ renewer[r] = "idle" /\ clock >= nextTick[r]
        /\ renewer'[r] = "waiting" /\ renewCmd'[r] = clock
        /\ nextTick'[r] = nextTick[r] + RenewPeriod
        /\ UNCHANGED <<clock, score, expireAt, pc, acqNow, fails>>
    BY <1>7 DEF TickFires
  <2>2. ScoreRecorded(r)' /\ CommandRecent(r)' /\ NotYetServing(r)'
    BY <1>0, <2>1 DEF ScoreRecorded, CommandRecent, NotYetServing, Present
  <2>3. HoldsSlot(r)'
    <3>1. CASE r \notin InFlight
      BY <2>1, <3>1 DEF HoldsSlot, InFlight
    <3>2. CASE r \in InFlight
      <4>1. Present(r) /\ fails[r] <= MaxFails /\ RenewerOnTime(r)
        BY <1>0, <3>2 DEF HoldsSlot
      <4>2. Present(r)' /\ fails'[r] <= MaxFails
        BY <2>1, <4>1 DEF Present
      <4>3. /\ clock <= nextTick[r] + Latency
            /\ nextTick[r] <= score[r] + Latency + Gap(fails[r])
        BY <2>1, <4>1 DEF RenewerOnTime
      <4>4. Gap(fails[r]) \in Nat /\ Gap(fails'[r]) = Gap(fails[r])
        BY <2>1, GapFacts
      <4>5. RenewerOnTime(r)'
        BY <2>1, <4>3, <4>4 DEF RenewerOnTime
      <4> QED
        BY <4>2, <4>5 DEF HoldsSlot
    <3> QED
      BY <3>1, <3>2
  <2> QED
    BY <2>2, <2>3 DEF Alive
<1>8. CASE RenewScript(r)
  <2>1. /\ renewCmd[r] # Absent /\ renewCmd'[r] = Absent
        /\ score'[r] = IF Present(r) THEN renewCmd[r] ELSE Absent
        /\ expireAt' = IF Present(r) THEN clock + KeyTTL ELSE expireAt
        /\ \/ /\ renewer[r] = "waiting" /\ fails'[r] = 0
              /\ renewer'[r] = IF Present(r) THEN "idle" ELSE "exited"
           \/ /\ renewer[r] # "waiting"
              /\ renewer'[r] = renewer[r] /\ fails'[r] = fails[r]
        /\ UNCHANGED <<clock, pc, acqNow, nextTick>>
    BY <1>8 DEF RenewScript, Renewed, Present
  <2>2. ScoreRecorded(r)' /\ CommandRecent(r)' /\ NotYetServing(r)'
    BY <1>0, <2>1 DEF ScoreRecorded, CommandRecent, NotYetServing, Present
  <2>3. HoldsSlot(r)'
    <3>1. CASE r \notin InFlight
      BY <2>1, <3>1 DEF HoldsSlot, InFlight
    <3>2. CASE r \in InFlight
      <4>1. Present(r) /\ fails[r] <= MaxFails /\ RenewerOnTime(r)
        BY <1>0, <3>2 DEF HoldsSlot
      <4>2. Gap(0) = RenewPeriod /\ Gap(fails[r]) \in Nat
        BY GapFacts
      <4>3. score[r] <= renewCmd[r] /\ clock <= renewCmd[r] + Latency
        BY <1>0, <2>1 DEF CommandRecent
      <4>4. Present(r)' /\ fails'[r] <= MaxFails
        BY <2>1, <4>1 DEF Present
      <4>5. RenewerOnTime(r)'
        <5>1. CASE renewer[r] = "idle"
          <6>1. /\ clock <= nextTick[r] + Latency
                /\ nextTick[r] <= score[r] + Latency + Gap(fails[r])
            BY <4>1, <5>1 DEF RenewerOnTime
          <6>2. Gap(fails'[r]) = Gap(fails[r]) /\ renewer'[r] = "idle"
            BY <2>1, <5>1
          <6> QED
            BY <2>1, <4>1, <4>2, <4>3, <6>1, <6>2 DEF RenewerOnTime
        <5>2. CASE renewer[r] = "waiting"
          <6>1. /\ nextTick[r] - RenewPeriod <= renewCmd[r]
                /\ renewCmd[r] <= nextTick[r] - RenewPeriod + Latency
            BY <4>1, <5>2 DEF RenewerOnTime
          <6>2. Gap(fails'[r]) = RenewPeriod /\ renewer'[r] = "idle"
            BY <2>1, <4>1, <4>2, <5>2
          <6>3. score'[r] = renewCmd[r] /\ nextTick'[r] = nextTick[r] /\ clock' = clock
            BY <2>1, <4>1
          <6>4. /\ clock' <= nextTick'[r] + Latency
                /\ nextTick'[r] <= score'[r] + Latency + Gap(fails'[r])
            BY <4>3, <6>1, <6>2, <6>3 DEF RenewalsKeepUp
          <6> QED
            BY <6>2, <6>4 DEF RenewerOnTime
        <5> QED
          BY <4>1, <5>1, <5>2 DEF RenewerOnTime
      <4> QED
        BY <4>4, <4>5 DEF HoldsSlot
    <3> QED
      BY <3>1, <3>2
  <2> QED
    BY <2>2, <2>3 DEF Alive
<1>9. CASE RenewFails(r)
  <2>1. /\ renewer[r] = "waiting" /\ renewer'[r] = "idle"
        /\ fails[r] < MaxFails /\ fails'[r] = fails[r] + 1
        /\ renewCmd'[r] \in {renewCmd[r], Absent}
        /\ UNCHANGED <<clock, score, expireAt, pc, acqNow, nextTick>>
    BY <1>9 DEF RenewFails
  <2>2. ScoreRecorded(r)' /\ CommandRecent(r)' /\ NotYetServing(r)'
    BY <1>0, <2>1 DEF ScoreRecorded, CommandRecent, NotYetServing, Present
  <2>3. HoldsSlot(r)'
    <3>1. Gap(fails[r] + 1) = Gap(fails[r]) + RenewPeriod /\ Gap(fails[r]) \in Nat
      BY GapFacts
    <3>2. renewCmd[r] # Absent => clock <= renewCmd[r] + Latency
      BY <1>0 DEF CommandRecent
    <3>3. CASE r \notin InFlight
      BY <2>1, <3>3 DEF HoldsSlot, InFlight
    <3>4. CASE r \in InFlight
      <4>1. Present(r) /\ RenewerOnTime(r)
        BY <1>0, <3>4 DEF HoldsSlot
      <4>2. Present(r)' /\ fails'[r] <= MaxFails
        BY <2>1, <4>1 DEF Present
      <4>3. /\ renewCmd[r] # Absent
            /\ nextTick[r] - RenewPeriod <= renewCmd[r]
            /\ renewCmd[r] <= nextTick[r] - RenewPeriod + Latency
            /\ nextTick[r] <= score[r] + Latency + Gap(fails[r]) + RenewPeriod
        BY <2>1, <4>1 DEF RenewerOnTime
      <4>4. Gap(fails'[r]) = Gap(fails[r]) + RenewPeriod
        BY <2>1, <3>1
      <4>5. /\ clock' <= nextTick'[r] + Latency
            /\ nextTick'[r] <= score'[r] + Latency + Gap(fails'[r])
        BY <2>1, <3>1, <3>2, <4>3, <4>4 DEF RenewalsKeepUp
      <4>6. RenewerOnTime(r)'
        BY <2>1, <4>5 DEF RenewerOnTime
      <4> QED
        BY <4>2, <4>6 DEF HoldsSlot
    <3> QED
      BY <3>3, <3>4
  <2> QED
    BY <2>2, <2>3 DEF Alive
<1>10. CASE RenewerCancelled(r) \/ Crash(r)
  BY <1>0, <1>10 DEF RenewerCancelled, Crash, Outside, Alive, ScoreRecorded,
                    CommandRecent, NotYetServing, HoldsSlot, InFlight, Present
<1> QED
  BY <1>1, <1>2, <1>3, <1>4, <1>5, <1>6, <1>7, <1>8, <1>9, <1>10
     DEF Request, Renewal

\* A second passes only while every call is timely, and the key expires only
\* when no live member is left in it.
LEMMA TickAlive ==
    ASSUME TypeOK, TypeOK', RenewalsKeepUp, AliveInv, Tick, NEW r \in Requests
    PROVE  Alive(r)'
<1> USE DEF TypeOK, Absent, redis, renewal
<1>1. /\ clock' = clock + 1
      /\ score' = IF clock + 1 >= expireAt THEN [q \in Requests |-> Absent] ELSE score
      /\ Timely(r)
      /\ UNCHANGED <<expireAt, pc, acqNow, renewal>>
  BY DEF Tick
<1>2. r \in InFlight \/ pc[r] = "granted" => clock + 1 < expireAt
  BY <1>1, YoungEnough DEF AliveInv
<1>3. \/ score'[r] = score[r]
      \/ score'[r] = Absent /\ r \notin InFlight /\ pc[r] # "granted"
  BY <1>1, <1>2
<1>4. ScoreRecorded(r) /\ CommandRecent(r) /\ NotYetServing(r) /\ HoldsSlot(r)
  BY DEF AliveInv, Alive
<1>5. ScoreRecorded(r)' /\ CommandRecent(r)' /\ NotYetServing(r)'
  BY <1>1, <1>3, <1>4 DEF ScoreRecorded, CommandRecent, NotYetServing, Present, Timely
<1>6. HoldsSlot(r)'
  BY <1>1, <1>3, <1>4 DEF HoldsSlot, InFlight, Present, RenewerOnTime, Timely
<1> QED
  BY <1>5, <1>6 DEF Alive

\* The invariant behind the two theorems that follow.
LEMMA AliveStep ==
    ASSUME RenewalsKeepUp, TypeOK, TypeOK', AliveInv, [Next]_vars
    PROVE  AliveInv'
<1>1. ASSUME NEW r \in Requests, Request(r) \/ Renewal(r) \/ Crash(r),
             NEW q \in Requests
      PROVE  expireAt' <= clock' + KeyTTL /\ Alive(q)'
  <2>0. expireAt' <= clock' + KeyTTL
    <3>1. clock' = clock /\ expireAt' \in {expireAt, clock + KeyTTL}
      BY <1>1 DEF Request, Renewal, Start, AcquireScript, AcquireFails, Granted,
                  Respond, Close, Release, TickFires, RenewScript, RenewFails,
                  RenewerCancelled, Crash, redis
    <3> QED
      BY <3>1 DEF AliveInv, TypeOK
  <2>1. CASE q = r
    BY <1>1, <2>0, <2>1, OwnStepAlive
  <2>2. CASE q # r
    <3>1. Undisturbed(q)
      BY <1>1, <2>2, OthersUndisturbed
    <3>2. Alive(q)
      BY DEF AliveInv
    <3> QED
      BY <2>0, <3>1, <3>2, UndisturbedAlive
  <2> QED
    BY <2>1, <2>2
<1>2. CASE Tick
  <2>1. expireAt' <= clock' + KeyTTL
    BY <1>2 DEF Tick, AliveInv, TypeOK
  <2> QED
    BY <1>2, <2>1, TickAlive DEF AliveInv
<1>3. CASE UNCHANGED vars
  BY <1>3 DEF vars, redis, renewal, AliveInv, Alive, ScoreRecorded, CommandRecent,
              NotYetServing, HoldsSlot, InFlight, Present, RenewerOnTime
<1> QED
  BY <1>1, <1>2, <1>3 DEF Next, AliveInv, Finished

LEMMA AliveAlways == ASSUME RenewalsKeepUp PROVE Spec => []AliveInv
<1>1. Init => AliveInv
  BY DEF Init, AliveInv, Alive, ScoreRecorded, CommandRecent, NotYetServing,
         HoldsSlot, InFlight, Present, Absent
<1>2. TypeOK /\ TypeOK' /\ AliveInv /\ [Next]_vars => AliveInv'
  BY AliveStep
<1> QED
  BY <1>1, <1>2, TypeCorrect, PTL DEF Spec

\* Whoever is past the limiter is a member.
LEMMA InFlightAreMembers == ASSUME AliveInv PROVE InFlight \subseteq Members
  BY DEF AliveInv, Alive, HoldsSlot, InFlight, Members

\* "Maximum concurrency": a timeout longer than the renewals that may be
\* missing makes the limit a limit on the requests past the limiter.
THEOREM MaximumConcurrency ==
    ASSUME RenewalsKeepUp PROVE Spec => []InFlightBounded
<1>1. AliveInv /\ MembersInv => InFlightBounded
  <2> SUFFICES ASSUME AliveInv, MembersInv PROVE InFlightBounded
    OBVIOUS
  <2>1. IsFiniteSet(InFlight) /\ Cardinality(InFlight) <= Cardinality(Members)
    BY InFlightAreMembers, FS_Subset DEF MembersInv
  <2>2. Cardinality(InFlight) \in Nat /\ Cardinality(Members) \in Nat
    BY <2>1, FS_CardinalityType DEF MembersInv
  <2> QED
    BY <2>1, <2>2 DEF MembersInv, InFlightBounded
<1> QED
  BY <1>1, AliveAlways, MembersCounted, PTL

-----------------------------------------------------------------------------
(* The limiter implements BoundedAdmission while renewals keep up.         *)

LEMMA SameCardinality == Abstract!Cardinality(InFlight) = Cardinality(InFlight)
  BY DEF Abstract!Cardinality, Cardinality

\* Taking the reply of a successful acquire is an admission: the new member
\* and those in flight are distinct members of one bounded set.
LEMMA GrantedAdmits ==
    ASSUME TypeOK, AliveInv, MembersInv, NEW r \in Requests, Granted(r)
    PROVE  Abstract!Admit(r)
<1>1. pc[r] = "granted" /\ pc' = [pc EXCEPT ![r] = "serving"]
  BY DEF Granted
<1>2. r \notin InFlight /\ InFlight' = InFlight \cup {r}
  BY <1>1 DEF InFlight, TypeOK
<1>3. InFlight \cup {r} \subseteq Members
  <2>1. Present(r)
    BY <1>1 DEF AliveInv, Alive, NotYetServing, Present, Absent, TypeOK
  <2> QED
    BY <2>1, InFlightAreMembers DEF Members
<1>4. IsFiniteSet(InFlight) /\ Cardinality(InFlight \cup {r}) <= Cardinality(Members)
  <2>1. IsFiniteSet(InFlight)
    BY InFlightAreMembers, FS_Subset DEF MembersInv
  <2> QED
    BY <2>1, <1>3, FS_Subset DEF MembersInv
<1>5. Cardinality(InFlight \cup {r}) = Cardinality(InFlight) + 1
  BY <1>2, <1>4, FS_AddElement
<1>6. Cardinality(InFlight) \in Nat /\ Cardinality(Members) \in Nat
  BY <1>4, FS_CardinalityType DEF MembersInv
<1>7. Cardinality(InFlight) < Concurrency
  BY <1>4, <1>5, <1>6 DEF MembersInv
<1> QED
  BY <1>2, <1>7, SameCardinality DEF Abstract!Admit

\* Every step of the limiter is a step of BoundedAdmission or leaves the set
\* of requests past the limiter as it is.
LEMMA AdmissionStep ==
    ASSUME TypeOK, AliveInv, MembersInv, [Next]_vars
    PROVE  [Abstract!Next]_InFlight
<1>1. ASSUME NEW r \in Requests, NEW state \in PCs \ {"serving", "open"},
             r \in InFlight, pc' = [pc EXCEPT ![r] = state]
      PROVE  Abstract!Next
  <2>1. InFlight' = InFlight \ {r}
    BY <1>1 DEF InFlight, TypeOK
  <2> QED
    BY <1>1, <2>1 DEF Abstract!Next, Abstract!Leave
<1>2. ASSUME NEW r \in Requests, Respond(r) PROVE [Abstract!Next]_InFlight
  <2>1. CASE pc' = [pc EXCEPT ![r] = "open"]
    BY <1>2, <2>1 DEF Respond, InFlight, TypeOK
  <2>2. CASE pc' \in {[pc EXCEPT ![r] = "closing"], [pc EXCEPT ![r] = "panicked"]}
    <3>1. r \in InFlight
      BY <1>2 DEF Respond, InFlight
    <3> QED
      BY <3>1, <2>2, <1>1 DEF PCs
  <2> QED
    BY <1>2, <2>1, <2>2 DEF Respond
<1>3. ASSUME NEW r \in Requests, Close(r) PROVE Abstract!Next
  <2>1. r \in InFlight
    BY <1>3 DEF Close, InFlight
  <2> QED
    BY <1>1, <1>3, <2>1 DEF Close, PCs
<1>4. ASSUME NEW r \in Requests, Crash(r) PROVE [Abstract!Next]_InFlight
  <2>1. CASE r \in InFlight
    BY <1>1, <1>4, <2>1 DEF Crash, PCs
  <2>2. CASE r \notin InFlight
    BY <1>4, <2>2 DEF Crash, InFlight, TypeOK
  <2> QED
    BY <2>1, <2>2
<1>5. ASSUME NEW r \in Requests, Granted(r) PROVE Abstract!Next
  BY <1>5, GrantedAdmits DEF Abstract!Next
<1>6. ASSUME NEW r \in Requests,
             Start(r) \/ AcquireScript(r) \/ AcquireFails(r) \/ Release(r)
      PROVE  UNCHANGED InFlight
  BY <1>6 DEF Start, AcquireScript, AcquireFails, Release, InFlight, TypeOK
<1>7. ASSUME NEW r \in Requests, Renewal(r) PROVE UNCHANGED InFlight
  BY <1>7 DEF Renewal, TickFires, RenewScript, RenewFails, RenewerCancelled, InFlight
<1>8. CASE Tick \/ UNCHANGED vars
  BY <1>8 DEF Tick, vars, InFlight
<1> QED
  BY <1>2, <1>3, <1>4, <1>5, <1>6, <1>7, <1>8 DEF Next, Request, Finished

\* The limiter, whatever is lost or crashes, is a bounded admission.
THEOREM ImplementsBoundedAdmission ==
    ASSUME RenewalsKeepUp PROVE Spec => BoundedAdmissionSpec
<1>1. Init => Abstract!Init
  BY DEF Init, Abstract!Init, InFlight
<1>2. TypeOK /\ AliveInv /\ MembersInv /\ [Next]_vars => [Abstract!Next]_InFlight
  BY AdmissionStep
<1> QED
  BY <1>1, <1>2, TypeCorrect, AliveAlways, MembersCounted, PTL
     DEF Spec, BoundedAdmissionSpec, Abstract!Spec
=============================================================================
