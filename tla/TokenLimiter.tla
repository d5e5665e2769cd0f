----------------------------- MODULE TokenLimiter -----------------------------
(***************************************************************************)
(* The token limiter of pkg/engines/limiter/token_limiter.go: a bucket     *)
(* that may go below zero.  A request is admitted while there is a token,  *)
(* and pays what it used when it is over: every engine it passed, at each  *)
(* attempt, left a callback in the request's metadata, and DoDeduction     *)
(* calls them one after the other.  Each of them books the whole use, so   *)
(* that a request that was tried twice pays twice.                         *)
(*                                                                         *)
(* Nothing here is atomic: the clock, the TTL, the hash and the write back *)
(* are calls of their own, and what another request wrote in between is    *)
(* overwritten.  A bucket whose TTL is over, or that has none because      *)
(* EXPIRE got lost, counts as full.                                        *)
(*                                                                         *)
(* Times are seconds before now, as in RequestLimiters; the clocks of the  *)
(* gateways agree.                                                         *)
(***************************************************************************)
EXTENDS Integers, FiniteSets

CONSTANTS
    TokenRequests,
    Burst, Limit, Window,
    MaxUse,       \* bound: the most a request turns out to have used
    MaxAttempts,  \* bound: attempts of one request that pass this engine
    Delay,        \* bound: seconds from a clock read to the last Redis call
    MaxAge,       \* bound: an age from which on every bucket is full
    MaxOwed       \* bound: how far the history ideal goes below 0

ASSUME LimiterAssumption ==
    /\ {Burst, Limit, Window, MaxAttempts} \subseteq Nat \ {0}
    /\ {Delay, MaxAge, MaxOwed, MaxUse} \subseteq Nat
    /\ MaxAge >= Delay + (Burst + MaxOwed) * Window

NoTtl == -1
Ttl == (2 * Burst * Window) \div Limit

VARIABLES
    live,       \* whether Redis has the key
    bucket,     \* its fields: tokens, and age, the seconds since lastRefill
    left,       \* seconds until it expires, or NoTtl
    stage,      \* where each request is
    sinceClock, \* seconds since it read the clock
    seen,       \* the bucket that its deduction will write
    used,       \* what the request has used
    callbacks,  \* deductions that it has yet to do
    ideal,      \* history: the balance if every callback booked at once
    leaked      \* history: something happened that may forget a booking

hash == <<live, bucket, left>>
history == <<ideal, leaked>>
tokenVars == <<hash, stage, sinceClock, seen, used, callbacks, history>>

Full == [tokens |-> Burst, age |-> 0]

TokenInit ==
    /\ live = FALSE /\ bucket = Full /\ left = 0
    /\ stage = [r \in TokenRequests |-> "new"]
    /\ sinceClock = [r \in TokenRequests |-> 0]
    /\ seen = [r \in TokenRequests |-> Full]
    /\ used = [r \in TokenRequests |-> 0]
    /\ callbacks = [r \in TokenRequests |-> 0]
    /\ ideal = Burst /\ leaked = FALSE

-----------------------------------------------------------------------------
(* The arithmetic of allow and deduction.                                  *)

Smaller(a, b) == IF a < b THEN a ELSE b
Larger(a, b) == IF a < b THEN b ELSE a

Refill(seconds) == (seconds * Limit) \div Window

\* What HMGET answers; the fields of a key that is gone have their defaults.
Fields(r) == IF live THEN bucket ELSE [tokens |-> Burst, age |-> sinceClock[r]]

\* Altered: lastRefill stays although tokens were added.
RefilledTwice(b, c) ==
    [tokens |-> IF Refill(b.age - c) > 0 THEN Smaller(Burst, b.tokens + Refill(b.age - c)) ELSE b.tokens,
     age |-> Larger(b.age, c)]
\* Altered: lastRefill moves although no token was added.
RefilledLate(b, c) == [tokens |-> b.tokens, age |-> c]
\* A bucket refilled up to a clock read c seconds ago: a lastRefill after it
\* counts as that clock, and it moves only when tokens are added.
Refilled(b, c) ==
    IF Refill(b.age - c) > 0
    THEN [tokens |-> Smaller(Burst, b.tokens + Refill(b.age - c)), age |-> c]
    ELSE [tokens |-> b.tokens, age |-> Larger(b.age, c)]

\* Altered: a balance of 0 is enough.
EnoughAtZero(b) == b.tokens >= 0
Enough(b) == b.tokens > 0

TtlRuns == live /\ left > 0

-----------------------------------------------------------------------------
(* Process: allow, and the callback.                                       *)

Admit(r) ==
    /\ stage' = [stage EXCEPT ![r] = "admitted"]
    /\ callbacks' = [callbacks EXCEPT ![r] = @ + 1]

\* The request is over without a deduction: its callbacks go with it.
Leave(r) ==
    /\ stage' = [stage EXCEPT ![r] = "new"]
    /\ callbacks' = [callbacks EXCEPT ![r] = 0]

\* No token, or a Redis call failed: this attempt leaves no callback.  Those
\* of earlier ones stay, and are called if another attempt gets an answer.
Refuse(r) ==
    /\ stage' = [stage EXCEPT ![r] = IF callbacks[r] > 0 THEN "admitted" ELSE "new"]
    /\ UNCHANGED callbacks

AllowClock(r) ==
    /\ stage[r] = "new"
    /\ stage' = [stage EXCEPT ![r] = "asking"]
    /\ sinceClock' = [sinceClock EXCEPT ![r] = 0]
    /\ UNCHANGED <<hash, seen, used, callbacks, history>>

AllowTtl(r) ==
    /\ stage[r] = "asking"
    /\ \/ /\ TtlRuns
          /\ stage' = [stage EXCEPT ![r] = "checking"]
          /\ UNCHANGED <<sinceClock, callbacks>>
       \/ /\ (~TtlRuns /\ Admit(r)) \/ Refuse(r)
          /\ sinceClock' = [sinceClock EXCEPT ![r] = 0]
    /\ UNCHANGED <<hash, seen, used, history>>

AllowRead(r) ==
    /\ stage[r] = "checking"
    /\ \/ Enough(Refilled(Fields(r), sinceClock[r])) /\ Admit(r)
       \/ Refuse(r)
    /\ sinceClock' = [sinceClock EXCEPT ![r] = 0]
    /\ UNCHANGED <<hash, seen, used, history>>

\* The attempt fails, and a load balancer before this engine tries again.
Retry(r) ==
    /\ stage[r] = "admitted"
    /\ callbacks[r] < MaxAttempts
    /\ stage' = [stage EXCEPT ![r] = "new"]
    /\ UNCHANGED <<hash, sinceClock, seen, used, callbacks, history>>

\* The request ends without an answer that says what it used.
EndUnpaid(r) ==
    /\ stage[r] = "admitted"
    /\ Leave(r)
    /\ UNCHANGED <<hash, sinceClock, seen, used, history>>

-----------------------------------------------------------------------------
(* DoDeduction.                                                            *)

\* The answer is there: DoDeduction begins with the first callback.
Answer(r) ==
    /\ stage[r] = "admitted"
    /\ \E u \in 0..MaxUse :
          IF u > 0 THEN /\ stage' = [stage EXCEPT ![r] = "deducting"]
                        /\ used' = [used EXCEPT ![r] = u]
                        /\ UNCHANGED callbacks
          ELSE Leave(r) /\ UNCHANGED used
    /\ UNCHANGED <<hash, sinceClock, seen, history>>

\* A callback is done, or failed: the next one, if there is one.
NextCallback(r) ==
    /\ callbacks' = [callbacks EXCEPT ![r] = @ - 1]
    /\ stage' = [stage EXCEPT ![r] = IF callbacks[r] > 1 THEN "deducting" ELSE "new"]
    /\ used' = [used EXCEPT ![r] = IF callbacks[r] > 1 THEN @ ELSE 0]
    /\ sinceClock' = [sinceClock EXCEPT ![r] = 0]
    /\ seen' = [seen EXCEPT ![r] = Full]

DeductClock(r) ==
    /\ stage[r] = "deducting"
    /\ stage' = [stage EXCEPT ![r] = "timing"]
    /\ sinceClock' = [sinceClock EXCEPT ![r] = 0]
    /\ UNCHANGED <<hash, seen, used, callbacks, history>>

DeductTtl(r) ==
    /\ stage[r] = "timing"
    /\ \/ /\ TtlRuns
          /\ stage' = [stage EXCEPT ![r] = "reading"]
          /\ UNCHANGED seen
       \/ /\ ~TtlRuns
          /\ stage' = [stage EXCEPT ![r] = "writing"]
          /\ seen' = [seen EXCEPT ![r] = [tokens |-> Burst - used[r], age |-> sinceClock[r]]]
    /\ UNCHANGED <<hash, sinceClock, used, callbacks, history>>

DeductRead(r) ==
    /\ stage[r] = "reading"
    /\ stage' = [stage EXCEPT ![r] = "writing"]
    /\ seen' = [seen EXCEPT ![r] =
                   LET b == Refilled(Fields(r), sinceClock[r])
                   IN  [b EXCEPT !.tokens = @ - used[r]]]
    /\ UNCHANGED <<hash, sinceClock, used, callbacks, history>>

\* Between its clock and its write.
Deducting(r) == stage[r] \in {"timing", "reading", "writing"}

\* HSET and EXPIRE, or HSET alone.
DeductWrite(r) ==
    /\ stage[r] = "writing"
    /\ live' = TRUE
    /\ bucket' = seen[r]
    /\ left' \in {Ttl, IF live THEN left ELSE NoTtl}
    /\ ideal - used[r] >= -MaxOwed
    /\ ideal' = ideal - used[r]
    /\ leaked' = (leaked \/ left' <= 0 \/ \E q \in TokenRequests \ {r} : Deducting(q))
    /\ NextCallback(r)

\* A Redis call of the deduction fails: nothing is deducted.
DeductFails(r) ==
    /\ Deducting(r)
    /\ NextCallback(r)
    /\ UNCHANGED <<hash, history>>

-----------------------------------------------------------------------------
(* Time.                                                                   *)

Expire ==
    /\ live /\ left = 0
    /\ live' = FALSE
    /\ bucket' = Full
    /\ UNCHANGED <<left, stage, sinceClock, seen, used, callbacks, history>>

Older(b) == [b EXCEPT !.age = Smaller(@ + 1, MaxAge)]
Busy(r) == stage[r] \in {"asking", "checking"} \/ Deducting(r)

TokenTick ==
    /\ live => left # 0
    /\ \A r \in TokenRequests : Busy(r) => sinceClock[r] < Delay
    /\ bucket' = IF live THEN Older(bucket) ELSE bucket
    /\ left' = IF live /\ left # NoTtl THEN left - 1 ELSE left
    /\ sinceClock' = [r \in TokenRequests |-> IF Busy(r) THEN sinceClock[r] + 1 ELSE sinceClock[r]]
    /\ seen' = [r \in TokenRequests |-> IF stage[r] = "writing" THEN Older(seen[r]) ELSE seen[r]]
    /\ ideal' = Smaller(Burst, ideal + Refill(1))
    /\ leaked' = (leaked \/ (live /\ left = 1 /\ ideal' < Burst))
    /\ UNCHANGED <<live, stage, used, callbacks>>

TokenNext ==
    \/ \E r \in TokenRequests :
          \/ AllowClock(r) \/ AllowTtl(r) \/ AllowRead(r) \/ Retry(r) \/ EndUnpaid(r)
          \/ Answer(r)
          \/ DeductClock(r) \/ DeductTtl(r) \/ DeductRead(r) \/ DeductWrite(r) \/ DeductFails(r)
    \/ Expire \/ TokenTick

TokenSpec == TokenInit /\ [][TokenNext]_tokenVars

-----------------------------------------------------------------------------
(* Properties.                                                             *)

Buckets == [tokens : Int, age : 0..MaxAge]
Stages == {"new", "asking", "checking", "admitted", "deducting", "timing", "reading", "writing"}

TokenTypeOK ==
    /\ live \in BOOLEAN
    /\ bucket \in Buckets /\ bucket.tokens <= Burst
    /\ left \in {NoTtl} \cup 0..Ttl
    /\ stage \in [TokenRequests -> Stages]
    /\ sinceClock \in [TokenRequests -> 0..Delay]
    /\ seen \in [TokenRequests -> Buckets]
    /\ \A r \in TokenRequests : stage[r] = "writing" => seen[r].tokens <= Burst - used[r]
    /\ used \in [TokenRequests -> 0..MaxUse]
    /\ callbacks \in [TokenRequests -> 0..MaxAttempts]

\* The balance a request would find now.
Balance == IF TtlRuns THEN Refilled(bucket, 0).tokens ELSE Burst

\* However stale what a deduction writes back, the balance does not fall below
\* what it would be if each callback had booked its use at once, and every
\* second had brought its tokens: a write that overtakes another one may only
\* forget.  It is a bound for each callback and not for each request: DoDeduction
\* books the use of a request once for every attempt that was let in.
NeverBelowBookings == Balance >= ideal

\* A booking is forgotten only when two deductions overlap, when EXPIRE is lost,
\* or when a debt outlives the key: else the balance is that of all bookings,
\* up to what was refilled while the calls took their time.
UsesPersist == ~leaked => Balance <= ideal + Refill(Delay)

\* Admission looks before the requests before it have paid, but unless a use
\* is forgotten what they overdraw together is bounded by what all of them
\* may be charged: at most a whole use for each attempt.
OverdraftBounded ==
    ~leaked => Balance >= 1 - Cardinality(TokenRequests) * MaxAttempts * MaxUse
=============================================================================
