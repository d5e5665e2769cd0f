--------------------------- MODULE RequestLimiters ---------------------------
(***************************************************************************)
(* The token buckets that bound how many requests per time pass:           *)
(* pkg/engines/limiter/request_limiter.go, request_color_marker.go and     *)
(* request_color_limiter.go, as a gateway chains them: a request passes    *)
(* the request limiter, then the marker, which takes a token of the first  *)
(* tier that has one and so gives the request its priority, then the       *)
(* color limiter, which takes a token of the tier of that priority and one *)
(* of tier 0, of which it leaves some to the tiers above.                  *)
(*                                                                         *)
(* A bucket is a Redis hash that a script reads, refills by the time since *)
(* it was last written and, when it admits, writes: a script that denies   *)
(* writes nothing.  The time is the caller's: the clocks of the gateways   *)
(* differ by up to Skew seconds, and all times are relative to the slowest *)
(* of them.  A bucket is not stored for longer than it takes to be full.   *)
(***************************************************************************)
EXTENDS Integers

CONSTANTS
    Requests,
    PlainBurst, PlainLimit,  \* burst and limit of the request limiter
    MarkLast, ColorLast,     \* the last tiers, counted from 0
    MarkLimits, ColorLimits, \* the limits of each tier
    Window,                  \* seconds, of all three
    Skew                     \* bound: seconds between the clocks of two gateways

ASSUME LimitsAssumption ==
    /\ PlainBurst \in Nat \ {0} /\ PlainLimit \in Nat \ {0}
    /\ MarkLast \in Nat /\ MarkLimits \in [0..MarkLast -> Nat]
    /\ ColorLast \in Nat /\ ColorLimits \in [0..ColorLast -> Nat]
ASSUME WindowAssumption == Window \in Nat \ {0}
ASSUME SkewAssumption == Skew \in {0, 1}

MarkTiers == 0..MarkLast
ColorTiers == 0..ColorLast

\* The Redis keys.
Plain == <<"plain", 0>>
Mark(i) == <<"mark", i>>
Color(i) == <<"color", i>>
Keys == {Plain} \cup {Mark(i) : i \in MarkTiers} \cup {Color(i) : i \in ColorTiers}

Limit(k) == IF k[1] = "mark" THEN MarkLimits[k[2]]
            ELSE IF k[1] = "color" THEN ColorLimits[k[2]] ELSE PlainLimit
Burst(k) == IF k = Plain THEN PlainBurst ELSE Limit(k)

\* Altered: without the second of buffer.
TtlTight(k) == IF Limit(k) = 0 THEN 1 ELSE (Burst(k) * Window + Limit(k) - 1) \div Limit(k)
\* The time to refill from 0, rounded up, and a second.
Ttl(k) == IF Limit(k) = 0 THEN 1 ELSE (Burst(k) * Window + Limit(k) - 1) \div Limit(k) + 1

VARIABLES
    live,       \* the keys that Redis has
    tokens,     \* the field tokens
    age,        \* seconds from the field lastRefill to now
    left,       \* seconds until the key expires
    pc,         \* where each request is
    priority,   \* in the context of each request
    debt,       \* history: what each bucket gave away and time has not paid back
    lastTaker   \* history: the tier that took the last token of color tier 0

buckets == <<live, tokens, age, left>>
vars == <<buckets, pc, priority, debt, lastTaker>>

Init ==
    /\ live = {}
    /\ tokens = [k \in Keys |-> Burst(k)]
    /\ age = [k \in Keys |-> 0]
    /\ left = [k \in Keys |-> 0]
    /\ pc = [r \in Requests |-> "new"]
    /\ priority = [r \in Requests |-> 0]
    /\ debt = [k \in Keys |-> 0]
    /\ lastTaker = 0

-----------------------------------------------------------------------------
(* The scripts.                                                            *)

Smaller(a, b) == IF a < b THEN a ELSE b

\* The tokens of a bucket on a clock that is c seconds fast.
Tokens(k, c) ==
    IF k \in live
    THEN Smaller(Burst(k), tokens[k] + ((age[k] + c) * Limit(k)) \div Window)
    ELSE Burst(k)

\* One token of each of the keys.
Consume(ks, c) ==
    /\ live' = live \cup ks
    /\ tokens' = [k \in Keys |-> IF k \in ks THEN Tokens(k, c) - 1 ELSE tokens[k]]
    /\ age' = [k \in Keys |-> IF k \in ks THEN -c ELSE age[k]]
    /\ left' = [k \in Keys |-> IF k \in ks THEN Ttl(k) ELSE left[k]]
    /\ debt' = [k \in Keys |-> IF k \in ks THEN debt[k] + Window ELSE debt[k]]

\* Altered: a denial writes the bucket back.
DenyAndWrite(ks, c) ==
    /\ live' = live \cup ks
    /\ tokens' = [k \in Keys |-> IF k \in ks THEN Tokens(k, c) ELSE tokens[k]]
    /\ age' = [k \in Keys |-> IF k \in ks THEN -c ELSE age[k]]
    /\ left' = [k \in Keys |-> IF k \in ks THEN Ttl(k) ELSE left[k]]
    /\ UNCHANGED debt
Deny(ks, c) == UNCHANGED <<buckets, debt>>

\* A request goes on, or ends with an error: the reply of a script that ran
\* can be lost.  A request that ends makes place for the next one.
GoesOn(r, to) == pc' \in {[pc EXCEPT ![r] = to], [pc EXCEPT ![r] = "new"]}

AskPlain(r, c) ==
    /\ pc[r] = "new"
    /\ \/ /\ Tokens(Plain, c) >= 1
          /\ Consume({Plain}, c)
          /\ GoesOn(r, "admitted")
       \/ /\ Tokens(Plain, c) < 1
          /\ Deny({Plain}, c)
          /\ pc' = [pc EXCEPT ![r] = "new"]
    /\ UNCHANGED <<priority, lastTaker>>

HasToken(i, c) == MarkLimits[i] >= 1 /\ Tokens(Mark(i), c) >= 1

AskMarker(r, c) ==
    /\ pc[r] = "admitted"
    /\ \/ \E i \in MarkTiers :
             /\ HasToken(i, c)
             /\ \A j \in MarkTiers : j < i => ~HasToken(j, c)
             /\ Consume({Mark(i)}, c)
             /\ priority' = [priority EXCEPT ![r] = MarkLast - i]
             /\ GoesOn(r, "marked")
       \/ /\ \A i \in MarkTiers : ~HasToken(i, c)
          /\ Deny({}, c)
          /\ pc' = [pc EXCEPT ![r] = "new"]
          /\ UNCHANGED priority
    /\ UNCHANGED lastTaker

\* Priorities above those of the limiter are its highest.
TierOf(p) == IF p >= ColorLast THEN 0 ELSE ColorLast - p

\* Altered: one token less is left.
LeavesEnoughLess(i, c) == Tokens(Color(0), c) >= i
\* Tier 0 keeps as many tokens as there are tiers above tier i.
LeavesEnough(i, c) == Tokens(Color(0), c) > i

\* Both buckets pay, or the only one of tier 0.
PaidBy(i) == {Color(i), Color(0)}

AskColor(r, c) ==
    /\ pc[r] = "marked"
    /\ LET i == TierOf(priority[r])
       IN  \/ /\ Tokens(Color(i), c) >= 1 /\ LeavesEnough(i, c)
              /\ Consume(PaidBy(i), c)
              /\ lastTaker' = i
              /\ GoesOn(r, "new")
           \/ /\ Tokens(Color(i), c) < 1 \/ ~LeavesEnough(i, c)
              /\ Deny(PaidBy(i), c)
              /\ pc' = [pc EXCEPT ![r] = "new"]
              /\ UNCHANGED lastTaker
    /\ priority' = [priority EXCEPT ![r] = 0]

Ask(r) == \E c \in 0..Skew : AskPlain(r, c) \/ AskMarker(r, c) \/ AskColor(r, c)

\* Redis does not answer, and the script did not run.
ScriptFails(r) ==
    /\ pc[r] \in {"admitted", "marked"}
    /\ pc' = [pc EXCEPT ![r] = "new"]
    /\ priority' = [priority EXCEPT ![r] = 0]
    /\ UNCHANGED <<buckets, debt, lastTaker>>

-----------------------------------------------------------------------------
(* Time.                                                                   *)

\* A key expires within the second in which its time is over.
Expire(k) ==
    /\ k \in live
    /\ left[k] = 0
    /\ live' = live \ {k}
    /\ tokens' = [tokens EXCEPT ![k] = Burst(k)]
    /\ age' = [age EXCEPT ![k] = 0]
    /\ UNCHANGED <<left, pc, priority, debt, lastTaker>>

Tick ==
    /\ \A k \in live : left[k] > 0
    /\ age' = [k \in Keys |-> IF k \in live THEN age[k] + 1 ELSE age[k]]
    /\ left' = [k \in Keys |-> IF k \in live THEN left[k] - 1 ELSE left[k]]
    /\ debt' = [k \in Keys |-> IF debt[k] > Limit(k) THEN debt[k] - Limit(k) ELSE 0]
    /\ UNCHANGED <<live, tokens, pc, priority, lastTaker>>

Next ==
    \/ \E r \in Requests : Ask(r) \/ ScriptFails(r)
    \/ \E k \in Keys : Expire(k)
    \/ Tick

Spec == Init /\ [][Next]_vars

-----------------------------------------------------------------------------
(* Properties.                                                             *)

TypeOK ==
    /\ live \subseteq Keys
    /\ tokens \in [Keys -> Nat]
    /\ \A k \in Keys : tokens[k] <= Burst(k)
    /\ age \in [Keys -> Int]
    /\ \A k \in Keys : age[k] >= -Skew
    /\ left \in [Keys -> Nat]
    /\ pc \in [Requests -> {"new", "admitted", "marked"}]
    /\ priority \in [Requests -> Nat]
    /\ debt \in [Keys -> Nat]
    /\ lastTaker \in ColorTiers

\* In no span of time does a bucket admit more than its burst and what its
\* rate gives in that time and Skew seconds, with clocks that differ and keys
\* that expire: debt is the most that any span up to now has admitted beyond
\* the rate, in units of 1/Window token.
RateBounded == \A k \in Keys : debt[k] <= Burst(k) * Window + Skew * Limit(k)

\* A request of a lower tier leaves tier 0 tokens for every tier above its
\* own: after it, on a clock as fast as any, those tokens are there.
LowLeavesRoom == Tokens(Color(0), Skew) >= lastTaker

\* Denials do not put off the refill: a bucket whose tokens time has paid
\* back has one to give, to every caller whose clock is the fastest.
RepaidBucketGives ==
    \A k \in Keys : debt[k] = 0 /\ Limit(k) > 0 => Tokens(k, Skew) >= 1
=============================================================================
