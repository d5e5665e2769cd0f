-------------------------- MODULE ColorConcurrency --------------------------
(***************************************************************************)
(* The concurrency color marker above the concurrency color limiter        *)
(* (pkg/engines/limiter/concurrency_color_marker.go and                    *)
(* concurrency_color_limiter.go).                                          *)
(*                                                                         *)
(* The marker has one sorted set per band and puts a request into the      *)
(* first band with room; the band becomes the request's priority, handed   *)
(* down in the context.  The limiter has one sorted set per tier: tier 0   *)
(* caps everything, tier t > 0 caps the requests of one lower priority,    *)
(* and these leave t slots of tier 0 free for the priorities above.        *)
(*                                                                         *)
(* Renewal may come at any time or too late, so that members may be purged *)
(* while their request runs: what is stated here does not depend on it.    *)
(***************************************************************************)
EXTENDS Integers, Sequences, FiniteSets

CONSTANTS
    ColorRequests, \* the requests, of all gateways
    MarkerRates,   \* the marker's bands, highest priority first
    Total,         \* the limiter's concurrency
    PerPriority,   \* the limiter's concurrency_rates
    Timeout,       \* age at which a member is purged
    KeyTTL,        \* age at which a whole key expires
    MaxTime        \* bound: the last second of the model

ASSUME RatesAssumption ==
    /\ MarkerRates \in Seq(Int) /\ Len(MarkerRates) > 0
    /\ Total \in Nat \ {0}
    /\ PerPriority \in Seq(Int)
ASSUME TimeAssumption ==
    /\ {Timeout, KeyTTL} \subseteq Nat \ {0} /\ MaxTime \in Nat
    /\ Timeout <= KeyTTL

Absent == -1

\* Negative entries of a configured list count as 0.
Clamped(rates) == [i \in DOMAIN rates |-> IF rates[i] < 0 THEN 0 ELSE rates[i]]

\* The marker's bands and the limiter's tiers: their rates from index 0.
NormalizedMarkerRates == Clamped(MarkerRates)
LimiterRates == <<Total>> \o Clamped(PerPriority)
Bands == 0 .. Len(MarkerRates) - 1
Tiers == 0 .. Len(PerPriority)
BandRate(b) == NormalizedMarkerRates[b + 1]
TierRate(t) == LimiterRates[t + 1]

VARIABLES
    clock,    \* the wall clock, seconds
    band,     \* Redis: for each band of the marker the score of each member
    tier,     \* Redis: for each tier of the limiter the score of each member
    place,    \* where each request is
    prio      \* the priority in its context, or NoPriority

colorVars == <<clock, band, tier, place, prio>>

NoPriority == -1

\* The limiter's tier for a request: priorities above the table use tier 0,
\* none at all is the lowest.
ColorTier(r) ==
    LET p == IF prio[r] = NoPriority THEN 0 ELSE prio[r]
    IN  IF p >= Len(PerPriority) THEN 0 ELSE Len(PerPriority) - p

MembersOf(key) == {r \in ColorRequests : key[r] # Absent}
Count(key) == Cardinality(MembersOf(key))
Purged(key) ==
    [r \in ColorRequests |-> IF key[r] <= clock - Timeout THEN Absent ELSE key[r]]
Stored(key, r) == [key EXCEPT ![r] = clock]
Removed(key, r) == [key EXCEPT ![r] = Absent]

ColorInit ==
    /\ clock = 0
    /\ band = [b \in Bands |-> [r \in ColorRequests |-> Absent]]
    /\ tier = [t \in Tiers |-> [r \in ColorRequests |-> Absent]]
    /\ place = [r \in ColorRequests |-> "new"]
    /\ prio = [r \in ColorRequests |-> NoPriority]

-----------------------------------------------------------------------------
(* The marker.                                                             *)

FreeBands(purged) == {b \in Bands : BandRate(b) > 0 /\ Count(purged[b]) < BandRate(b)}

\* The priority a band stands for.
Priority(b) == Len(MarkerRates) - 1 - b

\* The first free band takes the request.
MarkerAllow(r) ==
    LET purged == [b \in Bands |-> Purged(band[b])]
        free == FreeBands(purged)
    IN  /\ place[r] = "new"
        /\ \/ \E b \in free :
                /\ \A c \in free : b <= c
                /\ band' = [purged EXCEPT ![b] = Stored(@, r)]
                /\ place' = [place EXCEPT ![r] = "marked"]
                /\ prio' = [prio EXCEPT ![r] = Priority(b)]
           \/ /\ free = {}
              /\ band' = purged
              /\ place' = [place EXCEPT ![r] = "over"]
              /\ UNCHANGED prio
        /\ UNCHANGED <<clock, tier>>

\* The script does not run: the request ends with the error.
MarkerErrs(r) ==
    /\ place[r] = "new"
    /\ place' = [place EXCEPT ![r] = "over"]
    /\ UNCHANGED <<clock, band, tier, prio>>

\* A request of a route that has no marker, or one of another namespace.
Unmarked(r) ==
    /\ place[r] = "new"
    /\ place' = [place EXCEPT ![r] = "marked"]
    /\ UNCHANGED <<clock, band, tier, prio>>

-----------------------------------------------------------------------------
(* The limiter.                                                            *)

\* Altered: nothing is reserved for the priorities above.
DualHasRoomUnreserved(t, own, all) ==
    Count(own) < TierRate(t) /\ Count(all) < TierRate(0)
\* A lower priority needs room in its own tier, and t slots more than one in
\* tier 0.
DualHasRoom(t, own, all) ==
    Count(own) < TierRate(t) /\ Count(all) < TierRate(0) - t

\* Where the request goes from the limiter's decision: on a denial the marker
\* above gets the error and releases at once.
Decide(r, allowed) ==
    /\ place' = [place EXCEPT ![r] = IF allowed THEN "serving" ELSE "unmarking"]
    /\ UNCHANGED <<clock, band, prio>>

\* Altered: the top priority leaves the lower ones' reserve free as well.
SingleHasRoomReserved(all) == Count(all) < TierRate(0) - Len(PerPriority)
\* The script for the top priority purges and tests tier 0 alone.
SingleHasRoom(all) == Count(all) < TierRate(0)
AllowSingle(r) ==
    LET all == Purged(tier[0])
    IN  /\ place[r] = "marked"
        /\ ColorTier(r) = 0
        /\ \/ /\ SingleHasRoom(all)
              /\ tier' = [tier EXCEPT ![0] = Stored(all, r)]
              /\ Decide(r, TRUE)
           \/ /\ ~SingleHasRoom(all)
              /\ tier' = [tier EXCEPT ![0] = all]
              /\ Decide(r, FALSE)

\* Altered: the member goes into tier 0 alone.
StoredInAllOnly(r, t, own, all) == [tier EXCEPT ![t] = own, ![0] = Stored(all, r)]
\* The dual script stores the member under both keys.
StoredInBoth(r, t, own, all) == [tier EXCEPT ![t] = Stored(own, r), ![0] = Stored(all, r)]

AllowDual(r) ==
    LET t == ColorTier(r)
        own == Purged(tier[t])
        all == Purged(tier[0])
    IN  /\ place[r] = "marked"
        /\ t > 0
        /\ \/ /\ DualHasRoom(t, own, all)
              /\ tier' = StoredInBoth(r, t, own, all)
              /\ Decide(r, TRUE)
           \/ /\ ~DualHasRoom(t, own, all)
              /\ tier' = [tier EXCEPT ![t] = own, ![0] = all]
              /\ Decide(r, FALSE)

\* Neither script runs: the marker above gets the error as it gets a denial.
LimiterErrs(r) ==
    /\ place[r] = "marked"
    /\ Decide(r, FALSE)
    /\ UNCHANGED tier

-----------------------------------------------------------------------------
(* Renewal by the goroutines of a running request.  A goroutine that does  *)
(* not find its member ends, and no later script brings the member back:   *)
(* it is as if it went on without effect.  A failed call changes nothing.  *)

RenewMarker(r) ==
    /\ place[r] \in {"marked", "serving", "unmarking"}
    /\ \E b \in Bands :
          /\ prio[r] = Priority(b)
          /\ band[b][r] # Absent
          /\ band' = [band EXCEPT ![b] = Stored(@, r)]
    /\ UNCHANGED <<clock, tier, place, prio>>

RenewLimiterSingle(r) ==
    /\ place[r] = "serving"
    /\ ColorTier(r) = 0
    /\ tier[0][r] # Absent
    /\ tier' = [tier EXCEPT ![0] = Stored(@, r)]
    /\ UNCHANGED <<clock, band, place, prio>>

RenewLimiterDual(r) ==
    LET t == ColorTier(r)
    IN  /\ place[r] = "serving"
        /\ t > 0
        /\ tier[t][r] # Absent /\ tier[0][r] # Absent
        /\ tier' = [tier EXCEPT ![t] = Stored(@, r), ![0] = Stored(@, r)]
        /\ UNCHANGED <<clock, band, place, prio>>

-----------------------------------------------------------------------------
(* Closing the response runs the callbacks in the order of registration:   *)
(* the limiter's, then the marker's.  A failed ZREM is only logged.        *)

LimiterDone(r) ==
    /\ place[r] = "serving"
    /\ place' = [place EXCEPT ![r] = "unmarking"]
    /\ \/ tier' = [t \in Tiers |-> IF t \in {0, ColorTier(r)} THEN Removed(tier[t], r) ELSE tier[t]]
       \/ UNCHANGED tier
    /\ UNCHANGED <<clock, band, prio>>

MarkerDone(r) ==
    /\ place[r] = "unmarking"
    /\ place' = [place EXCEPT ![r] = "over"]
    /\ \/ band' = [b \in Bands |-> Removed(band[b], r)]
       \/ UNCHANGED band
    /\ UNCHANGED <<clock, tier, prio>>

-----------------------------------------------------------------------------
(* The environment.                                                        *)

Crash(r) ==
    /\ place[r] \in {"marked", "serving", "unmarking"}
    /\ place' = [place EXCEPT ![r] = "over"]
    /\ UNCHANGED <<clock, band, tier, prio>>

\* EXPIRE is refreshed whenever a member is stored: a key goes only when all
\* its members are KeyTTL old.
Expirable(key) == \A r \in ColorRequests : key[r] <= clock - KeyTTL
ExpiredKey == [r \in ColorRequests |-> Absent]
KeyExpires ==
    /\ \/ \E b \in Bands : /\ Expirable(band[b])
                           /\ band' = [band EXCEPT ![b] = ExpiredKey]
                           /\ UNCHANGED tier
       \/ \E t \in Tiers : /\ Expirable(tier[t])
                           /\ tier' = [tier EXCEPT ![t] = ExpiredKey]
                           /\ UNCHANGED band
    /\ UNCHANGED <<clock, place, prio>>

ColorTick ==
    /\ clock < MaxTime
    /\ clock' = clock + 1
    /\ UNCHANGED <<band, tier, place, prio>>

Finished ==
    /\ \A r \in ColorRequests : place[r] = "over"
    /\ UNCHANGED colorVars

ColorNext ==
    \/ \E r \in ColorRequests :
          \/ MarkerAllow(r) \/ MarkerErrs(r) \/ Unmarked(r)
          \/ AllowSingle(r) \/ AllowDual(r) \/ LimiterErrs(r)
          \/ RenewMarker(r) \/ RenewLimiterSingle(r) \/ RenewLimiterDual(r)
          \/ LimiterDone(r) \/ MarkerDone(r) \/ Crash(r)
    \/ KeyExpires
    \/ ColorTick
    \/ Finished

ColorSpec == ColorInit /\ [][ColorNext]_colorVars

-----------------------------------------------------------------------------
(* Properties.                                                             *)

Scores == 0 .. MaxTime \cup {Absent}

ColorTypeOK ==
    /\ clock \in 0 .. MaxTime
    /\ band \in [Bands -> [ColorRequests -> Scores]]
    /\ tier \in [Tiers -> [ColorRequests -> Scores]]
    /\ place \in [ColorRequests -> {"new", "marked", "serving", "unmarking", "over"}]
    /\ prio \in [ColorRequests -> {NoPriority} \cup Bands]

\* The requests of tier t and below never take the last t slots of tier 0.
LowerHolders(t) == {r \in MembersOf(tier[0]) : ColorTier(r) >= t}
SlotsReserved ==
    \A t \in Tiers \ {0} :
        LowerHolders(t) # {} => Cardinality(LowerHolders(t)) <= TierRate(0) - t

\* A member of tier 0 that counts is counted by its own tier as well.
Fresh(key, r) == key[r] > clock - Timeout /\ key[r] # Absent
CountedInBoth ==
    \A r \in ColorRequests : Fresh(tier[0], r) => tier[ColorTier(r)][r] = tier[0][r]

\* When lower tiers are configured, the top priority is denied only while
\* another request of the top priority holds a slot: a flood of lower
\* priorities alone never shuts it out.
TopDeniedByTop ==
    [][\A r \in ColorRequests :
          AllowSingle(r) /\ place'[r] = "unmarking"
          => \E q \in MembersOf(tier[0]) : ColorTier(q) = 0]_colorVars

=============================================================================
