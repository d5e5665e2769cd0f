------------------------- MODULE ConcurrencyLimiter -------------------------
(***************************************************************************)
(* The concurrency limiter of pkg/engines/limiter/concurrency_limiter.go.  *)
(*                                                                         *)
(* Every gateway process keeps its slots in one Redis sorted set: a slot   *)
(* is a member named by a fresh UUID, its score the second at which the    *)
(* owner last said it was alive.  A request takes a slot with the acquire  *)
(* script, a goroutine of the gateway renews the score once a minute, and  *)
(* closing the response cancels the goroutine, waits for it and removes    *)
(* the member.  A member whose score is Timeout seconds old is purged by   *)
(* the next acquire, which is how slots of crashed gateways come back.     *)
(*                                                                         *)
(* A request of the model is one Process call and its member in one.  The  *)
(* clock is in seconds, as nowUnix is.  A script is atomic, what is read   *)
(* before it (nowUnix) is not: the clock read, the script and the reply    *)
(* are steps of their own, and calls and replies can be lost.              *)
(***************************************************************************)
EXTENDS Integers, FiniteSets

CONSTANTS
    Requests,     \* the Process calls, of all gateways
    Concurrency,  \* the limit of the engine
    Timeout,      \* int64(e.timeout.Seconds())
    RenewPeriod,  \* the period of the renewal ticker, one minute in the code
    KeyTTL,       \* the EXPIRE of the key, 3600 in the scripts
    Latency,      \* bound: seconds between a clock read and the script and reply
    MaxFails,     \* bound: consecutive renewals that may fail
    MaxTime       \* bound: the last second of the model

ASSUME ConcurrencyAssumption == Concurrency \in Nat \ {0}
ASSUME TimingAssumption ==
    /\ {Timeout, Latency, MaxFails, MaxTime} \subseteq Nat
    /\ {RenewPeriod, KeyTTL} \subseteq Nat \ {0}

VARIABLES
    clock,     \* the wall clock, seconds
    score,     \* Redis: the score of each member, Absent when there is none
    expireAt,  \* Redis: when the key itself expires
    pc,        \* where each Process call is
    acqNow,    \* the nowUnix that allow() read
    renewer,   \* the renewal goroutine of each request
    nextTick,  \* when its ticker fires next
    renewCmd,  \* the nowUnix of a renewal script on its way to Redis, or Absent
    fails      \* renewals that failed in a row

redis == <<score, expireAt>>
renewal == <<renewer, nextTick, renewCmd, fails>>
vars == <<clock, redis, pc, acqNow, renewal>>

Absent == -1

Present(r) == score[r] # Absent
Members == {r \in Requests : Present(r)}

\* The requests past the limiter whose response is not closed yet.
InFlight == {r \in Requests : pc[r] \in {"serving", "open"}}

\* Where a request is before it begins and after it is over.
Outside == {"new", "denied", "failed", "done", "dead"}

Init ==
    /\ clock = 0
    /\ score = [r \in Requests |-> Absent]
    /\ expireAt = 0
    /\ pc = [r \in Requests |-> "new"]
    /\ acqNow = [r \in Requests |-> 0]
    /\ renewer = [r \in Requests |-> "off"]
    /\ nextTick = [r \in Requests |-> 0]
    /\ renewCmd = [r \in Requests |-> Absent]
    /\ fails = [r \in Requests |-> 0]

-----------------------------------------------------------------------------
(* The scripts.  Here and below, a definition that only an altered model   *)
(* uses (a limiter with one plausible mistake) stands before the one that  *)
(* it alters, and its comment starts with "Altered:".                      *)

\* Altered: the acquire script forgets ZREMRANGEBYSCORE.
PurgedNothing(now) == score
\* What ZREMRANGEBYSCORE key 0 expireBefore leaves.
Purged(now) ==
    [r \in Requests |-> IF score[r] <= now - Timeout THEN Absent ELSE score[r]]

\* The test that lets one more member in.
HasRoom(n) == n < Concurrency

\* Altered: the renewal is a plain ZADD, without the ZSCORE test.
RenewedBlindly(r) == [score EXCEPT ![r] = renewCmd[r]]
\* The scores a renewal leaves: it refreshes a member, it never creates one.
Renewed(r) == IF Present(r) THEN [score EXCEPT ![r] = renewCmd[r]] ELSE score

-----------------------------------------------------------------------------
(* allow(): read the clock, run the acquire script, take the reply.        *)

\* Altered: expireBefore is passed where nowUnix belongs.
StartWithExpiry(r) ==
    /\ pc[r] = "new"
    /\ pc' = [pc EXCEPT ![r] = "acquiring"]
    /\ acqNow' = [acqNow EXCEPT ![r] = clock - Timeout]
    /\ UNCHANGED <<clock, redis, renewal>>
Start(r) ==
    /\ pc[r] = "new"
    /\ pc' = [pc EXCEPT ![r] = "acquiring"]
    /\ acqNow' = [acqNow EXCEPT ![r] = clock]
    /\ UNCHANGED <<clock, redis, renewal>>

AcquireScript(r) ==
    LET kept == Purged(acqNow[r])
        count == Cardinality({q \in Requests : kept[q] # Absent})
    IN  /\ pc[r] = "acquiring"
        /\ \/ /\ HasRoom(count)
              /\ score' = [kept EXCEPT ![r] = acqNow[r]]
              /\ expireAt' = clock + KeyTTL
              /\ pc' = [pc EXCEPT ![r] = "granted"]
           \/ /\ ~HasRoom(count)
              /\ score' = kept
              /\ pc' = [pc EXCEPT ![r] = "denied"]
              /\ UNCHANGED expireAt
        /\ UNCHANGED <<clock, acqNow, renewal>>

\* The script never ran, or it ran and the reply was lost or malformed: the
\* caller sees an error, and in the second case the member stays behind.
AcquireFails(r) ==
    /\ pc[r] \in {"acquiring", "granted"}
    /\ pc' = [pc EXCEPT ![r] = "failed"]
    /\ UNCHANGED <<clock, redis, acqNow, renewal>>

\* The reply starts the renewal goroutine and next.Process.
Granted(r) ==
    /\ pc[r] = "granted"
    /\ pc' = [pc EXCEPT ![r] = "serving"]
    /\ renewer' = [renewer EXCEPT ![r] = "idle"]
    /\ nextTick' = [nextTick EXCEPT ![r] = clock + RenewPeriod]
    /\ UNCHANGED <<clock, redis, acqNow, renewCmd, fails>>

-----------------------------------------------------------------------------
(* Process(): done is called at once, or when the response is closed, or   *)
(* never: a panic in next.Process unwinds past it.                         *)

Respond(r) ==
    /\ pc[r] = "serving"
    /\ \/ pc' = [pc EXCEPT ![r] = "open"]      \* OnClose(done)
       \/ pc' = [pc EXCEPT ![r] = "closing"]   \* an error, or nothing to close
       \/ pc' = [pc EXCEPT ![r] = "panicked"]
    /\ UNCHANGED <<clock, redis, acqNow, renewal>>

Close(r) ==
    /\ pc[r] = "open"
    /\ pc' = [pc EXCEPT ![r] = "closing"]
    /\ UNCHANGED <<clock, redis, acqNow, renewal>>

\* done(): renewDone is closed, so ZREM is sent; its failure is only logged,
\* whether or not Redis has run it.
Release(r) ==
    /\ pc[r] = "closing"
    /\ renewer[r] = "exited"
    /\ pc' = [pc EXCEPT ![r] = "done"]
    /\ score' \in {[score EXCEPT ![r] = Absent], score}
    /\ UNCHANGED <<clock, expireAt, acqNow, renewal>>

-----------------------------------------------------------------------------
(* renewMember(): one goroutine a request.                                 *)

TickFires(r) ==
    /\ renewer[r] = "idle"
    /\ pc[r] # "closing"
    /\ clock >= nextTick[r]
    /\ renewer' = [renewer EXCEPT ![r] = "waiting"]
    /\ renewCmd' = [renewCmd EXCEPT ![r] = clock]
    /\ nextTick' = [nextTick EXCEPT ![r] = @ + RenewPeriod]
    /\ UNCHANGED <<clock, redis, pc, acqNow, fails>>

\* Redis runs the script.  The reply reaches the goroutine unless it has
\* given up on this command: it goes back to its ticker, or ends when the
\* member is gone.
RenewScript(r) ==
    /\ renewCmd[r] # Absent
    /\ score' = Renewed(r)
    /\ expireAt' = IF Present(r) THEN clock + KeyTTL ELSE expireAt
    /\ renewCmd' = [renewCmd EXCEPT ![r] = Absent]
    /\ IF renewer[r] = "waiting"
       THEN /\ renewer' = [renewer EXCEPT ![r] = IF Present(r) THEN "idle" ELSE "exited"]
            /\ fails' = [fails EXCEPT ![r] = 0]
       ELSE UNCHANGED <<renewer, fails>>
    /\ UNCHANGED <<clock, pc, acqNow, nextTick>>

\* Altered: return for continue.
RenewFailsThenStops(r) ==
    /\ renewer[r] = "waiting"
    /\ fails[r] < MaxFails
    /\ renewer' = [renewer EXCEPT ![r] = "exited"]
    /\ fails' = [fails EXCEPT ![r] = @ + 1]
    /\ renewCmd' \in {renewCmd, [renewCmd EXCEPT ![r] = Absent]}
    /\ UNCHANGED <<clock, redis, pc, acqNow, nextTick>>
\* The call fails: the goroutine logs and waits for the next tick.  The
\* command may be lost or may still reach Redis.
RenewFails(r) ==
    /\ renewer[r] = "waiting"
    /\ fails[r] < MaxFails
    /\ renewer' = [renewer EXCEPT ![r] = "idle"]
    /\ fails' = [fails EXCEPT ![r] = @ + 1]
    /\ renewCmd' \in {renewCmd, [renewCmd EXCEPT ![r] = Absent]}
    /\ UNCHANGED <<clock, redis, pc, acqNow, nextTick>>

\* Altered: the goroutine does not watch ctx.Done().
RenewerDeaf(r) == FALSE /\ UNCHANGED vars
\* renewCancel(): a goroutine that sleeps ends, one that waits for Redis gets
\* the cancellation as an error and ends.  The command is still on its way.
RenewerCancelled(r) ==
    /\ pc[r] = "closing"
    /\ renewer[r] \in {"idle", "waiting"}
    /\ renewer' = [renewer EXCEPT ![r] = "exited"]
    /\ UNCHANGED <<clock, redis, pc, acqNow, nextTick, renewCmd, fails>>

-----------------------------------------------------------------------------
(* The environment.                                                        *)

\* The gateway process dies: the request and its goroutine are gone, a
\* command on its way may still reach Redis.
Crash(r) ==
    /\ pc[r] \notin Outside
    /\ pc' = [pc EXCEPT ![r] = "dead"]
    /\ renewer' = [renewer EXCEPT ![r] = "off"]
    /\ UNCHANGED <<clock, redis, acqNow, nextTick, renewCmd, fails>>

\* No call and no goroutine that is ready to run is later than Latency.
Timely(r) ==
    /\ pc[r] \in {"acquiring", "granted"} => clock < acqNow[r] + Latency
    /\ renewCmd[r] # Absent => clock < renewCmd[r] + Latency
    /\ renewer[r] = "idle" /\ pc[r] # "closing" => clock < nextTick[r] + Latency

\* One second passes; Redis drops a key that has expired.
Tick ==
    /\ clock < MaxTime
    /\ \A r \in Requests : Timely(r)
    /\ clock' = clock + 1
    /\ score' = IF clock + 1 >= expireAt THEN [r \in Requests |-> Absent] ELSE score
    /\ UNCHANGED <<expireAt, pc, acqNow, renewal>>

\* Every request is over.
Finished ==
    /\ \A r \in Requests : pc[r] \in (Outside \ {"new"}) \cup {"panicked"}
    /\ UNCHANGED vars

-----------------------------------------------------------------------------
Renewal(r) == TickFires(r) \/ RenewScript(r) \/ RenewFails(r) \/ RenewerCancelled(r)
Request(r) ==
    \/ Start(r) \/ AcquireScript(r) \/ AcquireFails(r) \/ Granted(r)
    \/ Respond(r) \/ Close(r) \/ Release(r)

Next ==
    \/ \E r \in Requests : Request(r) \/ Renewal(r) \/ Crash(r)
    \/ Tick
    \/ Finished

\* done() runs on the goroutine that closes the response, renewMember on its
\* own: the Go scheduler lets both go on.
Fairness == \A r \in Requests : WF_vars(RenewerCancelled(r)) /\ WF_vars(Release(r))

Spec == Init /\ [][Next]_vars /\ Fairness

-----------------------------------------------------------------------------
(* Properties.                                                             *)

PCs == {"new", "acquiring", "granted", "denied", "failed", "serving", "open",
        "closing", "panicked", "done", "dead"}

TypeOK ==
    /\ clock \in Nat
    /\ score \in [Requests -> Nat \cup {Absent}]
    /\ expireAt \in Nat
    /\ pc \in [Requests -> PCs]
    /\ acqNow \in [Requests -> Nat]
    /\ renewer \in [Requests -> {"off", "idle", "waiting", "exited"}]
    /\ nextTick \in [Requests -> Nat]
    /\ renewCmd \in [Requests -> Nat \cup {Absent}]
    /\ fails \in [Requests -> Nat]

\* The sorted set never holds more members than the limit, whatever is lost,
\* late, crashed or expired (the ZCARD test of the acquire script).
MembersBounded == Cardinality(Members) <= Concurrency

\* "Maximum concurrency": no more than the limit are past the limiter.
InFlightBounded == Cardinality(InFlight) <= Concurrency

\* A member that is gone never comes back, even by a renewal that was sent
\* before the release and reaches Redis after it.
NoResurrection ==
    [][\A r \in Requests : ~Present(r) /\ Present(r)' => pc[r] = "acquiring"]_vars

\* A request is denied only for members whose last sign of life is younger
\* than Timeout: what crashed gateways leave behind never denies for longer.
DeniedByTheLiving ==
    [][\A r \in Requests : pc[r] = "acquiring" /\ pc'[r] = "denied" =>
          Cardinality({q \in Members : score[q] > acqNow[r] - Timeout}) >= Concurrency]_vars

\* done() returns: waiting for the renewal goroutine never hangs the close.
CloseCompletes ==
    \A r \in Requests : pc[r] = "closing" ~> pc[r] \in {"done", "dead"}

\* What Timeout has to be for a live member never to look stale: the reply of
\* the acquire, the tick and the renewal may each be Latency late.  The code
\* checks only that Timeout is positive.
Gap(f) == (f + 1) * RenewPeriod
RenewalsKeepUp ==
    /\ Latency <= RenewPeriod
    /\ Timeout > 3 * Latency + Gap(MaxFails)
    /\ KeyTTL > 3 * Latency + Gap(MaxFails)

\* Why they keep up, the inductive part: no score is older than the renewals
\* that may still be missing allow.
ScoreRecorded(r) ==
    Present(r) => score[r] <= clock /\ expireAt >= score[r] + KeyTTL
CommandRecent(r) ==
    renewCmd[r] # Absent =>
        score[r] <= renewCmd[r] /\ renewCmd[r] <= clock /\ clock <= renewCmd[r] + Latency
NotYetServing(r) ==
    /\ pc[r] \in {"new", "acquiring", "granted"} =>
          renewer[r] = "off" /\ renewCmd[r] = Absent /\ fails[r] = 0
    /\ pc[r] \in {"acquiring", "granted"} =>
          acqNow[r] <= clock /\ clock <= acqNow[r] + Latency
    /\ pc[r] = "granted" => score[r] = acqNow[r]
RenewerOnTime(r) ==
    \/ /\ renewer[r] = "idle"
       /\ clock <= nextTick[r] + Latency
       /\ nextTick[r] <= score[r] + Latency + Gap(fails[r])
    \/ /\ renewer[r] = "waiting"
       /\ renewCmd[r] # Absent
       /\ nextTick[r] - RenewPeriod <= renewCmd[r]
       /\ renewCmd[r] <= nextTick[r] - RenewPeriod + Latency
       /\ nextTick[r] <= score[r] + Latency + Gap(fails[r]) + RenewPeriod
HoldsSlot(r) ==
    r \in InFlight => Present(r) /\ fails[r] <= MaxFails /\ RenewerOnTime(r)
Alive(r) ==
    /\ ScoreRecorded(r) /\ CommandRecent(r) /\ NotYetServing(r) /\ HoldsSlot(r)
AliveInv == expireAt <= clock + KeyTTL /\ \A r \in Requests : Alive(r)

\* While renewals keep up, the limiter is a bounded admission.
Abstract == INSTANCE BoundedAdmission WITH inside <- InFlight, Limit <- Concurrency
BoundedAdmissionSpec == Abstract!Spec
=============================================================================
