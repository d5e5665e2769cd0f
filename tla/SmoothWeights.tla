---------------------------- MODULE SmoothWeights ----------------------------
(***************************************************************************)
(* Smooth weighted round robin, as the load balancer                       *)
(* (pkg/engines/load-balancer/round_robin.go) and the weighted moderation  *)
(* service (pkg/engines/moderator/weighted_service.go) both have it: every *)
(* backend's current weight grows by its weight, the first of the largest  *)
(* is picked and pays the total weight.                                    *)
(***************************************************************************)
EXTENDS Integers, Sequences, Functions

CONSTANTS
    Weights,       \* the configured weights, in the order of the backends
    DefaultWeight  \* what each weighs when all are configured 0: 100

ASSUME WeightsAssumption == Weights \in Seq(Nat) /\ Len(Weights) > 0
ASSUME DefaultAssumption == DefaultWeight \in Nat \ {0}

Backends == DOMAIN Weights
AllZero == \A b \in Backends : Weights[b] = 0
Weight == [b \in Backends |-> IF AllZero THEN DefaultWeight ELSE Weights[b]]

Total == SumFunction(Weight)

\* Altered: rand.Intn(total + 1).
InitialWeightsUpToTotal == [Backends -> 0 .. Total]
\* rand.Intn(w + 1): instances started together do not pick alike.
InitialWeights == {c \in [Backends -> 0 .. Total] : \A b \in Backends : c[b] <= Weight[b]}

Raised(current) == [b \in Backends |-> current[b] + Weight[b]]

\* Altered: the loop stops at the first positive one.
IsPickedFirst(b, raised) == raised[b] > 0 /\ \A c \in 1 .. b - 1 : raised[c] <= 0
\* The comparison starts at 0 and is strict: the first of the largest, and
\* only a positive one.
IsPicked(b, raised) ==
    /\ raised[b] > 0
    /\ \A c \in Backends : raised[c] < raised[b] \/ (raised[c] = raised[b] /\ b <= c)

\* Altered: the one picked pays its own weight.
PaidOwnWeight(raised, b) == [raised EXCEPT ![b] = @ - Weight[b]]
Paid(raised, b) == [raised EXCEPT ![b] = @ - Total]
=============================================================================
