-------------------------- MODULE MCRequestLimiters --------------------------
(* Two tiers on either side, half a token a second before them.            *)
EXTENDS RequestLimiters, TLC

MCMarkLimits == 0 :> 1 @@ 1 :> 1
MCColorLimits == 0 :> 3 @@ 1 :> 1

Symmetry == Permutations(Requests)
=============================================================================
