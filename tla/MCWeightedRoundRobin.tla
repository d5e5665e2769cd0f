------------------------ MODULE MCWeightedRoundRobin ------------------------
(* Four backends, the second one switched off by weight 0.                 *)
EXTENDS WeightedRoundRobin, TLC

MCWeights == <<2, 0, 1, 1>>
=============================================================================
