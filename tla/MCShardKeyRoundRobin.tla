------------------------ MODULE MCShardKeyRoundRobin ------------------------
(* Two named backends, one of them of weight 0, and two without a name.    *)
EXTENDS ShardKeyRoundRobin, TLC

CONSTANTS r1, r2, r3, k1, k2

MCWeights == <<1, 0, 1, 1>>
MCNames == <<1, 2, 0, 0>>
MCShardKeys == (r1 :> <<k1>>) @@ (r2 :> <<k1, k2>>) @@ (r3 :> <<k2>>)
=============================================================================
