------------------------ MODULE MCShardKeyConcurrency ------------------------
(* A static backend of capacity 2 and a ceiling of 50 %, and a dynamic one. *)
EXTENDS ShardKeyConcurrency, TLC

CONSTANTS b1, b2

MCCapacity == (b1 :> 2) @@ (b2 :> 1)
MCCeiling == (b1 :> 50) @@ (b2 :> 40)

Hit(b, isStrong) == [to |-> b, strong |-> isStrong]
MCPlans == {<<>>, <<Hit(b1, TRUE), Hit(b2, FALSE)>>, <<Hit(b1, FALSE)>>, <<Hit(b2, TRUE)>>}
=============================================================================
