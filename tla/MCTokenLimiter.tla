--------------------------- MODULE MCTokenLimiter ---------------------------
(* A token a second, so that no fraction of one is rounded away.           *)
EXTENDS TokenLimiter, TLC

Symmetry == Permutations(TokenRequests)
=============================================================================
