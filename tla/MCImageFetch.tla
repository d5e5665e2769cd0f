---------------------------- MODULE MCImageFetch ----------------------------
(* Two requests; a rule gives u1 and u2 one key, so that three goroutines  *)
(* meet at it.                                                             *)
EXTENDS ImageFetch, TLC

CONSTANTS r1, r2, u1, u2, k1

MCUrls == (r1 :> {u1, u2}) @@ (r2 :> {u1})
MCKeyOf == (u1 :> k1) @@ (u2 :> k1)
=============================================================================
