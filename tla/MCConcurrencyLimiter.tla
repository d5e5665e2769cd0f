------------------------ MODULE MCConcurrencyLimiter ------------------------
(* Constants for TLC: see the .cfg files.                                  *)
EXTENDS ConcurrencyLimiter, TLC
=============================================================================
