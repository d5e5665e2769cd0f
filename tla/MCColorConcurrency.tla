------------------------- MODULE MCColorConcurrency -------------------------
(* Three bands above three tiers: priority 2 is tier 0, priority 0 tier 2.  *)
EXTENDS ColorConcurrency, TLC

MCMarkerRates == <<1, 1, 1>>
MCPerPriority == <<1, 2>>

\* Requests are interchangeable, and every property is a safety property.
Symmetry == Permutations(ColorRequests)
=============================================================================
