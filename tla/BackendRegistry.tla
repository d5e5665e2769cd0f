--------------------------- MODULE BackendRegistry ---------------------------
(***************************************************************************)
(* What the model repository promises about engines: between two           *)
(* installations of a configuration a backend has at most one engine, all  *)
(* who ask for it share that one, and an installation forgets them all.    *)
(***************************************************************************)
CONSTANT Backends  \* models with backend names

VARIABLE engines   \* the engine of each backend that was asked for

Init == engines = [k \in {} |-> k]

Make(k) ==
    /\ k \notin DOMAIN engines
    /\ DOMAIN engines' = DOMAIN engines \cup {k}
    /\ \A j \in DOMAIN engines : engines'[j] = engines[j]

Install == engines' = [k \in {} |-> k]

Next == (\E k \in Backends : Make(k)) \/ Install

Spec == Init /\ [][Next]_engines
=============================================================================
