-------------------------- MODULE BoundedAdmission --------------------------
(***************************************************************************)
(* What a concurrency limiter promises to the rest of the gateway: a set   *)
(* of requests is past the limiter, one more may enter while fewer than    *)
(* Limit are inside, and any of them may leave at any time.                *)
(***************************************************************************)
EXTENDS Naturals, FiniteSets

CONSTANTS Requests, \* every request that may ever arrive
          Limit     \* how many may be inside together

VARIABLE inside     \* the requests past the limiter

Init == inside = {}

Admit(r) ==
    /\ r \notin inside
    /\ Cardinality(inside) < Limit
    /\ inside' = inside \cup {r}

Leave(r) ==
    /\ r \in inside
    /\ inside' = inside \ {r}

Next == \E r \in Requests : Admit(r) \/ Leave(r)

Spec == Init /\ [][Next]_inside
=============================================================================
