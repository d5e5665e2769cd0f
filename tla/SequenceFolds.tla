---------------------------- MODULE SequenceFolds ----------------------------
(***************************************************************************)
(* Two folds of sequences: lists of lists put one behind the other, and    *)
(* the elements of a list that are of a kind.  The second is what          *)
(* SelectSeq is, in terms of the first, so that one proof serves both.     *)
(***************************************************************************)
EXTENDS Integers, Sequences

\* The sequence of f[1] \o f[2] \o ...
Concat(f) ==
    LET upTo[n \in 0 .. Len(f)] == IF n = 0 THEN <<>> ELSE upTo[n - 1] \o f[n]
    IN  upTo[Len(f)]

Selected(s, Keep(_)) == Concat([i \in DOMAIN s |-> IF Keep(s[i]) THEN <<s[i]>> ELSE <<>>])
=============================================================================
