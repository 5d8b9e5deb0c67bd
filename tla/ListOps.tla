------------------------------ MODULE ListOps ------------------------------
(***************************************************************************)
(* The filter that Python writes as a comprehension, [x for x in s if ..], *)
(* over a set instead of a predicate, so that proofs can expand it.        *)
(***************************************************************************)
EXTENDS Naturals, Sequences

\* The elements of a sequence that are in a set, in order.
Only(s, T) ==
    LET kept[n \in 0 .. Len(s)] ==
            IF n = 0 THEN <<>>
            ELSE IF s[n] \in T THEN Append(kept[n - 1], s[n]) ELSE kept[n - 1]
    IN  kept[Len(s)]
=============================================================================
