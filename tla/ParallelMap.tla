---------------------------- MODULE ParallelMap ----------------------------
(***************************************************************************)
(* What Concurrent.map promises to its caller (libs/parallelism/           *)
(* Concurrent.mli): every element of the list ends as Ok, when the mapped  *)
(* function returned, or as Error, when it raised; a result is written     *)
(* once; and the call returns, once every element has its result.  There   *)
(* is no third outcome: the call itself does not raise.                    *)
(***************************************************************************)
EXTENDS Naturals

CONSTANT N  \* the length of the list

VARIABLES
    result,    \* the result of each element, "pending" until it has one
    returned   \* TRUE once the caller has the list of results

vars == <<result, returned>>

Init ==
    /\ result = [e \in 1..N |-> "pending"]
    /\ returned = FALSE

Finish(e) ==
    /\ result[e] = "pending"
    /\ \E r \in {"ok", "error"}: result' = [result EXCEPT ![e] = r]
    /\ UNCHANGED returned

Return ==
    /\ ~returned
    /\ \A e \in 1..N: result[e] # "pending"
    /\ returned' = TRUE
    /\ UNCHANGED result

Next == Return \/ \E e \in 1..N: Finish(e)

Spec == Init /\ [][Next]_vars /\ WF_vars(Next)
=============================================================================
