------------------------------ MODULE Picking ------------------------------
(***************************************************************************)
(* The part of a list that a loop keeps: tables in alphabetical order      *)
(* (internal/graph), the entries a deletion leaves (internal/web/store.go).*)
(* SelectSeq says the same; the provers have no way into it.               *)
(***************************************************************************)
EXTENDS Naturals, Sequences

\* Those of S that the sequence s lists, in its order.
Among(s, S) ==
    LET kept[n \in 0..Len(s)] ==
            IF n = 0 THEN <<>>
            ELSE IF s[n] \in S THEN Append(kept[n - 1], s[n])
            ELSE kept[n - 1]
    IN  kept[Len(s)]
=============================================================================
