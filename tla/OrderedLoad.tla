----------------------------- MODULE OrderedLoad -----------------------------
(***************************************************************************)
(* What a seed run promises (internal/seeder/writer.go, "Ordering rules    *)
(* keep every insert valid"): no row of a piece reaches the database       *)
(* before every piece it depends on is there in full, no piece is written  *)
(* again once the run is through with it, and a run that reports success   *)
(* has loaded them all.  Nothing is said of how the pieces get there.      *)
(***************************************************************************)
CONSTANTS Piece,   \* the pieces of rows the run loads
          Requires \* Requires[q]: the pieces that must be in before q

VARIABLES rows,   \* how much of each piece the database holds
          outcome \* "running", then what the run reports

loadVars == <<rows, outcome>>

Init == rows = [q \in Piece |-> "none"] /\ outcome = "running"

Ready(q) == rows[q] = "none" /\ \A r \in Requires[q] : rows[r] = "all"

\* All of the piece is in, whether or not the run learns of it.
Load(q) ==
    /\ outcome = "running"
    /\ Ready(q)
    /\ rows' = [rows EXCEPT ![q] = "all"]
    /\ UNCHANGED outcome

\* A write that failed half way: the run can only report failure.
Spoil(q) ==
    /\ outcome = "running"
    /\ Ready(q)
    /\ rows' = [rows EXCEPT ![q] = "some"]
    /\ UNCHANGED outcome

Succeed ==
    /\ outcome = "running"
    /\ \A q \in Piece : rows[q] = "all"
    /\ outcome' = "ok"
    /\ UNCHANGED rows

Fail == outcome = "running" /\ outcome' = "failed" /\ UNCHANGED rows

Next == Succeed \/ Fail \/ \E q \in Piece : Load(q) \/ Spoil(q)

Spec == Init /\ [][Next]_loadVars
=============================================================================
