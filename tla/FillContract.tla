---------------------------- MODULE FillContract ----------------------------
(***************************************************************************)
(* What a fill promises its caller (internal/seeder/seeder.go Fill): the   *)
(* tables are filled one at a time in the given order, none beyond what    *)
(* was requested, and each is reported once, with the rows that landed and *)
(* a status that says whether any are missing.  A report may count fewer   *)
(* rows than landed only if the run is over with it: a statement that was  *)
(* cancelled may have been carried out all the same.                       *)
(***************************************************************************)
EXTENDS Integers

CONSTANTS N,        \* tables, numbered in the order they are filled
          Requested \* rows requested of each

VARIABLES landed,   \* rows each table has received
          reported, \* the report of each table, or None
          over      \* the run has returned

contractVars == <<landed, reported, over>>

None == [inserted |-> 0, status |-> "none"]
Filled == {t \in 1..N : Requested[t] > 0}

\* finish(): the status of a table that received i of its rows.
StatusOf(t, i) ==
    IF i = Requested[t] THEN "ok" ELSE IF i = 0 THEN "failed" ELSE "partial"

Init ==
    /\ landed = [t \in 1..N |-> 0]
    /\ reported = [t \in 1..N |-> None]
    /\ over = FALSE

\* Every earlier table that is filled at all has been reported.
Current(t) ==
    /\ ~over
    /\ t \in Filled
    /\ reported[t] = None
    /\ \A u \in Filled : u < t => reported[u] # None

Land(t) ==
    /\ Current(t)
    /\ \E n \in (landed[t] + 1)..Requested[t] : landed' = [landed EXCEPT ![t] = n]
    /\ UNCHANGED <<reported, over>>

Report(t) ==
    /\ Current(t)
    /\ \E i \in 0..landed[t] :
        /\ i < landed[t] => over'
        /\ reported' = [reported EXCEPT ![t] = [inserted |-> i, status |-> StatusOf(t, i)]]
    /\ over' \in BOOLEAN
    /\ UNCHANGED landed

Return ==
    /\ ~over
    /\ \A t \in Filled : reported[t] # None
    /\ over' = TRUE
    /\ UNCHANGED <<landed, reported>>

Next == (\E t \in 1..N : Land(t) \/ Report(t)) \/ Return

Spec == Init /\ [][Next]_contractVars
=============================================================================
