---------------------------- MODULE MCReadScope -----------------------------
(***************************************************************************)
(* A count of one table and a scan of a key by one worker each, and two    *)
(* seeding runs on the same pool of two connections.                       *)
(***************************************************************************)
EXTENDS ReadScope

MCSettings == {"execution", "metadata", "row"}
MCReserved == [r \in Runs |-> 1]
MCTables == <<"table">>
MCEdges  == <<"key">>
=============================================================================
