------------------------------- MODULE MCFill -------------------------------
(***************************************************************************)
(* A table filled in more than one round by two connections, one of which  *)
(* nothing is requested, and one that references itself.  Every            *)
(* combination of the options is run.                                      *)
(***************************************************************************)
EXTENDS Fill

ThreeTables == <<4, 0, 2>>
LastSelf    == {3}
AnyMode     == [stop : BOOLEAN, copy : BOOLEAN]
=============================================================================
