--------------------------- MODULE MCSeedPipeline ---------------------------
(***************************************************************************)
(* Three tables: 3 references 2, which generates before it, and itself; 1  *)
(* gets no rows, references 3, which generates after it, and generates     *)
(* while 2 does.  One piece is as big as the budget.                       *)
(***************************************************************************)
EXTENDS SeedPipeline

SomeRefs   == {<<3, 2>>, <<3, 3>>, <<1, 3>>}
SomeCharge == <<<<>>, <<2>>, <<1, 1>>>>
AnyFault   == {"user", "generate", "write", "lost"}
=============================================================================
