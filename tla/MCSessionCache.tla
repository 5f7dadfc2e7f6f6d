--------------------------- MODULE MCSessionCache ---------------------------
(***************************************************************************)
(* A session with two tables, two requests for counts of which one is a    *)
(* refresh, two scans that may overlap, and a run that writes once.        *)
(***************************************************************************)
EXTENDS SessionCache

MCCalls  == {"page", "refresh"}
MCForced == {"refresh"}
MCScans  == {"first", "second"}
=============================================================================
