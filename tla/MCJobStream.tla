----------------------------- MODULE MCJobStream -----------------------------
(***************************************************************************)
(* The job stream on a small instance: one emitter that logs, one that     *)
(* reports progress, and a channel that overflows with one event in it.    *)
(***************************************************************************)
EXTENDS JobStream

MCEmitters == {"log", "progress"}
MCLoggers  == {"log"}
=============================================================================
