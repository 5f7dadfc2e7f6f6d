------------------------------- MODULE Wizard -------------------------------
(***************************************************************************)
(* The pages of the interactive seed, gaps and generate (internal/tui):    *)
(* tables are picked, options set, volumes given, the plan reviewed and    *)
(* run, with a way back from every page but the first and the last.        *)
(*                                                                         *)
(* What a page holds survives going back to it; only its done flag is      *)
(* reset.  Options and volumes choose numbers, not tables: they are pages  *)
(* one passes through.                                                     *)
(***************************************************************************)
EXTENDS TableGraph

VARIABLES
    page,    \* "closed", "tables", "options", "volumes", "review", "run" or "left"
    picked,  \* items with the check mark
    auto,    \* the ones of them that are locked as parents
    shown    \* the tables the volumes and the review list

wizardVars == <<page, picked, auto, shown>>

WizardInit == page = "closed" /\ picked = {} /\ auto = {} /\ shown = <<>>

\* Every table starts picked; for gaps, the ones known to be empty.
Open(first) ==
    /\ page = "closed"
    /\ page' = "tables"
    /\ picked' = first
    /\ UNCHANGED <<auto, shown>>

\* Space: a parent that was locked stays.
Toggle(t) ==
    /\ page = "tables"
    /\ t \notin auto
    /\ picked' = IF t \in picked THEN picked \ {t} ELSE picked \cup {t}
    /\ UNCHANGED <<page, auto, shown>>

All(sc) ==
    /\ page = "tables"
    /\ picked' = IF TablesOf(sc) \subseteq picked \cup auto THEN {} ELSE TablesOf(sc)
    /\ auto' = {}
    /\ UNCHANGED <<page, shown>>

NoTables ==
    /\ page = "tables"
    /\ picked' = {} /\ auto' = {}
    /\ UNCHANGED <<page, shown>>

\* explicitlySelected, without the items whose label is not a table's name:
\* a table whose count failed is listed as "t (count unknown)".
Explicit(nameless) == (picked \ auto) \ nameless

\* Enter on the tables: the parents of what was picked are locked, the ones
\* locked before stay so.
Pick(sc, nameless) ==
    LET res == ResolveSelection(sc, Explicit(nameless))
    IN  /\ page = "tables"
        /\ auto' = auto \cup (res.auto \ nameless)
        /\ picked' = picked \cup (res.auto \ nameless)
        /\ page' = IF res.resolved = <<>> THEN "tables" ELSE "options"
        /\ UNCHANGED shown

\* Enter on the options of seed and generate: the tables are what is marked.
Options(sc) ==
    /\ page = "options"
    /\ shown' = Among(TopologicalSort(sc), picked)
    /\ page' = "volumes"
    /\ UNCHANGED <<picked, auto>>

\* Enter on the options of gaps: the closure is taken again.
GapOptions(sc, nameless) ==
    /\ page = "options"
    /\ shown' = ResolveSelection(sc, picked \ nameless).resolved
    /\ page' = "volumes"
    /\ UNCHANGED <<picked, auto>>

\* generate has no review.
Volumes(reviewed) ==
    /\ page = "volumes"
    /\ page' = IF reviewed THEN "review" ELSE "run"
    /\ UNCHANGED <<picked, auto, shown>>

Review ==
    /\ page = "review"
    /\ page' = "run"
    /\ UNCHANGED <<picked, auto, shown>>

Back ==
    /\ page \in {"options", "volumes", "review"}
    /\ page' = CASE page = "options" -> "tables" [] page = "volumes" -> "options"
                 [] page = "review"  -> "volumes"
    /\ UNCHANGED <<picked, auto, shown>>

Leave ==
    /\ page \in {"tables", "options", "volumes", "review"}
    /\ page' = "left"
    /\ UNCHANGED <<picked, auto, shown>>

\* Locked parents of a table that is no longer picked.
Stale(sc) == auto \ Ancestors(sc, picked \ auto)
=============================================================================
