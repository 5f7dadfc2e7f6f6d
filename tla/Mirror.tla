------------------------------- MODULE Mirror -------------------------------
(***************************************************************************)
(* Mirroring the volumes of a source database on a target: the planner     *)
(* (internal/compare/mirror.go PlanMirror) and the run that carries the    *)
(* plan out (internal/seeder/mirror.go MirrorJob.Run): truncate, then fill *)
(* table by table.                                                         *)
(*                                                                         *)
(* A behaviour is one mirror: a request, what was counted on both sides,   *)
(* the passes of the planner, the truncation of the tables to reset and    *)
(* the fill of every planned table.  How a table is filled is in           *)
(* FillContract; here it ends with any number of the rows it asked for.    *)
(***************************************************************************)
EXTENDS TableGraph

CONSTANTS Sides,      \* target databases: [schema, engine]
          Ignores,    \* what profiles ignore: a set of sets of tables
          Selections, \* Options.Tables: a set of sets of tables
          Volumes,    \* rows a table may be counted with
          ScaleNum, ScaleDen, \* Options.Scale
          MaxRows,    \* Options.MaxRows, 0 for no cap
          ParentRows  \* Options.ParentRows

Unknown == -1  \* the count of this table failed
Absent  == -2  \* the source has no such table

MirrorAssumption ==
    /\ ScaleNum \in Nat \ {0} /\ ScaleDen \in Nat \ {0}
    /\ MaxRows \in Nat /\ ParentRows \in Nat \ {0}
    /\ Volumes \subseteq Nat
    /\ \A side \in Sides :
          /\ side.schema.names \in Seq(TablesOf(side.schema)) /\ IsInjective(side.schema.names)
          /\ side.engine \in {"pgx", "mysql"}
          /\ side.schema.required \cup side.schema.optional
                \subseteq TablesOf(side.schema) \X TablesOf(side.schema)
          /\ UNION Selections \subseteq TablesOf(side.schema)

ASSUME MirrorAssumption

VARIABLES
    request,   \* what is mirrored: schema, mode, engine, ignored, selected, counts
    phase,     \* where the mirror is, see Phases
    excluded,  \* tables the planner gave up for want of a parent
    truncated, \* tables the plan empties
    insert,    \* rows to insert, per table: the Insert of the plan's entries
    skipped,   \* tables the plan says it skips
    left,      \* tables still to truncate or to fill
    old,       \* rows from before the run, per table: 0 or 1 for any
    new,       \* rows of the run, per table
    gone       \* tables the run has emptied

Phases == {"pass", "check", "planned", "truncate", "fill", "done", "failed"}

planVars == <<excluded, truncated, insert, skipped>>
rowVars  == <<old, new, gone>>
vars     == <<request, phase, planVars, left, rowVars>>

Schemas == {side.schema : side \in Sides}
OrderOf == [sc \in Schemas |-> TopologicalSort(sc)]
BelowOf == [sc \in Schemas |-> [t \in TablesOf(sc) |-> Descendants(sc, {t})]]

Schema   == request.schema
Tables   == TablesOf(Schema)
Order    == OrderOf[Schema]
Below(S) == UNION {BelowOf[Schema][t] : t \in S}
Cyclic   == Len(Order) < Len(Schema.names)
Reset    == request.mode = "reset"
NoRows   == [t \in Tables |-> 0]
Filled   == {t \in Tables : insert[t] > 0}

Init ==
    /\ \E side \in Sides : request \in
          [schema : {side.schema}, engine : {side.engine}, mode : {"topup", "reset"},
           ignored : Ignores, selected : Selections,
           source : [TablesOf(side.schema) -> Volumes \cup {Unknown, Absent}],
           target : [TablesOf(side.schema) -> Volumes \cup {Unknown}]]
    /\ phase = "pass"
    /\ excluded = {} /\ truncated = {} /\ insert = NoRows /\ skipped = {}
    /\ left = {}
    /\ old \in {rows \in [Tables -> 0..1] :
                   \A t \in Tables : request.target[t] # Unknown => (rows[t] = 0) = (request.target[t] = 0)}
    /\ new = NoRows
    /\ gone = {}
-----------------------------------------------------------------------------
(* The planner. *)

KnownRows(n) == IF n < 0 THEN 0 ELSE n

Counted(t) == request.source[t] \notin {Unknown, Absent}

\* Selected tables that are skipped whatever the others do.
StaticSkips == {t \in request.selected :
    \/ t \in request.ignored
    \/ request.source[t] = Unknown
    \/ request.source[t] # Absent /\ request.target[t] = Unknown}

\* Truncating one of these would empty an ignored table.
TruncatesIgnored(t) == Reset /\ Below({t}) \cap request.ignored # {}

Matched == {t \in request.selected \ StaticSkips : request.source[t] # Absent}

Candidates == {t \in Matched : ~TruncatesIgnored(t)}

Want(t) ==
    LET scaled == (KnownRows(request.source[t]) * ScaleNum + ScaleDen - 1) \div ScaleDen
    IN  IF MaxRows > 0 /\ scaled > MaxRows THEN MaxRows ELSE scaled

\* One planPass: a reset empties the chosen tables and everything below them,
\* and refills what it emptied on the way.
Chosen == Candidates \ excluded

\* Mutants of Emptied: only NOT NULL keys are followed; no key is.
EmptiedRequired == IF Reset THEN Chosen \cup {t \in Tables : Ancestors(Schema, {t}) \cap Chosen # {}} ELSE {}
EmptiedAlone    == IF Reset THEN Chosen ELSE {}

Emptied == IF Reset THEN Chosen \cup Below(Chosen) ELSE {}

Dependents == {t \in Emptied \ Chosen : t \notin request.ignored /\ Counted(t)}

\* A reset starts from nothing, a top-up from what the target has.
Shortfall(t) ==
    LET have == IF Reset THEN 0 ELSE request.target[t]
    IN  IF t \in Chosen \cup Dependents /\ have < Want(t) THEN Want(t) - have ELSE 0

Satisfied ==
    {t \in Chosen : ~Reset /\ request.target[t] >= Want(t) /\ (Want(t) > 0 \/ request.target[t] > 0)}

PlanPass ==
    /\ phase = "pass" /\ ~Cyclic
    /\ truncated' = Emptied
    /\ insert' = [t \in Tables |-> Shortfall(t)]
    /\ phase' = "check"
    /\ UNCHANGED <<request, excluded, skipped, left, rowVars>>

\* Mutant of Kept: the rows of a table the reset empties are counted on.
KeptUnreset(t) == IF request.target[t] = Unknown THEN 1 ELSE request.target[t]

\* Rows a table will keep.  Unknown is not empty.
Kept(t) ==
    IF t \in truncated THEN 0 ELSE IF request.target[t] = Unknown THEN 1 ELSE request.target[t]

\* Tables that cannot be filled: a parent they need is ignored and empty, or is
\* empty and cannot be filled itself.  A blocked table inserts nothing.
Blocked ==
    LET blocked[t \in Tables] ==
            \E p \in Parents(Schema, t) :
                /\ Kept(p) + (IF blocked[p] THEN 0 ELSE insert[p]) = 0
                /\ p \in request.ignored \/ blocked[p]
    IN  {t \in Tables : blocked[t]}

Stranded == {t \in Blocked : insert[t] > 0}

\* Mutant of PlanAgain: the table is not excluded from the next pass.
PlanAgainForgets ==
    /\ phase = "check"
    /\ Stranded \cap Chosen # {}
    /\ phase' = "pass"
    /\ UNCHANGED <<request, planVars, left, rowVars>>

\* Skipping a table can strand its children and changes what a reset empties.
PlanAgain ==
    /\ phase = "check"
    /\ Stranded \cap Chosen # {}
    /\ excluded' = excluded \cup (Stranded \cap Chosen)
    /\ phase' = "pass"
    /\ UNCHANGED <<request, truncated, insert, skipped, left, rowVars>>

\* Required parents that would stay empty get ParentRows.
EmptyParents(inserting) ==
    {p \in AutoSelected(Schema, inserting) \ request.ignored : Kept(p) = 0}

PlanStable ==
    /\ phase = "check"
    /\ Stranded \cap Chosen = {}
    /\ \E stranded \in {Stranded} :
          /\ \E parents \in {EmptyParents({t \in Tables \ stranded : insert[t] > 0})} :
                insert' = [t \in Tables |-> IF t \in parents THEN ParentRows
                                            ELSE IF t \in stranded THEN 0 ELSE insert[t]]
          /\ skipped' = StaticSkips \cup (Matched \ Candidates) \cup excluded \cup Satisfied \cup stranded
    /\ phase' = "planned"
    /\ UNCHANGED <<request, excluded, truncated, left, rowVars>>

\* The schema has a cycle of NOT NULL keys, the target refuses writes, source
\* and target are one database, or a side could not be read.
Refuse ==
    /\ phase = "pass" /\ excluded = {}
    /\ phase' = "failed"
    /\ UNCHANGED <<request, planVars, left, rowVars>>
-----------------------------------------------------------------------------
(* The run. *)

StartFill == phase' = "fill" /\ left' = Filled

Run ==
    /\ phase = "planned"
    /\ IF Reset /\ truncated # {}
         THEN phase' = "truncate" /\ left' = truncated
         ELSE StartFill
    /\ UNCHANGED <<request, planVars, rowVars>>

\* A planned table cannot be generated, or the preparation of the run failed.
RefuseRun ==
    /\ phase = "planned"
    /\ phase' = "failed"
    /\ UNCHANGED <<request, planVars, left, rowVars>>

Empty(S) ==
    /\ gone' = gone \cup S
    /\ old' = [t \in Tables |-> IF t \in S THEN 0 ELSE old[t]]

\* PostgreSQL: one TRUNCATE ... CASCADE, which empties what references them too.
TruncateCascade ==
    /\ phase = "truncate" /\ request.engine = "pgx"
    /\ Empty(truncated \cup Below(truncated))
    /\ StartFill
    /\ UNCHANGED <<request, planVars, new>>

\* MySQL: one statement per table with foreign key checks off, the last of the
\* seed order first.
TruncateTable ==
    /\ phase = "truncate" /\ request.engine = "mysql"
    /\ \E t \in LastOf(Order, left) : Empty({t}) /\ left' = left \ {t}
    /\ UNCHANGED <<request, phase, planVars, new>>

TruncateDone ==
    /\ phase = "truncate" /\ request.engine = "mysql" /\ left = {}
    /\ StartFill
    /\ UNCHANGED <<request, planVars, rowVars>>

\* The run is cancelled or a statement fails: nothing is filled.
TruncateFails ==
    /\ phase = "truncate" /\ left # {}
    /\ phase' = "failed"
    /\ UNCHANGED <<request, planVars, left, rowVars>>

HasRows(t) == old[t] + new[t] > 0

\* A table lands any part of what it asked for (FillContract), and nothing when
\* a parent it needs is empty.
FillTable ==
    /\ phase = "fill"
    /\ \E t \in FirstOf(Order, left) : \E n \in 0..insert[t] :
          /\ n > 0 => \A p \in Parents(Schema, t) : HasRows(p)
          /\ new' = [new EXCEPT ![t] = n]
          /\ left' = left \ {t}
    /\ UNCHANGED <<request, phase, planVars, old, gone>>

Finish ==
    /\ phase = "fill" /\ left = {}
    /\ phase' = "done"
    /\ UNCHANGED <<request, planVars, left, rowVars>>

Terminated == phase \in {"done", "failed"} /\ UNCHANGED vars

Planning   == PlanPass \/ PlanAgain \/ PlanStable
Truncating == TruncateCascade \/ TruncateTable \/ TruncateDone
Filling    == FillTable \/ Finish

Next ==
    \/ Planning \/ Truncating \/ Filling \/ Run
    \/ Refuse \/ RefuseRun \/ TruncateFails
    \/ Terminated

\* Every step of a mirror is taken by the goroutine of its run.
Spec ==
    /\ Init /\ [][Next]_vars
    /\ WF_vars(Planning \/ Run \/ Truncating \/ Filling \/ (Cyclic /\ Refuse))
-----------------------------------------------------------------------------

\* Tables the plan takes to have rows, although a table they require has none.
Contradicted == {c \in Tables : Kept(c) > 0 /\ \E p \in Parents(Schema, c) : Kept(p) = 0}

\* A planned table finds every parent it needs: with rows of its own that the
\* run keeps, or filled earlier in the run; but for a parent that is filled for
\* the sake of a table which, by the counts, has rows without it.
PlanIsSeedable ==
    phase = "planned" => \A t \in Filled : \A p \in Parents(Schema, t) :
        \/ p \notin truncated /\ request.target[p] # 0
        \/ p \in Filled /\ Precedes(Order, p, t)
        \/ \E c \in Contradicted : t \in Ancestors(Schema, {c})

\* A table that needs an ignored, empty parent is skipped (docs/commands.md:512).
IgnoredParentSkipped ==
    phase = "planned" =>
        \A t \in Filled : \A p \in Parents(Schema, t) \cap request.ignored : Kept(p) > 0

\* The reviewed plan names every table the run empties: PostgreSQL's CASCADE
\* reaches no other one.
OnlyPlannedEmptied == gone \subseteq truncated

\* Once the truncation is over, no row is left that may reference an emptied
\* table, through any key.
NoDangling ==
    phase \in {"fill", "done"} =>
        \A fk \in Schema.required \cup Schema.optional : fk[2] \in gone => old[fk[1]] = 0

\* The planner plans again until nothing changes: it always gets there, and a
\* run always ends.
Termination == <>(phase \in {"done", "failed"})
=============================================================================
