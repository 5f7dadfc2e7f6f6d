------------------------------- MODULE Rules -------------------------------
(***************************************************************************)
(* Seed profiles (internal/rules) against one schema: what validation      *)
(* accepts, which rule each column gets, what compiling makes of them and  *)
(* what becomes of the values in a run (internal/faker/overrides.go).      *)
(*                                                                         *)
(* A schema maps table names to columns, columns to records of the         *)
(* attributes below.  A profile is a record                                *)
(*   version, rules (a sequence of patterns: table and column glob,        *)
(*   action), tables (explicit settings: rows, columns), ignore (a         *)
(*   sequence of globs) and relations (<<table, column>> to a shape).      *)
(*                                                                         *)
(* Whether an action suits a column is decided on one random value.  An    *)
(* action with values of both sorts may be taken either way each time it   *)
(* is looked at: luck says which, for each column.                         *)
(***************************************************************************)
EXTENDS Integers, Sequences, FiniteSets, SequencesExt

CONSTANTS
    Folded,     \* names to the name in lower case
    Matches,    \* well formed globs to the lower case names they match
    Schemas,    \* the schemas a profile may meet
    Profiles,   \* the documents
    None

VARIABLES
    sc,         \* the schema of the connection
    doc,        \* the profile
    phase,      \* "saved", "compiled", "refused", "failed" or "seeded"
    seen,       \* what the builder's page last said of each column, or None
    overrides,  \* the rule compiled for each column
    rows,       \* rows per table the profile sets
    shaped      \* foreign keys to the shapes compiled for them

vars == <<sc, doc, phase, seen, overrides, rows, shaped>>

\* All columns of the schema.
Cells == UNION {{<<t, c>> : c \in DOMAIN sc[t]} : t \in DOMAIN sc}
Col(cell) == sc[cell[1]][cell[2]]

-----------------------------------------------------------------------------
(* Values: NULL, strings by what they read as, and the natives of fakers.   *)

Native == {"int", "flag"}

ValueKind(type) == CASE type \in {"number", "tinyint"} -> "number"
                     [] type \in {"bool", "text"}      -> type
                     [] OTHER                          -> "other"

Coerces(col, v) ==
    \/ v \in Native \cup {"NULL"}
    \/ col.type = "number" /\ v \in {"1", "12"}
    \/ col.type = "tinyint" /\ v \in {"1", "12", "true"}
    \/ col.type = "bool" /\ v \in {"1", "true"}
    \/ ValueKind(col.type) \in {"text", "other"}

\* A template is the sequence of its segments; "text" is a literal, the others
\* are tokens.  "unknown" and "open" stand for what does not parse.
Parses(tpl)     == "unknown" \notin ToSet(tpl) /\ "open" \notin ToSet(tpl)
HasToken(tpl, token) == token \in ToSet(tpl)
HasLiteral(tpl) == "text" \in ToSet(tpl)

Auto(col) == CASE col.faker \in {"", "sequence"}  -> "int"
               [] ValueKind(col.type) = "number" -> "int"
               [] ValueKind(col.type) = "bool"   -> "flag"
               [] OTHER                          -> "word"

\* The value of a token; a column without a faker is generated as NULL.
TokenValue(token, col) ==
    CASE token = "auto"        -> IF col.faker = "" THEN "NULL" ELSE Auto(col)
      [] token = "seq"         -> "int"
      [] OTHER                 -> "word"

\* Around other values a NULL is the empty string.
Eval(tpl, col) ==
    IF Len(tpl) = 1 /\ tpl[1] # "text"
      THEN TokenValue(tpl[1], col)
      ELSE LET parts == {IF tpl[i] = "text" THEN "word" ELSE TokenValue(tpl[i], col) : i \in DOMAIN tpl}
           IN  IF "int" \in parts /\ parts \subseteq {"int", "NULL"} THEN "12" ELSE "word"

\* evaluator(): the values an action may write into the column.
Outputs(action, col) ==
    CASE action.kind = "template"             -> {Eval(action.segments, col)}
      [] action.kind \in {"value", "oneOf", "faker"} -> action.values
      [] action.kind = "setNull"              -> {"NULL"}

\* The same for the sample validation takes: there the generated value is 1.
Samples(action, col) ==
    Outputs(action, IF col.faker = "" THEN [col EXCEPT !.faker = "sequence"] ELSE col)

-----------------------------------------------------------------------------
(* One action, one column.                                                  *)

ActionProblem(action) ==
    \/ action.kind = ""
    \/ action.kind = "template" /\ ~Parses(action.segments)
    \/ action.kind = "faker" /\ action.values = {}

\* Mutant of Protected: foreign keys are not protected.
ProtectedKeysOnly(col) == col.pk \/ col.generated
Protected(col) == col.pk \/ col.fk # "" \/ col.generated

\* Mutant of Incompatible: the sample is not coerced.
IncompatibleUncoerced(action, col, strict, lucky) ==
    IF action.kind = "setNull"
      THEN ~col.nullable
      ELSE strict /\ action.kind \in {"value", "oneOf"} /\ ValueKind(col.type) = "other"
Incompatible(action, col, strict, lucky) ==
    CASE action.kind = "setNull" -> ~col.nullable
      [] ActionProblem(action) -> TRUE
      [] action.kind = "template" /\ HasLiteral(action.segments) /\ ValueKind(col.type) # "text" -> TRUE
      [] action.kind \in {"value", "oneOf"} /\ ValueKind(col.type) = "other" -> strict
      [] OTHER -> LET refused == {v \in Samples(action, col) : ~Coerces(col, v)}
                  IN  IF lucky THEN refused = Samples(action, col) ELSE refused # {}

\* Values that only differ by the row number repeat in every run.
SeqOnly(tpl) == HasToken(tpl, "seq") /\ ToSet(tpl) \cap {"run", "auto", "uuid"} = {}

Repeats(action) ==
    \/ action.kind \in {"value", "oneOf"}
    \/ /\ action.kind = "template" /\ Parses(action.segments)
       /\ (SeqOnly(action.segments) \/ ToSet(action.segments) \cap {"seq", "auto", "uuid"} = {})

UniquenessRisk(action, col) == col.unique /\ Repeats(action)

GroupRisk(action, col) ==
    /\ col.grouped
    /\ action.kind \in {"value", "oneOf"} \/ (action.kind = "template" /\ SeqOnly(action.segments))

-----------------------------------------------------------------------------
(* Names: engines disagree on case, so one document drives both.            *)

Like(names, name) == {n \in names : Folded[n] = Folded[name]}

\* foldLookup(): the name itself, else the only one like it that is not claimed.
FoldLookup(names, name, claimed) ==
    IF name \in names
      THEN {name}
      ELSE LET found == Like(names, name) \ claimed
           IN  IF Cardinality(found) = 1 THEN found ELSE {}

DocTables  == DOMAIN doc.tables
DocColumns(dt) == DOMAIN doc.tables[dt].columns

\* Both directions: from the document to the schema ...
\* Mutant of SchemaTableFor: a table another entry names is taken too.
SchemaTableUnclaimed(dt) == FoldLookup(DOMAIN sc, dt, {})
SchemaTableFor(dt) == FoldLookup(DOMAIN sc, dt, DocTables \ {dt})
SchemaColumnFor(dt, t, dc) == FoldLookup(DOMAIN sc[t], dc, DocColumns(dt) \ {dc})

\* ... and from the schema to the document.
DocTableFor(t) == FoldLookup(DocTables, t, DOMAIN sc \ {t})
DocColumnFor(dt, cell) == FoldLookup(DocColumns(dt), cell[2], DOMAIN sc[cell[1]] \ {cell[2]})

ExplicitFor(cell) ==
    UNION {{<<dt, dc>> : dc \in DocColumnFor(dt, cell)} : dt \in DocTableFor(cell[1])}

Explicit(entry) == doc.tables[entry[1]].columns[entry[2]]

\* Malformed globs match nothing; an empty one means everything.
GlobMatch(glob, name) ==
    LET pattern == IF glob = "" THEN "*" ELSE glob
    IN  pattern \in DOMAIN Matches /\ Folded[name] \in Matches[pattern]

Matched(i, cell) ==
    /\ GlobMatch(doc.rules[i].table, cell[1])
    /\ GlobMatch(doc.rules[i].column, cell[2])
    /\ doc.rules[i].action.kind # ""

Applies(i, cell, luck) ==
    /\ Matched(i, cell)
    /\ ~Protected(Col(cell))
    /\ ~Incompatible(doc.rules[i].action, Col(cell), TRUE, luck[cell])

Default == [kind |-> "default"]

\* resolve(): the explicit rule, or the first pattern that applies.
ResolveCell(cell, luck) ==
    LET hits == {i \in DOMAIN doc.rules : Applies(i, cell, luck)}
    IN  CASE ExplicitFor(cell) # {} -> [kind |-> "column", entry |-> CHOOSE e \in ExplicitFor(cell) : TRUE]
          [] ExplicitFor(cell) = {} /\ hits # {} -> [kind |-> "pattern", rule |-> CHOOSE i \in hits : \A j \in hits : i <= j]
          [] OTHER -> Default

\* Patterns passed over, which the builder lists with the reason.
Skipped(cell, luck) ==
    {i \in DOMAIN doc.rules :
        /\ ExplicitFor(cell) = {}
        /\ Matched(i, cell) /\ ~Applies(i, cell, luck)
        /\ \A j \in 1..(i - 1) : ~Applies(j, cell, luck)}

ActionOf(source) == CASE source.kind = "column"  -> Explicit(source.entry)
                      [] source.kind = "pattern" -> doc.rules[source.rule].action

-----------------------------------------------------------------------------
(* Relationships: no claim is looked at, and a key may be named twice.      *)

RelationTarget(key) ==
    UNION {{<<t, c>> : c \in FoldLookup(DOMAIN sc[t], key[2], {})} : t \in FoldLookup(DOMAIN sc, key[1], {})}

\* keyIsAllForeign(): a junction table.
Junction(t) == LET keys == {c \in DOMAIN sc[t] : sc[t][c].pk}
               IN  keys # {} /\ \A c \in keys : sc[t][c].fk # ""

Shapeable(cell) == /\ Col(cell).fk \notin {"", cell[1]}
                   /\ ~Junction(cell[1])
                   /\ ~Col(cell).pk

ShapeProblem(shape) ==
    \/ shape.min < 0 \/ shape.max < 1 \/ shape.max < shape.min
    \/ shape.avg # 0 /\ (shape.avg < shape.min \/ shape.avg < 1 \/ shape.avg > shape.max)

-----------------------------------------------------------------------------
(* Validation: issues are <<severity, where>>.                              *)

Trouble(severity, S) == {<<severity, where>> : where \in S}
At(path, S) == {<<path, x>> : x \in S}

StructureErrors ==
    Trouble("error",
        (IF doc.version > 2 THEN {<<"version">>} ELSE {}) \cup
        At("rules", {i \in DOMAIN doc.rules :
            \/ doc.rules[i].column \notin DOMAIN Matches
            \/ doc.rules[i].table \notin DOMAIN Matches \cup {""}
            \/ ActionProblem(doc.rules[i].action)}) \cup
        At("tables", {dt \in DocTables :
            \/ doc.tables[dt].rows < 0
            \/ \E dc \in DocColumns(dt) : ActionProblem(Explicit(<<dt, dc>>))}) \cup
        At("ignore", {i \in DOMAIN doc.ignore : doc.ignore[i] \notin DOMAIN Matches}) \cup
        At("relations", {key \in DOMAIN doc.relations : ShapeProblem(doc.relations[key])}))

Entries == UNION {{<<dt, dc>> : dc \in DocColumns(dt)} : dt \in DocTables}

\* The columns an explicit entry is checked against.
Checked(entry) ==
    UNION {{<<t, c>> : c \in SchemaColumnFor(entry[1], t, entry[2])} : t \in SchemaTableFor(entry[1])}

\* Mutant of Unfit: keys and generated columns are left to the patterns' check.
UnfitByTypeOnly(entry, luck) ==
    \E cell \in Checked(entry) : Incompatible(Explicit(entry), Col(cell), FALSE, luck[cell])
Unfit(entry, luck) ==
    \E cell \in Checked(entry) : Protected(Col(cell)) \/ Incompatible(Explicit(entry), Col(cell), FALSE, luck[cell])

\* A blank glob would mean everything, so it ignores nothing.
Ignores(glob, t) == glob # "" /\ GlobMatch(glob, t)
IgnoredSet == {t \in DOMAIN sc : \E i \in DOMAIN doc.ignore : Ignores(doc.ignore[i], t)}

TakenBy(i, luck) == {cell \in Cells : ResolveCell(cell, luck) = [kind |-> "pattern", rule |-> i]}

\* shadowedBy(): an earlier rule has a column this one could have had.
Shadowed(i, luck) == \E cell \in Cells : Applies(i, cell, luck) /\ \E j \in 1..(i - 1) : cell \in TakenBy(j, luck)

Risky(action, cell) == UniquenessRisk(action, Col(cell)) \/ GroupRisk(action, Col(cell))

Warnings(luck) ==
    LET idle == {i \in DOMAIN doc.rules : TakenBy(i, luck) = {}}
    IN  Trouble("missing", At("tables", {dt \in DocTables : SchemaTableFor(dt) = {}})) \cup
        Trouble("missing", At("columns", {e \in Entries : Checked(e) = {}})) \cup
        Trouble("risky", At("columns", {e \in Entries : \E cell \in Checked(e) : Risky(Explicit(e), cell)})) \cup
        Trouble("risky", At("rules", {i \in DOMAIN doc.rules : \E cell \in TakenBy(i, luck) : Risky(doc.rules[i].action, cell)})) \cup
        Trouble("shadowed", At("rules", {i \in idle : Shadowed(i, luck)})) \cup
        Trouble("unused", At("rules", {i \in idle : ~Shadowed(i, luck)})) \cup
        Trouble("unused", At("ignore", {i \in DOMAIN doc.ignore : \A t \in DOMAIN sc : ~GlobMatch(doc.ignore[i], t)})) \cup
        Trouble("ignored", At("tables", {dt \in DocTables : SchemaTableFor(dt) \cap IgnoredSet # {}})) \cup
        Trouble("unshaped", At("relations", {key \in DOMAIN doc.relations : \A cell \in RelationTarget(key) : ~Shapeable(cell)}))

SchemaErrors(luck) == Trouble("error", At("columns", {e \in Entries : Unfit(e, luck)}))

Validate(luck) ==
    IF StructureErrors # {} THEN StructureErrors ELSE SchemaErrors(luck) \cup Warnings(luck)

Errors(issues) == {i \in issues : i[1] = "error"}

-----------------------------------------------------------------------------
(* Compiling, previewing and running.                                       *)

Init == /\ sc \in Schemas
        /\ doc \in Profiles
        /\ phase = "saved" /\ seen = None
        /\ overrides = <<>> /\ rows = <<>> /\ shaped = <<>>

\* Examples(), ruleCoverage(): each pattern is shown on a column it rewrites,
\* and with how many of them there are.
Examples(luck) == [i \in DOMAIN doc.rules |-> TakenBy(i, luck)]

Explain(luck) == [issues  |-> Validate(luck),
                  columns |-> [cell \in Cells |-> ResolveCell(cell, luck)],
                  skipped |-> [cell \in Cells |-> Skipped(cell, luck)],
                  examples |-> Examples(luck)]

\* The profile builder's page; each part of its answer is worked out anew, and
\* only what is deterministic agrees from one part to the next.
Preview(luck) == /\ phase = "saved" /\ seen = None
                 /\ seen' = Explain(luck)
                 /\ UNCHANGED <<sc, doc, phase, overrides, rows, shaped>>

Owners(names, target(_), x) == {n \in names : x \in target(n)}

\* Which of several entries for one table or key wins is the map's order.
RowsOf(choice) == [t \in {u \in DOMAIN sc : Owners({d \in DocTables : doc.tables[d].rows > 0}, SchemaTableFor, u) # {}} |->
                     doc.tables[choice[t]].rows]

ShapesOf(choice) == [cell \in {x \in Cells : Shapeable(x) /\ Owners(DOMAIN doc.relations, RelationTarget, x) # {}} |->
                       doc.relations[choice[cell]]]

Refused(luck) == Errors(Validate(luck)) # {}

\* applyProfile(), loadProfile(): Compile validates again and then resolves
\* again; rows and shapes follow once it succeeded.
Refuse(luck) == /\ phase = "saved" /\ Refused(luck)
                /\ phase' = "refused"
                /\ UNCHANGED <<sc, doc, seen, overrides, rows, shaped>>

Picks(X, names, target(_)) ==
    {f \in [{x \in X : Owners(names, target, x) # {}} -> names] : \A x \in DOMAIN f : x \in target(f[x])}

Compile(validated, resolved) ==
    /\ phase = "saved" /\ ~Refused(validated)
    /\ phase' = "compiled" /\ seen' = None
    /\ overrides' = [cell \in {x \in Cells : ResolveCell(x, resolved).kind # "default"} |-> ResolveCell(cell, resolved)]
    /\ \E choice \in Picks(DOMAIN sc, {d \in DocTables : doc.tables[d].rows > 0}, SchemaTableFor) : rows' = RowsOf(choice)
    /\ \E choice \in Picks(Cells, DOMAIN doc.relations, RelationTarget) : shaped' = ShapesOf(choice)
    /\ UNCHANGED <<sc, doc>>

\* applyOverrides(), row after row: a value the column does not take fails the
\* run.  A run of enough rows has written every value.
ApplyOverrides ==
    /\ phase = "compiled"
    /\ \E failed \in BOOLEAN :
        /\ failed => \E cell \in DOMAIN overrides : \E v \in Outputs(ActionOf(overrides[cell]), Col(cell)) : ~Coerces(Col(cell), v)
        /\ ~failed => \A cell \in DOMAIN overrides : \E v \in Outputs(ActionOf(overrides[cell]), Col(cell)) : Coerces(Col(cell), v)
        /\ phase' = IF failed THEN "failed" ELSE "seeded"
    /\ UNCHANGED <<sc, doc, seen, overrides, rows, shaped>>

\* Columns some action has values of both sorts for.
Undecided ==
    {cell \in Cells : \E action \in {doc.rules[i].action : i \in DOMAIN doc.rules} \cup {Explicit(e) : e \in Entries} :
        \E lucky \in BOOLEAN : Incompatible(action, Col(cell), FALSE, lucky) # Incompatible(action, Col(cell), FALSE, ~lucky)}

Lucks == {[cell \in Cells |-> cell \notin unlucky] : unlucky \in SUBSET Undecided}

Next == \/ \E luck \in Lucks : Preview(luck) \/ Refuse(luck)
        \/ \E validated, resolved \in Lucks : Compile(validated, resolved)
        \/ ApplyOverrides

Spec == Init /\ [][Next]_vars

-----------------------------------------------------------------------------
(* Properties.                                                              *)

\* Two names alike that the other side does not tell apart by naming one.
Twins(names, name, claimed) == name \notin names /\ Cardinality(Like(names, name) \ claimed) > 1

\* The document's entry for a column is one validation could not place: two
\* tables, or two columns, of the schema differ from it in case only.
Misplaced(entry) ==
    \/ Twins(DOMAIN sc, entry[1], DocTables \ {entry[1]})
    \/ \E t \in SchemaTableFor(entry[1]) : Twins(DOMAIN sc[t], entry[2], DocColumns(entry[1]) \ {entry[2]})

NullWritten(cell) == "NULL" \in Outputs(ActionOf(overrides[cell]), Col(cell))

\* What overrides.go:21-23 counts on: no key and no generated column is ever
\* rewritten, so what children refer to stays; and a rule that sets NULL does
\* so only where NULL may be.  Patterns and explicit rules are kept from it in
\* two different places, and only the second looks names up the other way
\* round; that lookup misses entries with twins in the schema.
OverridesAllowed ==
    \A cell \in DOMAIN overrides :
        \/ /\ ~Protected(Col(cell))
           /\ ActionOf(overrides[cell]).kind = "setNull" => Col(cell).nullable
        \/ overrides[cell].kind = "column" /\ Misplaced(overrides[cell].entry)

\* The same without the exception, which the code does not keep.
OverridesNeverTouchKeys == \A cell \in DOMAIN overrides : ~Protected(Col(cell))

\* An explicit setting that passed validation without a word is the one its
\* column gets, unless the document names the table or the column twice.
AcceptedIsApplied ==
    phase \notin {"saved", "refused"} =>
        \A e \in Entries : \A cell \in Checked(e) :
            \/ cell \in DOMAIN overrides /\ overrides[cell] = [kind |-> "column", entry |-> e]
            \/ Twins(DocTables, cell[1], DOMAIN sc \ {cell[1]})
            \/ Twins(DocColumns(e[1]), cell[2], DOMAIN sc[cell[1]] \ {cell[2]})

\* A rule whose values are all of one sort, and the sort its sample was.
Sure(cell) ==
    LET action == ActionOf(overrides[cell])
        fits(S) == {v \in S : Coerces(Col(cell), v)}
    IN  /\ fits(Outputs(action, Col(cell))) \in {{}, Outputs(action, Col(cell))}
        /\ action.kind = "template" => Outputs(action, Col(cell)) = Samples(action, Col(cell))

\* A compiled profile fails a run in the middle only by a rule with values of
\* both sorts, one that wraps a value the column has none of, or one that was
\* never checked.
FailsOnlyUnsure ==
    phase = "failed" => \E cell \in DOMAIN overrides :
                            \/ ~Sure(cell)
                            \/ overrides[cell].kind = "column" /\ Misplaced(overrides[cell].entry)

\* resolve.go:81-82: "the answer matches what a run would do".  One random
\* sample is no match for a list of values of both sorts.
SampleMatchesRun == phase # "failed"
=============================================================================
