-------------------------------- MODULE Clone --------------------------------
(***************************************************************************)
(* A schema clone (internal/db/clone.go, objects.go and its two callers):  *)
(* the statements built from what introspection keeps of the source, and   *)
(* their execution on the target, which may be used and cloned into again. *)
(*                                                                         *)
(* A database is a record                                                  *)
(*   engine, tables (names to tables as in Catalog) and                    *)
(*   objects (names to [kind, on, needs, readable]): views, routines and   *)
(*   triggers, with what must exist for their CREATE to be accepted, the   *)
(*   table of a trigger and whether the source lets the definition be read.*)
(* Names of tables and objects differ, and those of indexes do not clash.  *)
(* What a server does with a statement is modelled here as far as the      *)
(* clone depends on it.                                                    *)
(***************************************************************************)
EXTENDS Naturals, Sequences, FiniteSets, SequencesExt, Catalog

CONSTANTS
    Cases,      \* <<source, target>>
    Wants,      \* sets of object kinds a clone may ask for
    MaxRuns,    \* clones into one target
    None

VARIABLES
    source,
    target,
    before,     \* the target as the last clone found it
    request,    \* [drop, want] of the last clone
    status,     \* "idle", "running", "views", "done", "failed" or "refused"
    plan,       \* the statements of the last clone
    at,         \* statements executed
    pass,       \* CREATE VIEWs of the run of them being retried: [todo, failed, size]
    faulty,     \* a statement of this clone was lost
    clones

vars == <<source, target, before, request, status, plan, at, pass, faulty, clones>>

Engine == source.engine
Tables == DOMAIN source.tables

-----------------------------------------------------------------------------
(* The statements.                                                          *)

\* IntrospectObjects(): what is wanted and can be read.
Objects(want) == {o \in DOMAIN source.objects : source.objects[o].kind \in want /\ source.objects[o].readable}
OfKind(want, kind) == ByName({o \in Objects(want) : source.objects[o].kind = kind})

Meta  == [t \in Tables |-> Introspect(Engine, source.tables[t])]
Names == ByName(Tables)

Stmt(op, on, what) == [op |-> op, on |-> on, what |-> what]
Of(names, op, F(_)) == [i \in DOMAIN names |-> Stmt(op, names[i], F(names[i]))]
All(op, F(_)) == FlattenSeq([i \in DOMAIN Names |-> [j \in DOMAIN F(Names[i]) |-> Stmt(op, Names[i], F(Names[i])[j])]])

Created(t)     == BuiltTable(Engine, Meta[t])
ReferencesOf(t) == SetToSeq(UNION {Meta[t].cols[c].fk : c \in DOMAIN Meta[t].cols})
IndexesOf(t)   == SetToSeq(Meta[t].indexes)
\* buildCommentDDL(): the table and its columns; in MySQL they are in the DDL.
CommentsOf(t)  == IF Engine = "mysql" THEN <<>>
                  ELSE SetToSeq((IF Meta[t].comment THEN {None} ELSE {}) \cup {c \in DOMAIN Meta[t].cols : Meta[t].cols[c].comment})
Definition(o)  == source.objects[o]

\* BuildObjectDropDDL()
ObjectDrops(want) == LET drops(kind) == Of(OfKind(want, kind), "drop object", LAMBDA o : None)
                     IN  drops("trigger") \o drops("view") \o drops("routine")

\* In reverse; MySQL does not check references until these are through.
TableDrops == Of(Reverse(Names), "drop table", LAMBDA t : None)

\* BuildSchemaDDL()
SchemaDDL == Of(Names, "table", Created) \o All("reference", ReferencesOf)
             \o All("index", IndexesOf) \o All("comment", CommentsOf)

\* BuildObjectCreateDDL()
ObjectDDL(want) == LET creates(kind) == Of(OfKind(want, kind), kind, Definition)
                   IN  creates("routine") \o creates("view") \o creates("trigger")

\* BuildCloneDDL()
Drops(r)      == IF r.drop THEN ObjectDrops(r.want) \o TableDrops ELSE <<>>
Statements(r) == Drops(r) \o SchemaDDL \o ObjectDDL(r.want)

-----------------------------------------------------------------------------
(* What the server does.                                                    *)

Present(db, n) == n \in DOMAIN db.tables \/ n \in DOMAIN db.objects

\* The objects that depend on n, at any distance.
Dependants(db, n) ==
    LET closed(S) == \A o \in DOMAIN db.objects : db.objects[o].needs \cap (S \cup {n}) # {} => o \in S
    IN  {o \in DOMAIN db.objects : \A S \in SUBSET DOMAIN db.objects : closed(S) => o \in S}

Without(f, S) == [x \in DOMAIN f \ S |-> f[x]]

\* A table that no longer references n, nor computes a default with it.
Detached(table, n) ==
    [table EXCEPT !.fks = {fk \in @ : fk.to # n},
                  !.cols = [c \in DOMAIN @ |-> IF @[c].default = n THEN [@[c] EXCEPT !.default = ""] ELSE @[c]]]

\* DROP ... IF EXISTS, in Postgres with CASCADE.
Dropped(db, n) ==
    IF ~Present(db, n) THEN db
    ELSE LET tables == Without(db.tables, {n})
             gone   == {n} \cup IF Engine = "pgx" THEN Dependants(db, n)
                                ELSE {o \in DOMAIN db.objects : db.objects[o].on = n}
         IN  [db EXCEPT !.objects = Without(@, gone),
                        !.tables = IF Engine = "pgx" THEN [t \in DOMAIN tables |-> Detached(tables[t], n)] ELSE tables]

\* What a table that stayed expects, in MySQL, of the table it references when
\* that is created again: the column, of its type, to be looked up by.
Expected(db, name, table) ==
    \A t \in DOMAIN db.tables : \A fk \in db.tables[t].fks : fk.to = name =>
        /\ ToSet(fk.key) \subseteq DOMAIN table.cols
        /\ \A i \in DOMAIN fk.key : table.cols[fk.key[i]].type = db.tables[t].cols[fk.from[i]].type
        /\ \E cols \in Lookups(table) : IsPrefix(fk.key, cols)

\* A default calls a routine that must exist, a domain is not cloned.
TableAccepted(db, name, table) ==
    /\ \A c \in DOMAIN table.cols : /\ table.cols[c].type # "domain"
                                    /\ table.cols[c].default \in {"", "literal", "expression"} \cup DOMAIN db.objects
    /\ Engine = "mysql" => Expected(db, name, table)

\* With check_function_bodies off only the signature of a routine counts, and
\* Postgres replaces one that exists.
ObjectAccepted(db, o, object) ==
    /\ \A n \in object.needs : Present(db, n)
    /\ ~Present(db, o) \/ (Engine = "pgx" /\ object.kind = "routine")

Accepted(db, s) ==
    CASE s.op \in {"drop object", "drop table", "comment"} -> TRUE
      [] s.op = "table"     -> ~Present(db, s.on) /\ TableAccepted(db, s.on, s.what)
      [] s.op = "index"     -> s.what.plain
      [] s.op = "reference" -> s.what.to \in DOMAIN db.tables /\ Referable(Engine, db.tables[s.what.to], s.what.key)
      [] OTHER              -> ObjectAccepted(db, s.on, s.what)

Effect(db, s) ==
    CASE s.op \in {"drop object", "drop table"} -> Dropped(db, s.on)
      [] s.op = "table"     -> [db EXCEPT !.tables = (s.on :> s.what) @@ @]
      [] s.op = "reference" -> [db EXCEPT !.tables[s.on].fks = @ \cup {Reference(s.what)}]
      [] s.op = "index"     -> [db EXCEPT !.tables[s.on].indexes = @ \cup {s.what}]
      [] s.op = "comment"   -> IF s.what = None THEN [db EXCEPT !.tables[s.on].comment = TRUE]
                               ELSE [db EXCEPT !.tables[s.on].cols[s.what].comment = TRUE]
      [] OTHER              -> [db EXCEPT !.objects = (s.on :> s.what) @@ @]

-----------------------------------------------------------------------------
(* The clone.                                                               *)

Init ==
    /\ \E case \in Cases : source = case[1] /\ target = case[2]
    /\ before = target /\ request = None /\ status = "idle"
    /\ plan = <<>> /\ at = 0 /\ pass = None /\ faulty = FALSE /\ clones = 0

\* CloneSchema(): engines must match, the source must be readable and, unless
\* tables are dropped, the target must have none.
Refused(drop) ==
    \/ source.engine # target.engine
    \/ \E t \in Tables : ~Readable(source.engine, source.tables[t])
    \/ ~drop /\ DOMAIN target.tables # {}
    \/ ~drop /\ \E t \in DOMAIN target.tables : ~Readable(target.engine, target.tables[t])

Begin(drop, want) ==
    /\ status \notin {"running", "views"}
    /\ clones < MaxRuns
    /\ request' = [drop |-> drop, want |-> want]
    /\ status' = IF Refused(drop) THEN "refused" ELSE "running"
    /\ plan' = IF Refused(drop) THEN <<>> ELSE Statements(request')
    /\ before' = target
    /\ at' = 0 /\ faulty' = FALSE /\ clones' = clones + 1
    /\ UNCHANGED <<source, target, pass>>

\* Postgres rolls the transaction back.
Rollback == IF Engine = "pgx" THEN before ELSE target

Fail(lost) ==
    /\ target' = Rollback
    /\ status' = "failed"
    /\ faulty' = (faulty \/ lost)
    /\ UNCHANGED <<source, before, request, plan, at, pass, clones>>

\* execDDLSequence()
Execute ==
    /\ status = "running" /\ at < Len(plan)
    /\ LET s == plan[at + 1]
       IN  /\ s.op # "view"
           /\ \/ /\ Accepted(target, s)
                 /\ target' = Effect(target, s)
                 /\ at' = at + 1
                 /\ UNCHANGED <<source, before, request, status, plan, pass, faulty, clones>>
              \/ ~Accepted(target, s) /\ Fail(FALSE)
              \/ Fail(TRUE)

Finish ==
    /\ status = "running" /\ at = Len(plan)
    /\ \/ status' = "done" /\ UNCHANGED <<source, target, before, request, plan, at, pass, faulty, clones>>
       \/ Engine = "pgx" /\ Fail(TRUE)          \* COMMIT

\* A run of CREATE VIEWs goes to execInPasses().
StartViews ==
    /\ status = "running" /\ at < Len(plan) /\ plan[at + 1].op = "view"
    /\ LET views == SelectSeq(plan, LAMBDA s : s.op = "view")
       IN  pass' = [todo |-> views, failed |-> <<>>, size |-> Len(views)]
    /\ status' = "views"
    /\ UNCHANGED <<source, target, before, request, plan, at, faulty, clones>>

\* A refused CREATE VIEW is undone alone, with a savepoint in Postgres.
TryView ==
    /\ status = "views" /\ pass.todo # <<>>
    /\ LET s == Head(pass.todo)
       IN  \/ /\ Accepted(target, s)
              /\ target' = Effect(target, s)
              /\ at' = at + 1
              /\ pass' = [pass EXCEPT !.todo = Tail(@)]
              /\ UNCHANGED faulty
           \/ \E lost \in BOOLEAN :
                 /\ lost \/ ~Accepted(target, s)
                 /\ pass' = [pass EXCEPT !.todo = Tail(@), !.failed = Append(@, s)]
                 /\ faulty' = (faulty \/ lost)
                 /\ UNCHANGED <<target, at>>
    /\ UNCHANGED <<source, before, request, status, plan, clones>>

EndlessPasses == pass.failed # <<>>

\* A pass that created something is followed by another over the rest.
AnotherPass == pass.failed # <<>> /\ Len(pass.failed) < pass.size

EndPass ==
    /\ status = "views" /\ pass.todo = <<>>
    /\ \/ /\ pass.failed = <<>>
          /\ pass' = None /\ status' = "running"
          /\ UNCHANGED <<source, target, before, request, plan, at, faulty, clones>>
       \/ /\ AnotherPass
          /\ pass' = [todo |-> pass.failed, failed |-> <<>>, size |-> Len(pass.failed)]
          /\ UNCHANGED <<source, target, before, request, status, plan, at, faulty, clones>>
       \/ /\ pass.failed # <<>> /\ ~AnotherPass
          /\ target' = Rollback /\ status' = "failed" /\ pass' = None
          /\ UNCHANGED <<source, before, request, plan, at, faulty, clones>>

Proceed == Execute \/ StartViews \/ TryView \/ EndPass \/ Finish

Next == Proceed \/ \E drop \in BOOLEAN, want \in Wants : Begin(drop, want)

\* The loop of the clone goes on by itself.
Spec == Init /\ [][Next]_vars /\ WF_vars(Proceed)

-----------------------------------------------------------------------------
(* Properties.                                                              *)

\* The target once the drops of the clone are through.
Cleared == FoldLeft(Effect, before, Drops(request))

\* What a clone cannot get past: a domain, or a default that calls a routine
\* which comes later; in MySQL a table that a table left alone references in a
\* way the clone does not fit; a reference to a column that is not unique in the
\* clone by its table alone; an index of a kind its columns need, which is built
\* as a plain one; an object that is there already, or needs what is neither
\* there nor cloned, or a routine whose signature needs what comes later.
Cause ==
    \/ \E t \in Tables : ~TableAccepted(Cleared, t, Created(t))
    \/ \E t \in Tables : \E r \in ToSet(ReferencesOf(t)) : r.to \notin Tables \/ ~Referable(Engine, Created(r.to), r.key)
    \/ \E t \in Tables : \E i \in Meta[t].indexes : ~i.plain
    \/ \E o \in Objects(request.want) :
          LET object == source.objects[o]
              later(n) == n \in Objects(request.want) /\ ~Present(Cleared, n)
          IN  \/ Present(Cleared, o) /\ ~(Engine = "pgx" /\ object.kind = "routine")
              \/ \E n \in object.needs : n \notin Tables \cup Objects(request.want) /\ ~Present(Cleared, n)
              \/ object.kind = "routine" /\ \E n \in object.needs : later(n)
              \/ object.kind = "view" /\ \E n \in object.needs : later(n) /\ source.objects[n].kind = "trigger"


\* What the clone is known to change: in Postgres an enum becomes text with a
\* check and a serial column an identity, which introspection does not see; in
\* MySQL a set becomes an enum; a generated column keeps its expression only;
\* UNIQUE on a part of a key goes.
Kept(col) ==
    IF col.generated
      THEN [col EXCEPT !.nullable = TRUE, !.unique = FALSE, !.checkIn = FALSE, !.checkRange = FALSE, !.enum = FALSE]
      ELSE [col EXCEPT !.type = IF Engine = "pgx" /\ col.enum THEN "text" ELSE IF @ = "set" THEN "enum" ELSE @,
                       !.checkIn = @ \/ (Engine = "pgx" /\ col.enum),
                       !.enum = @ /\ Engine # "pgx",
                       !.auto = @ /\ Engine # "pgx",
                       !.unique = @ /\ ~col.pk]

\* In MySQL the columns of a key come in order of name, and each column of a
\* reference becomes a reference: one that no longer begins the key, or followed
\* another in its reference, gets an index.
Reindexed(t) ==
    {Index(<<c>>, FALSE) : c \in {x \in {r.col : r \in Pairs(source.tables[t])} :
        Meta[t].cols[x].pk \/ \E fk \in source.tables[t].fks : x \in ToSet(Tail(fk.from))}}

\* Reading a finished clone gives what reading its source gave, but for those
\* columns and indexes, and every object asked for is there: whatever earlier
\* clones left behind (docs/commands.md:338).  What reading the source misses
\* (an expression's default in MySQL, the kind of an index, partial ones) the clone lacks.
CloneLooksAlike ==
    status = "done" =>
        /\ \A t \in Tables :
              /\ t \in DOMAIN target.tables
              /\ LET copy == Introspect(Engine, target.tables[t])
                 IN  /\ copy.cols = [c \in DOMAIN Meta[t].cols |-> Kept(Meta[t].cols[c])]
                     /\ Meta[t].indexes \subseteq copy.indexes
                     /\ copy.indexes \ Meta[t].indexes \subseteq IF Engine = "mysql" THEN Reindexed(t) ELSE {}
                     /\ copy.comment = Meta[t].comment
        /\ \A o \in Objects(request.want) : o \in DOMAIN target.objects /\ target.objects[o] = source.objects[o]

\* Every clone that starts ends: views that wait for each other, or for what
\* will never exist, are given up after a pass that creates nothing
\* (objects.go:626-648).
ClonesEnd == status \in {"running", "views"} ~> status \in {"done", "failed"}

\* What the documentation says a clone recreates (docs/commands.md:338:
\* "stored generated columns, PKs, FKs, single-column UNIQUE constraints"), a
\* generated column does not keep: buildColumnDDL returns before any of its
\* constraints are written (clone.go:292-298).
GeneratedKeepConstraints ==
    status = "done" =>
        \A t \in Tables : \A c \in DOMAIN Meta[t].cols :
            Meta[t].cols[c].unique => Introspect(Engine, target.tables[t]).cols[c].unique
=============================================================================
