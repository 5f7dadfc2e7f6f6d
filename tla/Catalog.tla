------------------------------ MODULE Catalog ------------------------------
(***************************************************************************)
(* What the introspection of a database keeps of a table's definition      *)
(* (internal/db/postgres.go, mysql.go), and the table the DDL built from   *)
(* it defines (internal/db/clone.go).                                      *)
(*                                                                         *)
(* A defined table is a record                                             *)
(*   cols     names to [type, nullable, auto, default, generated, comment] *)
(*   pk       its key columns, in order                                    *)
(*   uniques  UNIQUE constraints, as sequences of columns                  *)
(*   indexes  records [on, unique, whole, plain]; whole is FALSE for a     *)
(*            partial index or one over an expression, which the sequence  *)
(*            "on" leaves out, plain is FALSE for one of a kind that its   *)
(*            columns need (FULLTEXT of a TEXT, SPATIAL, GiST of a point)  *)
(*   checks   records [on, form]; forms are "in", "range" and "other"      *)
(*   fks      records [from, to, key]: sequences of columns                *)
(*   comment, partitioned.                                                 *)
(* auto is "", "serial", "identity" or "increment"; default is "", a       *)
(* literal, an expression or a function.  Tables have a key; the order of  *)
(* their columns, by name in a clone, and the names of indexes are left    *)
(* out.                                                                    *)
(***************************************************************************)
EXTENDS Naturals, Sequences, FiniteSets, SequencesExt

CONSTANT Alphabet    \* the names of tables, columns and objects, in order

ByName(S) == SelectSeq(Alphabet, LAMBDA n : n \in S)

-----------------------------------------------------------------------------
(* Introspection.                                                           *)

\* Each pair of columns of a key is a reference of its own.
Pairs(table) == UNION {{[col |-> fk.from[i], to |-> fk.to, key |-> fk.key[i]] : i \in DOMAIN fk.from} : fk \in table.fks}

\* One reference is kept of each column.
References(table, c) == LET refs == {r \in Pairs(table) : r.col = c}
                        IN  IF refs = {} THEN {} ELSE {CHOOSE r \in refs : TRUE}

PgChecked(table, c, form)    == \E check \in table.checks : check.on = {c} /\ check.form = form
\* The clause is parsed, so a check over more columns counts for one of them.
MySqlChecked(table, c, form) == \E check \in table.checks : c = (CHOOSE x \in check.on : TRUE) /\ check.form = form

PgAuto(col) == col.auto = "serial"

PgColumn(table, c) ==
    LET col == table.cols[c]
    IN  [type      |-> col.type,
         nullable  |-> col.nullable /\ c \notin ToSet(table.pk),
         pk        |-> c \in ToSet(table.pk),
         unique    |-> <<c>> \in table.uniques,
         auto      |-> PgAuto(col),
         default   |-> IF PgAuto(col) \/ col.generated THEN "" ELSE col.default,
         generated |-> col.generated,
         enum      |-> col.type = "enum",
         checkIn   |-> PgChecked(table, c, "in"),
         checkRange |-> PgChecked(table, c, "range"),
         fk        |-> References(table, c),
         comment   |-> col.comment /\ ~table.partitioned]

\* COLUMN_KEY: a key column shows as PRI whatever else it has.  EXTRA: the test
\* for "generated" also finds the DEFAULT_GENERATED of an expression, whose
\* column is read without it.
MySqlColumn(table, c) ==
    LET col == table.cols[c]
    IN  [type      |-> col.type,
         nullable  |-> col.nullable /\ c \notin ToSet(table.pk),
         pk        |-> c \in ToSet(table.pk),
         unique    |-> /\ c \notin ToSet(table.pk)
                       /\ <<c>> \in table.uniques \/ \E i \in table.indexes : i.unique /\ i.whole /\ i.on = <<c>>,
         auto      |-> col.auto = "increment",
         default   |-> IF col.auto = "increment" \/ col.generated \/ col.default = "expression" THEN "" ELSE col.default,
         generated |-> col.generated,
         enum      |-> col.type \in {"enum", "set"},
         checkIn   |-> MySqlChecked(table, c, "in"),
         checkRange |-> MySqlChecked(table, c, "range"),
         fk        |-> References(table, c),
         comment   |-> col.comment]

Index(on, unique) == [on |-> on, unique |-> unique, whole |-> TRUE, plain |-> TRUE]

Constraints(table) == {Index(u, TRUE) : u \in table.uniques}

\* The columns a lookup of theirs can begin with.
Lookups(table) == {table.pk} \cup table.uniques \cup {i.on : i \in {j \in table.indexes : j.whole /\ j.plain}}

\* MySQL gives an index to a reference that nothing else begins with.
OwnIndexes(table) ==
    LET begins(cols, others) == \E other \in others : IsPrefix(cols, other)
        refs == {fk.from : fk \in table.fks}
    IN  {Index(cols, FALSE) : cols \in {r \in refs : ~begins(r, Lookups(table) \cup (refs \ {r}))}}

\* A single column that is UNIQUE carries its index with it.
PgIndexes(table) ==
    {i \in table.indexes \cup Constraints(table) : i.whole /\ ~(i.unique /\ Len(i.on) = 1 /\ i.on \in table.uniques)}
\* The columns of an index are read, the expressions between them not.
MySqlIndexes(table) ==
    {[i EXCEPT !.whole = TRUE] : i \in {j \in table.indexes \cup Constraints(table) : ~(j.unique /\ Len(j.on) = 1)}}
    \cup OwnIndexes(table)

\* An index over nothing but an expression has no columns to scan.
Readable(engine, table) == engine = "mysql" => \A i \in table.indexes : i.on # <<>>

\* In Postgres comments are read of ordinary tables only.  Neither the order of
\* a key's columns nor the kind of an index is read.
Introspect(engine, table) ==
    [cols    |-> [c \in DOMAIN table.cols |-> IF engine = "pgx" THEN PgColumn(table, c) ELSE MySqlColumn(table, c)],
     indexes |-> IF engine = "pgx" THEN PgIndexes(table) ELSE MySqlIndexes(table),
     comment |-> table.comment /\ ~table.partitioned,
     partitioned |-> table.partitioned]

-----------------------------------------------------------------------------
(* The DDL.                                                                 *)

Fresh == [type |-> "text", nullable |-> TRUE, auto |-> "", default |-> "", generated |-> FALSE, comment |-> FALSE]

\* An enum is cloned as text with a check in Postgres, a set as an enum in MySQL.
Type(engine, col) == IF ~col.enum THEN col.type ELSE IF engine = "pgx" THEN "text" ELSE "enum"

\* In MySQL the comment is part of the column.
Inline(engine, col) == engine = "mysql" /\ col.comment

\* buildColumnDDL(): a generated column has its expression and nothing else.
Generated(engine, col) == [Fresh EXCEPT !.type = Type(engine, col), !.generated = TRUE, !.comment = Inline(engine, col)]

BuiltColumn(engine, col) ==
    IF col.generated
      THEN Generated(engine, col)
      ELSE [Fresh EXCEPT !.type = Type(engine, col),
                         !.nullable = col.nullable /\ ~col.pk,
                         !.auto = IF ~col.auto THEN "" ELSE IF engine = "pgx" THEN "identity" ELSE "increment",
                         !.default = IF col.auto THEN "" ELSE col.default,
                         !.comment = Inline(engine, col)]

\* The key, its columns in order of name whatever the source's order is.
KeyByName(meta) == ByName({c \in DOMAIN meta.cols : meta.cols[c].pk})

\* A mutant: an enum without the check of its values.
BuiltUnchecked(engine, meta) ==
    LET plain == {c \in DOMAIN meta.cols : ~meta.cols[c].generated}
        built(form, S) == {[on |-> {c}, form |-> form] : c \in S}
    IN  [cols    |-> [c \in DOMAIN meta.cols |-> BuiltColumn(engine, meta.cols[c])],
         pk      |-> KeyByName(meta),
         uniques |-> {<<c>> : c \in {x \in plain : meta.cols[x].unique /\ ~meta.cols[x].pk}},
         indexes |-> {},
         checks  |-> built("in", {c \in plain : meta.cols[c].checkIn}) \cup built("range", {c \in plain : meta.cols[c].checkRange}),
         fks     |-> {},
         comment |-> engine = "mysql" /\ meta.comment,
         partitioned |-> FALSE]

\* buildCreateTable(): everything but references, indexes and comments.
BuiltTable(engine, meta) ==
    LET plain == {c \in DOMAIN meta.cols : ~meta.cols[c].generated}
        built(form, S) == {[on |-> {c}, form |-> form] : c \in S}
    IN  [cols    |-> [c \in DOMAIN meta.cols |-> BuiltColumn(engine, meta.cols[c])],
         pk      |-> KeyByName(meta),
         uniques |-> {<<c>> : c \in {x \in plain : meta.cols[x].unique /\ ~meta.cols[x].pk}},
         indexes |-> {},
         checks  |-> built("in", {c \in plain : meta.cols[c].checkIn \/ (engine = "pgx" /\ meta.cols[c].enum)})
                     \cup built("range", {c \in plain : meta.cols[c].checkRange}),
         fks     |-> {},
         comment |-> engine = "mysql" /\ meta.comment,
         partitioned |-> FALSE]

\* A column a reference may be made to: unique on its own or, in MySQL, the
\* first of a key or an index.
Referable(engine, table, c) ==
    IF engine = "mysql" THEN \E cols \in Lookups(table) \cup {i.on : i \in OwnIndexes(table)} : IsPrefix(<<c>>, cols)
    ELSE \/ table.pk = <<c>> \/ <<c>> \in table.uniques
         \/ \E i \in table.indexes : i.on = <<c>> /\ i.whole /\ i.unique

Reference(r) == [from |-> <<r.col>>, to |-> r.to, key |-> <<r.key>>]
=============================================================================
