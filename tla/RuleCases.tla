------------------------------ MODULE RuleCases -----------------------------
(***************************************************************************)
(* Schemas, and seed profiles for them.                                    *)
(***************************************************************************)
EXTENDS TLC, FiniteSets

MCFolded == [n \in {"users", "Users", "USERS"} |-> "users"] @@ [n \in {"id", "ID", "Id"} |-> "id"] @@ ("v" :> "v") @@ ("teams" :> "teams")
MCMatches == ("*" :> {"users", "teams", "id", "v"}) @@ ("users" :> {"users"}) @@ ("id" :> {"id"}) @@ ("v" :> {"v"})

Plain == [type |-> "number", pk |-> FALSE, fk |-> "", nullable |-> TRUE, unique |-> FALSE,
          generated |-> FALSE, grouped |-> FALSE, faker |-> "number"]
Key   == [Plain EXCEPT !.pk = TRUE, !.nullable = FALSE]
Ref   == [Plain EXCEPT !.fk = "teams"]
Gen   == [Plain EXCEPT !.generated = TRUE]
Text  == [Plain EXCEPT !.type = "text", !.nullable = FALSE, !.unique = TRUE, !.grouped = TRUE]
Day   == [Plain EXCEPT !.type = "date", !.faker = ""]
Bare  == [Plain EXCEPT !.faker = ""]
Flag  == [Plain EXCEPT !.type = "tinyint", !.nullable = FALSE]

Ids == {Key, Ref, Gen}
Values == {Text, Day, Bare, Flag}

\* One or two tables, with one column or with twins.
TableSchemas  == {[t \in T |-> [c \in {"id", "v"} |-> IF c = "id" THEN k ELSE v]] :
                    T \in {{"users"}, {"USERS"}, {"users", "USERS"}}, k \in Ids, v \in Values}
ColumnSchemas == {[t \in {"users"} |-> [c \in C |-> IF c = "id" THEN k ELSE v]] :
                    C \in {{"id", "ID"}, {"id", "v"}, {"ID"}}, k \in {Key, Ref}, v \in {Plain, Text}}
MCSchemas == TableSchemas \cup ColumnSchemas

Fixed(kind, values) == [kind |-> kind, values |-> values]
Tpl(segments) == [kind |-> "template", segments |-> segments]

Actions == {Fixed("setNull", {}), Fixed("value", {"word"}), Fixed("oneOf", {"12", "word"}), Fixed("faker", {"int"}),
            Tpl(<<"auto", "seq">>), Tpl(<<"auto", "auto">>), Tpl(<<"text", "seq">>)}
Broken  == {Fixed("", {}), Tpl(<<"open">>), Fixed("faker", {})}

Shape(min, avg, max) == [min |-> min, avg |-> avg, max |-> max]
Doc == [version |-> 1, rules |-> <<>>, tables |-> <<>>, ignore |-> <<>>, relations |-> <<>>]

Rule(glob, action) == [table |-> "", column |-> glob, action |-> action]
Entry(n, columns) == [rows |-> n, columns |-> columns]

Firsts == {Fixed("setNull", {}), Fixed("oneOf", {"12", "word"}), Tpl(<<"auto", "seq">>)}
PatternDocs == {[Doc EXCEPT !.rules = <<Rule("*", a), Rule(g, b)>>] : g \in {"id", "v"}, a \in Firsts, b \in Actions \cup {Fixed("", {})}}

Explicits(names) == {(n :> a) : n \in names, a \in Actions}
TableDocs == {[Doc EXCEPT !.tables = [t \in T |-> Entry(IF t = "users" THEN 1 ELSE 2, c)], !.ignore = g] :
                T \in {{"users"}, {"Users"}, {"USERS"}, {"Users", "USERS"}, {"users", "Users"}},
                c \in Explicits({"v"}), g \in {<<>>, <<"users">>}}
ColumnDocs == {[Doc EXCEPT !.tables = ("Users" :> Entry(0, (n :> a) @@ ("id" :> b)))] : n \in {"Id", "ID", "v"}, a \in Actions, b \in {Tpl(<<"auto", "seq">>), Fixed("setNull", {})}}

RelationDocs == {[Doc EXCEPT !.version = v, !.relations = [k \in K |-> Shape(lo, 2, IF k[1] = "users" THEN 3 ELSE hi)]] :
                   v \in {2, 3}, lo \in {1, 3}, hi \in {1, 4},
                   K \in SUBSET {<<"users", "id">>, <<"Users", "ID">>, <<"teams", "v">>}}
BrokenDocs == {[Doc EXCEPT !.rules = <<Rule(g, a)>>, !.ignore = i] : g \in {"*", "["}, a \in Broken, i \in {<<>>, <<"">>, <<"[">>}}

MCProfiles == PatternDocs \cup TableDocs \cup ColumnDocs \cup RelationDocs \cup BrokenDocs
=============================================================================
