------------------------------ MODULE CloneCases ----------------------------
(***************************************************************************)
(* Databases to clone, and to clone into.                                  *)
(***************************************************************************)
EXTENDS TLC

CONSTANT None

Plain   == [type |-> "int", nullable |-> FALSE, auto |-> "", default |-> "", generated |-> FALSE, comment |-> FALSE]
Serial  == [Plain EXCEPT !.auto = "serial"]
Counter == [Plain EXCEPT !.auto = "increment"]
Kind    == [Plain EXCEPT !.type = "enum", !.default = "literal", !.comment = TRUE]
Flags   == [Plain EXCEPT !.type = "set", !.nullable = TRUE]
Sum     == [Plain EXCEPT !.generated = TRUE, !.comment = TRUE]
Ref     == [Plain EXCEPT !.nullable = TRUE]

Fk(from, to, key) == [from |-> from, to |-> to, key |-> key]
Ix(on, unique, whole) == [on |-> on, unique |-> unique, whole |-> whole, plain |-> TRUE]
Special(on) == [Ix(on, FALSE, TRUE) EXCEPT !.plain = FALSE]     \* FULLTEXT, GiST
Check(on, form) == [on |-> on, form |-> form]

Bare(cols, pk) == [cols |-> cols, pk |-> pk, uniques |-> {}, indexes |-> {}, checks |-> {}, fks |-> {},
                   comment |-> FALSE, partitioned |-> FALSE]

Users(id, last) ==
    [Bare(("id" :> id) @@ ("boss" :> Ref) @@ ("kind" :> last) @@ ("sum" :> Sum), <<"id">>) EXCEPT
        !.uniques = {<<"boss">>, <<"sum">>, <<"boss", "kind">>}, !.checks = {Check({"boss"}, "range"), Check({"sum"}, "in"), Check({"id", "boss"}, "in")},
        !.indexes = {Ix(<<"sum", "kind">>, FALSE, TRUE), Ix(<<"kind">>, FALSE, TRUE)},
        !.fks = {Fk(<<"boss">>, "users", <<"id">>)}, !.comment = TRUE]
Orders(pk, key) ==
    [Bare(("user" :> Plain) @@ ("line" :> Plain), pk) EXCEPT
        !.uniques = {<<"line">>}, !.fks = {Fk(<<"user">>, "users", <<key>>)}]
ByUser == <<"user", "line">>
ByLine == <<"line", "user">>

View(needs)    == [kind |-> "view", on |-> None, needs |-> needs, readable |-> TRUE]
Routine(needs) == [kind |-> "routine", on |-> None, needs |-> needs, readable |-> TRUE]
Trigger(on, needs) == [kind |-> "trigger", on |-> on, needs |-> needs \cup {on}, readable |-> TRUE]
Hidden(object) == [object EXCEPT !.readable = FALSE]

\* Views of views in both directions of their names, over a routine.
Views(f) == ("a_view" :> View({"b_view"})) @@ ("b_view" :> View({"users", "f"})) @@ ("c_view" :> View({"b_view"})) @@ ("f" :> f)
            @@ ("t" :> Trigger("orders", IF f = Routine({}) THEN {"f"} ELSE {}))

Db(engine, tables, objects) == [engine |-> engine, tables |-> tables, objects |-> objects]

Pg(users, orders, objects) == Db("pgx", ("users" :> users) @@ ("orders" :> orders), objects)
My(users, orders, objects) == Db("mysql", ("users" :> users) @@ ("orders" :> orders), objects)

PgUsers == Users(Serial, Kind)
MyUsers == Users(Counter, Flags)
PgWhole == Pg([PgUsers EXCEPT !.indexes = @ \cup {Ix(<<"kind">>, TRUE, FALSE)}], Orders(ByUser, "id"), Views(Routine({})))
MyWhole == My([MyUsers EXCEPT !.indexes = @ \cup {Ix(<<"kind", "boss">>, TRUE, FALSE)}, !.cols["kind"].default = "expression"],
              Orders(ByUser, "boss"), Views(Routine({})))

Sources == {PgWhole, MyWhole,
            \* a default that calls a routine; a domain; a partitioned parent
            Pg([PgUsers EXCEPT !.cols["boss"].default = "f"], Orders(ByUser, "id"), Views(Routine({}))),
            Pg([PgUsers EXCEPT !.cols["kind"].type = "domain"], Orders(ByUser, "id"), <<>>),
            Pg([PgUsers EXCEPT !.partitioned = TRUE], Orders(ByLine, "id"), Views(Hidden(Routine({})))),
            \* a routine over a view; references to a unique index and to half of a key
            Pg(PgUsers, Orders(ByUser, "id"), Views(Routine({"c_view"}))),
            Pg([PgUsers EXCEPT !.indexes = @ \cup {Ix(<<"kind">>, TRUE, TRUE)}], Orders(ByUser, "kind"), <<>>),
            My(MyUsers, [Orders(ByUser, "id") EXCEPT !.fks = {Fk(ByUser, "orders", ByUser)}], <<>>),
            My([MyUsers EXCEPT !.indexes = @ \cup {Ix(<<>>, FALSE, FALSE)}], Orders(ByUser, "id"), <<>>),
            \* keys and references in another order; indexes of a kind of their own
            My(MyUsers, Orders(ByLine, "id"), <<>>),
            My([MyUsers EXCEPT !.indexes = @ \cup {Ix(<<"id", "boss">>, FALSE, TRUE)}],
               [Orders(<<"line">>, "id") EXCEPT !.fks = {Fk(ByLine, "users", <<"id", "boss">>)}], <<>>),
            My([MyUsers EXCEPT !.indexes = @ \cup {Special(<<"kind">>)}], Orders(ByUser, "id"), <<>>),
            Pg([PgUsers EXCEPT !.indexes = @ \cup {Special(<<"kind">>)}], Orders(ByUser, "id"), <<>>)}

Empty(engine) == Db(engine, <<>>, <<>>)
\* A database in use: one table of the source's and one of its own, which
\* references it, and objects over both.
Used(engine, key) ==
    Db(engine, ("users" :> [Bare(("id" :> Plain) @@ ("nick" :> Plain), <<"id">>) EXCEPT !.uniques = {<<"nick">>}])
               @@ ("audit" :> [Bare(("user" :> [Plain EXCEPT !.default = IF engine = "pgx" THEN "f" ELSE ""]), <<"user">>)
                                  EXCEPT !.fks = {Fk(<<"user">>, "users", <<key>>)}]),
       ("f" :> Routine({})) @@ ("b_view" :> View({"audit"})) @@ ("own" :> View({"b_view"})))

Targets(engine) == {Empty(engine), Used(engine, "id"), Used(engine, "nick"),
                    [Used(engine, "id") EXCEPT !.tables = <<>>, !.objects = "f" :> Routine({})]}

MCAlphabet == <<"a_view", "audit", "b_view", "boss", "c_view", "f", "id", "kind", "line", "nick",
                "orders", "own", "sum", "t", "user", "users">>
MCCases == UNION {{<<s, d>> : d \in Targets(s.engine)} : s \in Sources} \cup {<<PgWhole, Empty("mysql")>>}
MCWants == {{}, {"view"}, {"view", "routine", "trigger"}}
=============================================================================
