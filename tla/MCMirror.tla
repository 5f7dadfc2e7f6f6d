------------------------------ MODULE MCMirror ------------------------------
(***************************************************************************)
(* Every way to mirror two small databases: a chain closed by a nullable   *)
(* key that points against the seed order, and a table with two parents,   *)
(* one of which references the other and itself through nullable keys.     *)
(***************************************************************************)
EXTENDS Mirror

Names == <<"a", "b", "c">>
Chain == [names |-> Names, required |-> {<<"b", "a">>, <<"c", "b">>}, optional |-> {<<"a", "c">>}]
Join  == [names |-> Names, required |-> {<<"a", "b">>, <<"a", "c">>}, optional |-> {<<"c", "b">>, <<"c", "c">>}]

Long  == [names |-> Append(Names, "d"), required |-> {<<"b", "a">>, <<"c", "b">>, <<"d", "c">>}, optional |-> {}]

ChainAndJoin == {[schema |-> Chain, engine |-> "pgx"], [schema |-> Join, engine |-> "mysql"]}
ChainOnMySQL == {[schema |-> Chain, engine |-> "mysql"]}
NoneOrOne    == {{}, {"a"}, {"b"}}
AllOrSome    == {ToSet(Names), {"b", "c"}}
Everything   == {ToSet(Names)}
Nothing      == {{}}
LongChain    == {[schema |-> Long, engine |-> "pgx"]}
OnlyA        == {{"a"}}
OnlyD        == {{"d"}}
=============================================================================
