----------------------------- MODULE MCRunPlan -----------------------------
EXTENDS RunPlan

Names == <<"a", "b", "c">>
Sc(required, optional) == [names |-> Names, required |-> required, optional |-> optional]

\* A chain against the names' order, two parents, a cycle, and an optional key
\* back to a child that references itself.
MCSchemas == {Sc({<<"a", "b">>, <<"b", "c">>}, {}),
              Sc({<<"c", "a">>, <<"c", "b">>}, {<<"b", "a">>}),
              Sc({<<"a", "b">>, <<"b", "a">>}, {}),
              Sc({<<"b", "a">>, <<"b", "b">>}, {<<"a", "b">>, <<"c", "b">>})}

T == ToSet(Names)

\* Stored rows have the rows they require.
Consistent(r) == \A fk \in r.schema.required : fk[1] \in r.filled => fk[2] \in r.filled

Asked(from, truncates, literals, bares, choices, ignores, odds, uncounteds) ==
    {r \in [from : {from}, schema : MCSchemas, engine : {"pgx", "mysql"}, truncate : truncates,
            literal : literals, bare : bares, chosen : choices, ignored : ignores, odd : odds,
            uncounted : uncounteds, filled : SUBSET T] :
        /\ Consistent(r)
        /\ ~r.truncate => r.engine = "pgx" /\ ~r.bare}

Odd == {{}, {"c"}}
Few == {S \in SUBSET T : Cardinality(S) <= 1}

MCRequests ==
    Asked("webSeed", BOOLEAN, BOOLEAN, BOOLEAN, {{}, {"a"}, {"c"}}, Few, Odd, {{}}) \cup
    Asked("cliSeed", BOOLEAN, BOOLEAN, {FALSE}, {{}}, SUBSET T, Odd, {{}, {"b"}}) \cup
    Asked("webGaps", {FALSE}, {FALSE}, {FALSE}, SUBSET T, Few, Odd, Few) \cup
    Asked("cliGaps", {FALSE}, {FALSE}, {FALSE}, {{}}, SUBSET T, {{}}, Few) \cup
    Asked("tuiSeed", BOOLEAN, {FALSE}, {FALSE}, {{}}, {{}, {"a"}}, Odd, {{}}) \cup
    Asked("tuiGaps", {FALSE}, {FALSE}, {FALSE}, {{}}, {{}, {"a"}}, {{}}, Few) \cup
    Asked("webGenerate", {FALSE}, {FALSE}, {FALSE}, SUBSET T, SUBSET T, {{}}, {{}}) \cup
    Asked("cliGenerate", {FALSE}, {FALSE}, {FALSE}, {{}}, SUBSET T, {{}}, {{}}) \cup
    Asked("tuiGenerate", {FALSE}, {FALSE}, {FALSE}, {{}}, {{}}, {{}}, {{}}) \cup
    UNION {Asked(from, BOOLEAN, {FALSE}, BOOLEAN, {{}}, {{}}, {{}}, {{}}) : from \in {"cliMirror", "tuiMirror"}} \cup
    UNION {Asked(from, {FALSE}, {FALSE}, {FALSE}, {{}}, {{}}, {{}}, {{}}) : from \in {"cliClone", "tuiClone"}}

AnyFault == {"profile", "count", "truncate", "insert", "act"}
=============================================================================
