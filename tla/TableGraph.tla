----------------------------- MODULE TableGraph -----------------------------
(***************************************************************************)
(* The dependency graph of a schema (internal/graph) and what is computed  *)
(* from it: the order tables are seeded in, the parents a selection needs  *)
(* and the tables a truncation empties.                                    *)
(*                                                                         *)
(* A schema is a record: names is the sequence of its tables in            *)
(* alphabetical order, required and optional are its foreign keys          *)
(* <<child, parent>>, NOT NULL and nullable.                               *)
(***************************************************************************)
EXTENDS Integers, FiniteSets, SequencesExt, Picking

TablesOf(sc) == ToSet(sc.names)

\* Only NOT NULL keys order tables: a nullable one can be seeded as NULL.
Edges(sc) == {fk \in sc.required : fk[1] # fk[2]}

Parents(sc, t) == {fk[2] : fk \in {e \in Edges(sc) : e[1] = t}}

\* The tables whose last unseeded parent was node, in alphabetical order.
Released(sc, sorted, node) ==
    Among(sc.names, {m \in TablesOf(sc) : /\ node \in Parents(sc, m)
                                          /\ Parents(sc, m) \subseteq ToSet(sorted) \cup {node}})

Dequeue(sc, s) ==
    IF s.queue = <<>>
      THEN s
      ELSE LET node == Head(s.queue)
           IN  [queue  |-> Tail(s.queue) \o Released(sc, s.sorted, node),
                sorted |-> Append(s.sorted, node)]

\* Kahn's algorithm.  On a cycle the result is shorter than the schema and the
\* code returns an error.
TopologicalSort(sc) ==
    LET roots == Among(sc.names, {t \in TablesOf(sc) : Parents(sc, t) = {}})
        run[n \in 0..Len(sc.names)] ==
            IF n = 0 THEN [queue |-> roots, sorted |-> <<>>] ELSE Dequeue(sc, run[n - 1])
    IN  run[Len(sc.names)].sorted

Image(S, R) == {r[2] : r \in {e \in R : e[1] \in S}}

Ends(R) == {r[2] : r \in R}

\* What the edges R lead to from S, in one step or more: the least set that has
\* what S leads to and what its own members lead to.
Reachable(S, R) ==
    {x \in Ends(R) : \A C \in SUBSET Ends(R) : Image(S \cup C, R) \subseteq C => x \in C}

Ancestors(sc, S) == Reachable(S, Edges(sc))

\* From a table to the ones that reference it through any key.
Children(sc) == {<<fk[2], fk[1]>> : fk \in {e \in sc.required \cup sc.optional : e[1] # e[2]}}

\* Every table that references one of S, transitively.
Descendants(sc, S) == Reachable(S, Children(sc))

\* Of the tables S, the one that comes before the others, and the one after.
Precedes(order, t, u) == \E i, j \in DOMAIN order : i < j /\ order[i] = t /\ order[j] = u
FirstOf(order, S) == {t \in S : \A u \in S \ {t} : Precedes(order, t, u)}
LastOf(order, S)  == {t \in S : \A u \in S \ {t} : Precedes(order, u, t)}

\* The required parents, at any distance, that were not selected themselves.
AutoSelected(sc, selected) == Ancestors(sc, selected) \ selected

\* The selection with them, in seed order, and what was only pulled in.
ResolveSelection(sc, selected) ==
    LET auto == AutoSelected(sc, selected)
    IN  [resolved |-> Among(TopologicalSort(sc), selected \cup auto), auto |-> auto]
=============================================================================
