---------------------------- MODULE MirrorProofs ----------------------------
(***************************************************************************)
(* Theorems about the two halves of a mirror run, the plan (Mirror) and    *)
(* the engine that fills its tables (Fill).                                *)
(*                                                                         *)
(* The plan, for every schema, request, count and cap: a run empties only  *)
(* what its reviewed plan names, leaves no row that may reference an       *)
(* emptied table, and is planned to fill only tables that can be filled    *)
(* when their turn comes.  The first two rest on one fact about the        *)
(* planner: whatever it gave up on the way, the tables a pass truncates    *)
(* are closed under the keys that point to them.  The third rests on       *)
(* TableGraphProofs and on the walk along the seed order, which finds the  *)
(* tables that cannot be filled (BlockedIs).                               *)
(*                                                                         *)
(* The engine, for every number of tables and rows, every chunk, batch and *)
(* connection count and both options of a run: Fill implements             *)
(* FillContract.  The pieces of a round write at once, so the invariant    *)
(* adds up what they have stored and what they may still store.  A sum is  *)
(* defined by recursion; here it is replaced by the number of elements of  *)
(* a set, which the theorems on finite sets count, and the equality of the *)
(* two is proved by minimal counterexample.                                *)
(***************************************************************************)
EXTENDS Mirror, Fill, TableGraphProofs

(***************************************************************************)
(* Tables and their descendants.                                           *)
(***************************************************************************)
KeysInside(sc) == sc.required \cup sc.optional \subseteq TablesOf(sc) \X TablesOf(sc)

LEMMA BelowIsDescendants ==
    ASSUME NEW sc \in Schemas, NEW t \in TablesOf(sc)
    PROVE  BelowOf[sc][t] = Descendants(sc, {t})
  BY DEF BelowOf

LEMMA DescendantsAreTables ==
    ASSUME NEW sc, KeysInside(sc), NEW S PROVE Descendants(sc, S) \subseteq TablesOf(sc)
  BY DEF Descendants, Reachable, Ends, Children, KeysInside

LEMMA BelowAreTables ==
    ASSUME NEW sc \in Schemas, KeysInside(sc), NEW t \in TablesOf(sc)
    PROVE  BelowOf[sc][t] \subseteq TablesOf(sc)
<1>1. Descendants(sc, {t}) \subseteq TablesOf(sc)
  BY DescendantsAreTables
<1> QED
  BY <1>1, BelowIsDescendants

\* With the tables below it, a set of tables is closed.
LEMMA BelowIsClosed ==
    ASSUME NEW sc \in Schemas, KeysInside(sc), NEW S \in SUBSET TablesOf(sc),
           NEW t \in S \cup UNION {BelowOf[sc][u] : u \in S}
    PROVE  BelowOf[sc][t] \subseteq S \cup UNION {BelowOf[sc][u] : u \in S}
<1> DEFINE below == UNION {BelowOf[sc][u] : u \in S}
<1>1. ASSUME NEW u \in S PROVE BelowOf[sc][u] = Descendants(sc, {u})
  BY BelowIsDescendants
<1>2. CASE t \in S
  BY <1>2
<1>3. CASE t \in below
  <2>1. PICK u \in S : t \in Descendants(sc, {u})
    BY <1>1, <1>3
  <2>2. t \in TablesOf(sc)
    BY <2>1, DescendantsAreTables
  <2>3. Image({t}, Children(sc)) \subseteq Descendants(sc, {u})
    BY <2>1, ReachableIsClosed DEF Image, Descendants
  <2>4. Image(Descendants(sc, {u}), Children(sc)) \subseteq Descendants(sc, {u})
    BY ReachableIsClosed DEF Descendants
  <2>5. Descendants(sc, {t}) \subseteq Descendants(sc, {u})
    BY <2>3, <2>4, ReachableIsLeast DEF Descendants
  <2> QED
    BY <1>1, <2>2, <2>5, BelowIsDescendants
<1> QED
  BY <1>2, <1>3

Follows(order, P) ==
    \A i \in DOMAIN order : \A p \in P[order[i]] : \E j \in DOMAIN order : j < i /\ order[j] = p

\* B is of those with a parent in A that is in B, or in M that is not.
Defined(B, T, P, A, M) == \A t \in T : t \in B <=> \E p \in P[t] : p \in (IF p \in B THEN A ELSE M)

\* Along an order in which parents come first, there is such a set.
LEMMA DefinedAlong ==
    ASSUME NEW T, NEW order \in Seq(T), IsInjective(order), ToSet(order) = T,
           NEW P, NEW A, NEW M, Follows(order, P)
    PROVE  \E B \in SUBSET T : Defined(B, T, P, A, M)
<1> DEFINE n == Len(order)
           K == SUBSET T
           Due(t, B) == \E p \in P[t] : p \in (IF p \in B THEN A ELSE M)
           step == [q \in (1..n) \X K |-> IF Due(order[q[1]], q[2]) THEN q[2] \cup {order[q[1]]} ELSE q[2]]
<1>1. n \in Nat /\ DOMAIN order = 1..n /\ \A i \in 1..n : order[i] \in T
  OBVIOUS
<1> HIDE DEF n
<1>2. step \in [(1..n) \X K -> K]
  <2> HIDE DEF Due
  <2> QED
    BY <1>1
<1>3. \A i \in 1..n, B \in K : step[i, B] = IF Due(order[i], B) THEN B \cup {order[i]} ELSE B
  <2> HIDE DEF Due
  <2> QED
    OBVIOUS
<1> HIDE DEF step
<1>4. {} \in K
  OBVIOUS
<1>5. PICK f \in [0..n -> K] : Goes(f, {}, step, n)
  <2> HIDE DEF K
  <2> QED
    BY <1>1, <1>2, <1>4, Recursion
<1>6. f[0] = {} /\ \A i \in 1..n : f[i] = IF Due(order[i], f[i - 1]) THEN f[i - 1] \cup {order[i]} ELSE f[i - 1]
  <2> SUFFICES ASSUME NEW i \in 1..n
               PROVE  f[i] = IF Due(order[i], f[i - 1]) THEN f[i - 1] \cup {order[i]} ELSE f[i - 1]
    BY <1>5 DEF Goes
  <2>1. i - 1 \in 0..n
    BY <1>1
  <2>2. f[i - 1] \in K
    BY <2>1
  <2>3. f[i] = step[i, f[i - 1]]
    BY <1>5 DEF Goes
  <2> HIDE DEF Due
  <2> QED
    BY <1>3, <2>2, <2>3
<1> DEFINE G == {i \in 0..n : /\ f[i] \subseteq {order[j] : j \in 1..i}
                              /\ \A j \in 1..i : order[j] \in f[i] <=> Due(order[j], f[i])}
<1>7. 0 \in G
  BY <1>1, <1>6
<1>8. ASSUME NEW i \in 1..n, i - 1 \in G PROVE i \in G
  <2>1. i \in 0..n /\ i - 1 \in 0..n /\ 1..i = (1..(i - 1)) \cup {i} /\ i \notin 1..(i - 1) /\ 1..(i - 1) \subseteq 1..n
    BY <1>1
  <2>2. /\ f[i - 1] \subseteq {order[j] : j \in 1..(i - 1)}
        /\ \A j \in 1..(i - 1) : order[j] \in f[i - 1] <=> Due(order[j], f[i - 1])
    BY <1>8
  <2>3. \A j \in 1..n : order[j] = order[i] => j = i
    BY <1>1 DEF IsInjective
  <2>4. order[i] \notin f[i - 1]
    BY <2>1, <2>2, <2>3
  <2>5. ASSUME NEW x, x # order[i] PROVE x \in f[i] <=> x \in f[i - 1]
    <3> HIDE DEF Due
    <3> QED
      BY <1>6, <2>5
  <2>6. ASSUME NEW j \in 1..i PROVE Due(order[j], f[i]) <=> Due(order[j], f[i - 1])
    <3>1. \A p \in P[order[j]] : p # order[i]
      BY <1>1, <2>1, <2>3, <2>6 DEF Follows
    <3> QED
      BY <2>5, <3>1
  <2>7. order[i] \in f[i] <=> Due(order[i], f[i - 1])
    <3> HIDE DEF Due
    <3> QED
      BY <1>6, <2>4
  <2>8. \A j \in 1..i : order[j] \in f[i] <=> Due(order[j], f[i])
    <3> HIDE DEF Due
    <3> QED
      BY <2>1, <2>2, <2>3, <2>5, <2>6, <2>7
  <2>9. f[i] \subseteq {order[j] : j \in 1..i}
    <3>1. {order[j] : j \in 1..i} = {order[j] : j \in 1..(i - 1)} \cup {order[i]}
      BY <2>1
    <3>2. f[i] \subseteq f[i - 1] \cup {order[i]}
      <4> HIDE DEF Due
      <4> QED
        BY <1>6
    <3> QED
      BY <2>2, <3>1, <3>2
  <2> QED
    BY <2>1, <2>8, <2>9
<1>9. 0..n \subseteq G
  <2> HIDE DEF G
  <2> QED
    BY <1>1, <1>7, <1>8, UpTo
<1>10. n \in 0..n /\ n \in G
  BY <1>1, <1>9
<1>11. f[n] \in SUBSET T /\ \A j \in 1..n : order[j] \in f[n] <=> Due(order[j], f[n])
  BY <1>10
<1>12. \A t \in T : \E j \in 1..n : order[j] = t
  BY <1>1 DEF ToSet
<1>13. \A t \in T : t \in f[n] <=> Due(t, f[n])
  <2> HIDE DEF Due
  <2> QED
    BY <1>11, <1>12
<1> QED
  BY <1>11, <1>13 DEF Defined

(***************************************************************************)
(* Which tables cannot be filled.                                          *)
(***************************************************************************)
\* The order of a schema without a cycle.
Ordered ==
    /\ Schema \in Schemas /\ Listed(Schema) /\ ~Cyclic

\* It has all the tables, each after its parents.
LEMMA OrderIs ==
    ASSUME Ordered
    PROVE  /\ Order \in Seq(Tables) /\ IsInjective(Order) /\ ToSet(Order) = Tables
           /\ AfterParents(Schema, Order)
<1>1. Order = TopologicalSort(Schema)
  BY DEF Order, OrderOf, Ordered
<1>2. Len(Order) \in Nat /\ Len(Schema.names) \in Nat
  BY <1>1, SortedIs DEF Ordered, Listed
<1> QED
  BY <1>1, <1>2, SortedIs DEF Ordered, Cyclic, Tables

\* A parent is a table that comes before its children.
LEMMA ParentIsBefore ==
    ASSUME Ordered, NEW t \in Tables, NEW p \in Parents(Schema, t)
    PROVE  p \in Tables /\ Precedes(Order, p, t)
<1>1. PICK i \in DOMAIN Order : Order[i] = t
  BY OrderIs DEF ToSet
<1>2. PICK j \in DOMAIN Order : j < i /\ Order[j] = p
  BY <1>1, OrderIs DEF AfterParents
<1> QED
  BY <1>1, <1>2, OrderIs DEF Precedes, ToSet

\* Where the parents come first, the tables that cannot be filled are those with
\* a parent that keeps no row, is given none, and is ignored or blocked itself.
LEMMA BlockedIs ==
    ASSUME Ordered
    PROVE  /\ Blocked \subseteq Tables
           /\ \A t \in Tables : t \in Blocked <=>
                 \E p \in Parents(Schema, t) :
                    /\ Kept(p) + (IF p \in Blocked THEN 0 ELSE insert[p]) = 0
                    /\ p \in request.ignored \/ p \in Blocked
<1> DEFINE Solves(g) == g = [t \in Tables |->
               \E p \in Parents(Schema, t) :
                  /\ Kept(p) + (IF g[p] THEN 0 ELSE insert[p]) = 0
                  /\ p \in request.ignored \/ g[p]]
           blocked == CHOOSE g : Solves(g)
           A == {p \in Tables : Kept(p) + 0 = 0}
           M == {p \in Tables : Kept(p) + insert[p] = 0 /\ p \in request.ignored}
           P == [t \in Tables |-> Parents(Schema, t)]
<1>1. Blocked = {t \in Tables : blocked[t]}
  BY DEF Blocked
<1>2. \A t \in Tables : Parents(Schema, t) \subseteq Tables
  BY ParentIsBefore
<1>3. \E B \in SUBSET Tables : Defined(B, Tables, P, A, M)
  <2>1. /\ Order \in Seq(Tables) /\ IsInjective(Order) /\ ToSet(Order) = Tables
    BY OrderIs
  <2>2. \A i \in DOMAIN Order : P[Order[i]] = Parents(Schema, Order[i])
    BY <2>1 DEF ToSet
  <2>3. Follows(Order, P)
    BY <2>2, OrderIs DEF AfterParents, Follows
  <2> HIDE DEF P, A, M
  <2> QED
    BY <2>1, <2>3, DefinedAlong
<1>4. PICK B \in SUBSET Tables : \A t \in Tables :
          t \in B <=> \E p \in P[t] : p \in (IF p \in B THEN A ELSE M)
  <2> HIDE DEF P, A, M
  <2> QED
    BY <1>3 DEF Defined
<1> DEFINE g == [t \in Tables |-> t \in B]
<1>5. Solves(g)
  <2>1. ASSUME NEW t \in Tables
        PROVE  g[t] <=> \E p \in Parents(Schema, t) :
                  /\ Kept(p) + (IF g[p] THEN 0 ELSE insert[p]) = 0
                  /\ p \in request.ignored \/ g[p]
    <3>1. \A p \in Parents(Schema, t) : p \in Tables /\ g[p] = (p \in B)
      BY <1>2
    <3>2. ASSUME NEW p \in Parents(Schema, t)
          PROVE  p \in (IF p \in B THEN A ELSE M) <=>
                  /\ Kept(p) + (IF g[p] THEN 0 ELSE insert[p]) = 0
                  /\ p \in request.ignored \/ g[p]
      <4>1. CASE p \in B
        <5>1. g[p] /\ p \in Tables
          BY <3>1, <4>1
        <5> HIDE DEF g
        <5> QED
          BY <4>1, <5>1
      <4>2. CASE p \notin B
        <5>1. ~g[p] /\ p \in Tables
          BY <3>1, <4>2
        <5> HIDE DEF g
        <5> QED
          BY <4>2, <5>1
      <4> QED
        BY <4>1, <4>2
    <3>3. t \in B <=> \E p \in Parents(Schema, t) : p \in (IF p \in B THEN A ELSE M)
      <4> HIDE DEF A, M
      <4> QED
        BY <1>4
    <3>4. g[t] = (t \in B)
      OBVIOUS
    <3> HIDE DEF g, A, M
    <3>5. t \in B <=> \E p \in Parents(Schema, t) :
                  /\ Kept(p) + (IF g[p] THEN 0 ELSE insert[p]) = 0
                  /\ p \in request.ignored \/ g[p]
      BY <3>2, <3>3
    <3> QED
      BY <3>4, <3>5
  <2> DEFINE h == [t \in Tables |->
               \E p \in Parents(Schema, t) :
                  /\ Kept(p) + (IF g[p] THEN 0 ELSE insert[p]) = 0
                  /\ p \in request.ignored \/ g[p]]
  <2>2. \A t \in Tables : g[t] = h[t]
    <3>1. \A t \in Tables : h[t] <=> \E p \in Parents(Schema, t) :
                  /\ Kept(p) + (IF g[p] THEN 0 ELSE insert[p]) = 0
                  /\ p \in request.ignored \/ g[p]
      <4> HIDE DEF g
      <4> QED
        OBVIOUS
    <3>2. \A t \in Tables : g[t] \in BOOLEAN /\ h[t] \in BOOLEAN
      OBVIOUS
    <3> HIDE DEF g, h
    <3> QED
      BY <2>1, <3>1, <3>2
  <2>3. g = [t \in Tables |-> g[t]] /\ h = [t \in Tables |-> h[t]]
    OBVIOUS
  <2>4. g = h
    <3> HIDE DEF g, h
    <3> QED
      BY <2>2, <2>3
  <2> QED
    BY <2>4
<1> HIDE DEF g
<1>6. Solves(blocked)
  <2> HIDE DEF Solves
  <2> QED
    BY <1>5
<1> HIDE DEF blocked
<1>7. \A t \in Tables : blocked[t] =
           \E p \in Parents(Schema, t) :
              /\ Kept(p) + (IF blocked[p] THEN 0 ELSE insert[p]) = 0
              /\ p \in request.ignored \/ blocked[p]
  BY <1>6
<1>8. \A t \in Tables : t \in Blocked <=> blocked[t]
  BY <1>1
<1>9. \A t \in Tables : \A p \in Parents(Schema, t) : p \in Blocked <=> blocked[p]
  BY <1>2, <1>8
<1> HIDE DEF Solves
<1> QED
  BY <1>1, <1>7, <1>8, <1>9

(***************************************************************************)
(* The inductive invariant.                                                *)
(***************************************************************************)
Shape ==
    /\ Schema \in Schemas
    /\ KeysInside(Schema)
    /\ request.selected \subseteq Tables
    /\ old = [t \in Tables |-> old[t]]

\* What the plan truncates is closed.
ClosedInv == truncated \subseteq Tables /\ Below(truncated) \subseteq truncated

\* What is emptied is planned, and all of it before anything is filled.
GoneInv ==
    /\ gone \subseteq truncated
    /\ \A t \in gone : old[t] = 0
    /\ phase \in {"pass", "check", "planned"} => gone = {}
    /\ phase = "truncate" => gone \cup left = truncated
    /\ phase \in {"fill", "done"} => gone = {} \/ gone = truncated

IInv == Shape /\ ClosedInv /\ GoneInv

LEMMA Initially == Init => IInv
<1> SUFFICES ASSUME Init PROVE IInv
  OBVIOUS
<1>1. PICK side \in Sides : request \in
          [schema : {side.schema}, engine : {side.engine}, mode : {"topup", "reset"},
           ignored : Ignores, selected : Selections,
           source : [TablesOf(side.schema) -> Volumes \cup {Unknown, Absent}],
           target : [TablesOf(side.schema) -> Volumes \cup {Unknown}]]
  BY DEF Init
<1>2. Schema = side.schema /\ Schema \in Schemas /\ request.selected \in Selections
  BY <1>1 DEF Schema, Schemas
<1>3. KeysInside(Schema) /\ request.selected \subseteq Tables
  BY <1>2, MirrorAssumption DEF MirrorAssumption, KeysInside, Tables
<1>4. old = [t \in Tables |-> old[t]]
  BY DEF Init
<1> QED
  BY <1>2, <1>3, <1>4 DEF Init, IInv, Shape, ClosedInv, GoneInv, Below

LEMMA EmptyingLeaves ==
    ASSUME Shape, NEW S, Empty(S), UNCHANGED request
    PROVE  /\ Shape'
           /\ \A t \in S \cap Tables : old'[t] = 0
           /\ \A t \in Tables : old[t] = 0 => old'[t] = 0
  BY DEF Shape, Empty, Schema, Tables

LEMMA Inductive == IInv /\ [Next]_vars => IInv'
<1> SUFFICES ASSUME IInv, [Next]_vars PROVE IInv'
  OBVIOUS
<1> USE DEF IInv
<1>1. request' = request => Schema' = Schema /\ Tables' = Tables
  BY DEF Schema, Tables
<1>2. ASSUME UNCHANGED <<request, old>> PROVE Shape'
  BY <1>1, <1>2 DEF Shape
<1>3. ASSUME UNCHANGED <<request, truncated>> PROVE ClosedInv'
  BY <1>1, <1>3 DEF ClosedInv, Below
<1>4. CASE PlanPass
  <2>1. Chosen \subseteq Tables
    BY DEF Chosen, Candidates, Matched, Shape
  <2>2. Below(Chosen) \subseteq Tables
    BY <2>1, BelowAreTables DEF Below, Shape, Tables
  <2>3. Emptied \subseteq Tables /\ Below(Emptied) \subseteq Emptied
    BY <2>1, <2>2, BelowIsClosed DEF Emptied, Below, Shape, Tables
  <2>4. ClosedInv'
    BY <1>1, <1>4, <2>3 DEF PlanPass, ClosedInv, Below
  <2> QED
    BY <1>2, <1>4, <2>4 DEF PlanPass, GoneInv, rowVars
<1>5. CASE PlanAgain
  BY <1>2, <1>3, <1>5 DEF PlanAgain, GoneInv, rowVars
<1>6. CASE PlanStable
  BY <1>2, <1>3, <1>6 DEF PlanStable, GoneInv, rowVars
<1>7. CASE Refuse \/ RefuseRun \/ TruncateFails
  BY <1>2, <1>3, <1>7 DEF Refuse, RefuseRun, TruncateFails, GoneInv, rowVars, planVars
<1>8. CASE Run
  BY <1>2, <1>3, <1>8 DEF Run, StartFill, GoneInv, rowVars, planVars
<1>9. CASE TruncateCascade
  <2>1. truncated \cup Below(truncated) = truncated
    BY DEF ClosedInv
  <2> QED
    BY <1>3, <1>9, <2>1, EmptyingLeaves DEF TruncateCascade, StartFill, Empty, GoneInv, ClosedInv, planVars
<1>10. CASE TruncateTable
  <2>1. PICK t \in left : Empty({t}) /\ left' = left \ {t}
    BY <1>10 DEF TruncateTable, LastOf
  <2> QED
    BY <1>3, <1>10, <2>1, EmptyingLeaves DEF TruncateTable, Empty, GoneInv, ClosedInv, planVars
<1>11. CASE TruncateDone
  BY <1>2, <1>3, <1>11 DEF TruncateDone, StartFill, GoneInv, rowVars, planVars
<1>12. CASE FillTable \/ Finish
  BY <1>2, <1>3, <1>12 DEF FillTable, Finish, GoneInv, rowVars, planVars
<1>13. CASE Terminated \/ UNCHANGED vars
  BY <1>2, <1>3, <1>13 DEF Terminated, GoneInv, vars, rowVars, planVars
<1> QED
  BY <1>4, <1>5, <1>6, <1>7, <1>8, <1>9, <1>10, <1>11, <1>12, <1>13
     DEF Next, Planning, Truncating, Filling

LEMMA Div ==
    ASSUME NEW a \in Nat, NEW b \in Nat \ {0} PROVE a \div b \in Nat
  OBVIOUS

LEMMA Times == ASSUME NEW a \in Nat, NEW b \in Nat PROVE a * b \in Nat
  OBVIOUS

(***************************************************************************)
(* What the plan fills can be filled.                                      *)
(***************************************************************************)
Asked ==
    /\ Listed(Schema)
    /\ request.source \in [Tables -> Volumes \cup {Unknown, Absent}]
    /\ request.target \in [Tables -> Volumes \cup {Unknown}]

\* The tables F can be filled in the seed order; see PlanIsSeedable.
Seedable(F) ==
    \A t \in F : \A p \in Parents(Schema, t) :
        \/ Kept(p) # 0
        \/ p \in F /\ Precedes(Order, p, t)
        \/ \E c \in Contradicted : t \in Ancestors(Schema, {c})

PlanInv ==
    /\ Asked
    /\ phase = "check" => ~Cyclic /\ insert \in [Tables -> Nat]
    /\ phase = "planned" => Seedable(Filled)

LEMMA WantIsNat == ASSUME Asked, NEW t \in Tables PROVE Want(t) \in Nat
<1> DEFINE k == KnownRows(request.source[t])
           a == k * ScaleNum + ScaleDen - 1
<1>1. k \in Nat
  <2>1. request.source[t] \in Volumes \/ request.source[t] = -1 \/ request.source[t] = -2
    BY DEF Asked, Unknown, Absent
  <2>2. Volumes \subseteq Nat
    BY MirrorAssumption DEF MirrorAssumption
  <2>3. request.source[t] \in Volumes => request.source[t] \in Nat
    BY <2>2
  <2>4. request.source[t] \in Int
    BY <2>1, <2>3
  <2> QED
    BY <2>4 DEF KnownRows
<1>2. ScaleNum \in Nat /\ ScaleDen \in Nat \ {0} /\ MaxRows \in Nat
  BY MirrorAssumption DEF MirrorAssumption
<1> HIDE DEF k
<1>3. k * ScaleNum \in Nat
  BY <1>1, <1>2, Times
<1>4. a \in Nat
  BY <1>2, <1>3
<1> HIDE DEF a
<1>5. a \div ScaleDen \in Nat
  BY <1>2, <1>4, Div
<1>6. Want(t) = LET scaled == a \div ScaleDen IN IF MaxRows > 0 /\ scaled > MaxRows THEN MaxRows ELSE scaled
  BY DEF Want, a, k
<1> QED
  BY <1>2, <1>5, <1>6

\* No pass plans a negative number of rows.
LEMMA ShortfallIsNat == ASSUME Asked, NEW t \in Tables PROVE Shortfall(t) \in Nat
<1>1. Want(t) \in Nat /\ request.target[t] \in Nat \cup {-1}
  BY WantIsNat, MirrorAssumption DEF MirrorAssumption, Asked, Unknown
<1> QED
  BY <1>1 DEF Shortfall

\* Rows are kept where the plan truncates nothing and the count is not 0.
LEMMA KeptIs ==
    ASSUME Asked, NEW t \in Tables
    PROVE  Kept(t) \in Nat /\ (Kept(t) # 0 <=> t \notin truncated /\ request.target[t] # 0)
<1>1. request.target[t] \in Nat \cup {-1}
  BY MirrorAssumption DEF MirrorAssumption, Asked, Unknown
<1> QED
  BY <1>1 DEF Kept, Unknown

LEMMA ParentsAreImage == ASSUME NEW sc, NEW t PROVE Image({t}, Edges(sc)) = Parents(sc, t)
  BY DEF Image, Parents

\* Where a table that would stay empty is blocked, it is an ancestor of nothing
\* that is filled, unless the counts of a table between the two contradict it.
LEMMA BlockedIsNotNeeded ==
    ASSUME Ordered, Asked, KeysInside(Schema), insert \in [Tables -> Nat],
           NEW F \in SUBSET (Tables \ Blocked),
           NEW t \in Blocked, Kept(t) = 0,
           \A c \in Contradicted : t \notin Ancestors(Schema, {c})
    PROVE  t \notin Ancestors(Schema, F)
<1> DEFINE E == Edges(Schema)
           D == {x \in Tables : x \in Blocked /\ Kept(x) = 0 /\ (x = t \/ t \in Ancestors(Schema, {x}))}
           C == Ends(E) \ D
<1>1. ASSUME NEW e \in E, e[2] \in D PROVE e[1] \in D
  <2> DEFINE y == e[1]
             x == e[2]
  <2>1. y \in Tables /\ x \in Tables /\ x \in Parents(Schema, y)
    BY DEF Edges, Parents, KeysInside, Tables
  <2>2. x \in Blocked /\ Kept(x) = 0 /\ (x = t \/ t \in Ancestors(Schema, {x}))
    BY <1>1
  <2> HIDE DEF x, y, D, E
  <2>3. y \in Blocked
    BY <2>1, <2>2, BlockedIs
  <2>4. t \in Ancestors(Schema, {y})
    <3>1. x \in Ancestors(Schema, {y})
      BY <2>1, ParentsAreImage, ReachableContains DEF Ancestors
    <3>2. Image({x}, Edges(Schema)) \subseteq Ancestors(Schema, {y})
      BY <3>1, ReachableIsClosed DEF Image, Ancestors
    <3>3. Image(Ancestors(Schema, {y}), Edges(Schema)) \subseteq Ancestors(Schema, {y})
      BY ReachableIsClosed DEF Ancestors
    <3>4. Ancestors(Schema, {x}) \subseteq Ancestors(Schema, {y})
      BY <3>2, <3>3, ReachableIsLeast DEF Ancestors
    <3> QED
      BY <2>2, <3>1, <3>4
  <2>5. Kept(y) = 0
    <3>1. Kept(y) \in Nat
      BY <2>1, KeptIs
    <3>2. y \notin Contradicted
      BY <2>4
    <3> QED
      BY <2>1, <2>2, <3>1, <3>2 DEF Contradicted
  <2> QED
    BY <2>1, <2>3, <2>4, <2>5 DEF D, y
<1>2. F \cap D = {}
  OBVIOUS
<1>3. t \in D
  BY BlockedIs
<1> HIDE DEF D
<1>4. Image(F, E) \subseteq C
  BY <1>1, <1>2 DEF Image, Ends
<1>5. Image(C, E) \subseteq C
  BY <1>1 DEF Image, Ends
<1>6. Ancestors(Schema, F) \subseteq C
  BY <1>4, <1>5, ReachableIsLeast DEF Ancestors
<1> QED
  BY <1>3, <1>6

\* A plan that strands no table that was asked for can be seeded, with the parents
\* it adds.
LEMMA StablePlanIsSeedable ==
    ASSUME Ordered, Asked, KeysInside(Schema), insert \in [Tables -> Nat],
           NEW F, F = {t \in Tables \ Stranded : insert[t] > 0}
    PROVE  Seedable(F \cup EmptyParents(F))
<1> DEFINE filled == F \cup EmptyParents(F)
<1>1. F \in SUBSET (Tables \ Blocked) /\ \A t \in Tables \ Blocked : t \notin F => insert[t] = 0
  BY BlockedIs DEF Stranded
<1>2. /\ EmptyParents(F) = {p \in (Ancestors(Schema, F) \ F) \ request.ignored : Kept(p) = 0}
  BY DEF EmptyParents, AutoSelected
<1>3. Ancestors(Schema, F) \subseteq Tables
  BY DEF Ancestors, Reachable, Ends, Edges, KeysInside, Tables
<1> SUFFICES ASSUME NEW t \in filled, NEW p \in Parents(Schema, t), Kept(p) = 0,
                    \A c \in Contradicted : t \notin Ancestors(Schema, {c})
             PROVE  p \in filled /\ Precedes(Order, p, t)
  BY DEF Seedable
<1>4. t \in Tables /\ p \in Tables /\ Precedes(Order, p, t)
  BY <1>1, <1>2, <1>3, ParentIsBefore
<1>5. p \in Ancestors(Schema, F)
  <2>1. p \in Image({t}, Edges(Schema))
    BY ParentsAreImage
  <2>2. t \in F \/ t \in Ancestors(Schema, F)
    BY <1>2
  <2>3. p \in Image(F, Edges(Schema)) \/ p \in Image(Ancestors(Schema, F), Edges(Schema))
    BY <2>1, <2>2 DEF Image
  <2> QED
    BY <2>3, ReachableContains, ReachableIsClosed DEF Ancestors
<1>6. p \in filled
  <2> SUFFICES ASSUME p \notin filled PROVE FALSE
    OBVIOUS
  <2>1. p \notin F /\ p \in request.ignored
    BY <1>2, <1>5
  <2>2. Kept(p) + (IF p \in Blocked THEN 0 ELSE insert[p]) = 0
    BY <1>1, <1>4, <2>1
  <2>3. t \in Blocked
    BY <1>4, <2>1, <2>2, BlockedIs
  <2>4. t \notin F /\ t \in Ancestors(Schema, F) /\ Kept(t) = 0
    BY <1>1, <1>2, <2>3
  <2> QED
    BY <1>1, <2>3, <2>4, BlockedIsNotNeeded
<1> QED
  BY <1>4, <1>6

LEMMA PlanInitially == Init => PlanInv
<1> SUFFICES ASSUME Init PROVE PlanInv
  OBVIOUS
<1>1. PICK side \in Sides : request \in
          [schema : {side.schema}, engine : {side.engine}, mode : {"topup", "reset"},
           ignored : Ignores, selected : Selections,
           source : [TablesOf(side.schema) -> Volumes \cup {Unknown, Absent}],
           target : [TablesOf(side.schema) -> Volumes \cup {Unknown}]]
  BY DEF Init
<1>2. Schema = side.schema
  BY <1>1 DEF Schema
<1>3. Asked
  BY <1>1, <1>2, MirrorAssumption DEF MirrorAssumption, Asked, Listed, Tables
<1> QED
  BY <1>3 DEF Init, PlanInv

LEMMA PlanInductive == IInv /\ PlanInv /\ [Next]_vars => PlanInv'
<1> SUFFICES ASSUME IInv, PlanInv, [Next]_vars PROVE PlanInv'
  OBVIOUS
<1> USE DEF PlanInv
<1>1. ASSUME request' = request PROVE Asked' /\ Schema' = Schema /\ Tables' = Tables /\ Cyclic' = Cyclic
  BY <1>1 DEF Asked, Schema, Tables, Cyclic, Order, Listed
<1>2. ASSUME UNCHANGED <<request, truncated>>, NEW F, Seedable(F) PROVE Seedable(F)'
  <2>1. \A t : Kept(t)' = Kept(t)
    BY <1>2 DEF Kept
  <2>2. Contradicted' = Contradicted /\ Order' = Order
    BY <1>1, <1>2, <2>1 DEF Contradicted, Order
  <2> QED
    BY <1>1, <1>2, <2>1, <2>2 DEF Seedable
<1>3. CASE PlanPass
  <2>1. insert' \in [Tables -> Nat]
    BY <1>3, ShortfallIsNat DEF PlanPass
  <2> QED
    BY <1>1, <1>3, <2>1 DEF PlanPass
<1>4. CASE PlanAgain
  BY <1>1, <1>4 DEF PlanAgain
<1>5. CASE PlanStable
  <2> DEFINE F == {t \in Tables \ Stranded : insert[t] > 0}
             parents == EmptyParents(F)
  <2>1. /\ insert' = [t \in Tables |-> IF t \in parents THEN ParentRows
                                       ELSE IF t \in Stranded THEN 0 ELSE insert[t]]
        /\ phase' = "planned" /\ UNCHANGED <<request, truncated>>
    BY <1>5 DEF PlanStable
  <2>2. Ordered /\ KeysInside(Schema) /\ insert \in [Tables -> Nat] /\ Asked
    BY <1>5 DEF PlanStable, Ordered, IInv, Shape, Asked
  <2>3. Seedable(F \cup parents)
    BY <2>2, StablePlanIsSeedable
  <2>4. parents \subseteq Tables
    BY <2>2 DEF EmptyParents, AutoSelected, Ancestors, Reachable, Ends, Edges, KeysInside, Tables
  <2>5. ParentRows \in Nat \ {0}
    BY MirrorAssumption DEF MirrorAssumption
  <2> HIDE DEF parents
  <2>6. Filled' = F \cup parents
    <3>1. Filled' = {t \in Tables : insert'[t] > 0}
      BY <1>1, <2>1 DEF Filled
    <3>2. \A t \in Tables : insert'[t] > 0 <=> t \in F \cup parents
      BY <2>1, <2>2, <2>5
    <3> QED
      BY <2>4, <3>1, <3>2
  <2>7. Seedable(Filled)'
    BY <1>2, <2>1, <2>3, <2>6 DEF Seedable
  <2> QED
    BY <1>1, <2>1, <2>7
<1>6. CASE Refuse \/ RefuseRun \/ TruncateFails
  BY <1>1, <1>6 DEF Refuse, RefuseRun, TruncateFails
<1>7. CASE Run
  BY <1>1, <1>7 DEF Run, StartFill
<1>8. CASE TruncateCascade \/ TruncateTable \/ TruncateDone
  BY <1>1, <1>8 DEF TruncateCascade, TruncateTable, TruncateDone, StartFill
<1>9. CASE FillTable \/ Finish
  BY <1>1, <1>9 DEF FillTable, Finish
<1>10. CASE Terminated \/ UNCHANGED vars
  <2>1. UNCHANGED <<request, phase, truncated, insert>>
    BY <1>10 DEF Terminated, vars, planVars
  <2>2. Filled' = Filled
    BY <1>1, <2>1 DEF Filled
  <2>3. ASSUME phase = "planned" PROVE Seedable(Filled)'
    BY <1>2, <2>1, <2>2, <2>3 DEF Seedable
  <2> QED
    BY <1>1, <2>1, <2>3
<1> QED
  BY <1>3, <1>4, <1>5, <1>6, <1>7, <1>8, <1>9, <1>10
     DEF Next, Planning, Truncating, Filling

(***************************************************************************)
(* The theorems.                                                           *)
(***************************************************************************)
\* What a run empties, one statement per table or with CASCADE, stopped at any
\* point or not, is in the plan that was reviewed (mirror.go:353-364 of compare).
THEOREM OnlyThePlanIsEmptied == Spec => []OnlyPlannedEmptied
<1>1. IInv => OnlyPlannedEmptied
  BY DEF IInv, GoneInv, OnlyPlannedEmptied
<1> QED
  BY <1>1, Initially, Inductive, PTL DEF Spec

\* Once the truncation is over no row is left that may reference an emptied
\* table, through a required or a nullable key.
THEOREM NothingDangles == Spec => []NoDangling
<1>1. IInv => NoDangling
  <2> SUFFICES ASSUME IInv, phase \in {"fill", "done"},
                      NEW fk \in Schema.required \cup Schema.optional, fk[2] \in gone
               PROVE  old[fk[1]] = 0
    BY DEF NoDangling
  <2>1. /\ gone = truncated /\ fk[2] \in Tables /\ Schema \in Schemas
        /\ Below(truncated) \subseteq truncated
        /\ \A t \in gone : old[t] = 0
    BY DEF IInv, Shape, ClosedInv, GoneInv
  <2>2. CASE fk[1] = fk[2]
    BY <2>1, <2>2
  <2>3. CASE fk[1] # fk[2]
    <3>1. fk[1] \in Image({fk[2]}, Children(Schema))
      <4>1. <<fk[2], fk[1]>> \in Children(Schema)
        BY <2>3 DEF Children
      <4> DEFINE e == <<fk[2], fk[1]>>
      <4>2. e[1] = fk[2] /\ e[2] = fk[1]
        OBVIOUS
      <4> HIDE DEF e
      <4> QED
        BY <4>1, <4>2 DEF Image, e
    <3>2. fk[1] \in BelowOf[Schema][fk[2]]
      BY <2>1, <3>1, ReachableContains, BelowIsDescendants DEF Descendants, Tables
    <3>3. fk[1] \in Below(truncated)
      BY <2>1, <3>2 DEF Below
    <3> QED
      BY <2>1, <3>3
  <2> QED
    BY <2>2, <2>3
<1> QED
  BY <1>1, Initially, Inductive, PTL DEF Spec

\* When its turn comes a planned table finds every parent it needs with rows the
\* run keeps or already filled, unless the counts contradict each other between
\* it and the table it is filled for (mirror.go:211-310 of compare).
THEOREM PlansAreSeedable == Spec => []PlanIsSeedable
<1>1. PlanInv => PlanIsSeedable
  <2> SUFFICES ASSUME Asked, Seedable(Filled), NEW t \in Filled, NEW p \in Parents(Schema, t),
                      ~\E c \in Contradicted : t \in Ancestors(Schema, {c})
               PROVE  \/ p \notin truncated /\ request.target[p] # 0
                      \/ p \in Filled /\ Precedes(Order, p, t)
    BY DEF PlanInv, PlanIsSeedable
  <2>1. Kept(p) # 0 \/ (p \in Filled /\ Precedes(Order, p, t))
    BY DEF Seedable
  <2> QED
    BY <2>1 DEF Kept, Unknown
<1> QED
  BY <1>1, Initially, Inductive, PlanInitially, PlanInductive, PTL DEF Spec

(***************************************************************************)
(* THE ENGINE.                                                             *)
(***************************************************************************)

(***************************************************************************)
(* A sum is the number of elements of a set.                               *)
(***************************************************************************)
\* f[i] elements for every i.
Units(f, S) == UNION {{i} \X (1..f[i]) : i \in S}

\* What holds of some subset of a finite set holds of a smallest one.
LEMMA Smallest ==
    ASSUME NEW S, IsFiniteSet(S), NEW C \in SUBSET (SUBSET S), C # {}
    PROVE  \E s \in C : \A t \in C : t \subseteq s => t = s
<1>1. IsWellFoundedOn(StrictSubsetOrdering(S), SUBSET S)
  BY FS_StrictSubsetOrderingWellFounded, FS_FiniteSubsetsOfFinite
<1>2. PICK s \in C : \A t \in C : <<t, s>> \notin StrictSubsetOrdering(S)
  BY <1>1, WFMin
<1>3. ASSUME NEW t \in C, t \subseteq s, t # s PROVE FALSE
  BY <1>2, <1>3 DEF StrictSubsetOrdering
<1> QED
  BY <1>3

LEMMA UnitsWithout ==
    ASSUME NEW S, NEW f \in [S -> Nat], NEW s \in SUBSET S, NEW x \in s, IsFiniteSet(Units(f, s \ {x}))
    PROVE  /\ IsFiniteSet(Units(f, s))
           /\ Cardinality(Units(f, s)) = f[x] + Cardinality(Units(f, s \ {x}))
<1> DEFINE U == {x} \X (1..f[x])
<1>1. Units(f, s) = Units(f, s \ {x}) \cup U
  BY DEF Units
<1>2. Units(f, s \ {x}) \cap U = {}
  BY DEF Units
<1>3. IsFiniteSet(U) /\ Cardinality(U) = f[x]
  <2>1. IsFiniteSet({x}) /\ Cardinality({x}) = 1
    BY FS_Singleton
  <2>2. f[x] \in Nat
    OBVIOUS
  <2>3. IsFiniteSet(1..f[x]) /\ Cardinality(1..f[x]) = f[x]
    BY <2>2, FS_Interval
  <2>4. IsFiniteSet(U) /\ Cardinality(U) = 1 * f[x]
    BY <2>1, <2>3, FS_Product
  <2> QED
    BY <2>2, <2>4
<1> HIDE DEF U
<1>4. Cardinality(Units(f, s \ {x}) \cap U) = 0
  BY <1>2, FS_EmptySet
<1>9. IsFiniteSet(Units(f, s \ {x}) \cup U)
      /\ Cardinality(Units(f, s \ {x}) \cup U) = Cardinality(Units(f, s \ {x})) + Cardinality(U) - Cardinality(Units(f, s \ {x}) \cap U)
  BY <1>3, FS_Union
<1>5. Cardinality(Units(f, s \ {x})) \in Nat /\ f[x] \in Nat
  BY FS_CardinalityType
<1> QED
  BY <1>1, <1>3, <1>4, <1>9, <1>5

LEMMA UnitsFinite ==
    ASSUME NEW S, IsFiniteSet(S), NEW f \in [S -> Nat], NEW s \in SUBSET S
    PROVE  IsFiniteSet(Units(f, s)) /\ Cardinality(Units(f, s)) \in Nat
<1> DEFINE C == {t \in SUBSET S : ~IsFiniteSet(Units(f, t))}
<1>1. ASSUME C # {} PROVE FALSE
  <2>0. C \in SUBSET (SUBSET S)
    OBVIOUS
  <2>1. PICK t \in C : \A u \in C : u \subseteq t => u = t
    <3> HIDE DEF C
    <3> QED
      BY <1>1, <2>0, Smallest
  <2>2. t # {}
    BY <2>1, FS_EmptySet DEF Units
  <2>3. PICK x \in t : TRUE
    BY <2>2
  <2>4. t \ {x} \notin C
    BY <2>1, <2>3
  <2>5. IsFiniteSet(Units(f, t \ {x}))
    BY <2>4
  <2> QED
    BY <2>1, <2>3, <2>5, UnitsWithout
<1>2. IsFiniteSet(Units(f, s))
  BY <1>1
<1> QED
  BY <1>2, FS_CardinalityType

\* A function that adds up f, one element after the other.
Added(h, f, s) ==
    IF s = {} THEN 0 ELSE f[CHOOSE x \in s : TRUE] + h[s \ {CHOOSE x \in s : TRUE}]
Adds(h, f, S) == \A s \in SUBSET S : h[s] = Added(h, f, s)

LEMMA CountAdds ==
    ASSUME NEW S, IsFiniteSet(S), NEW f \in [S -> Nat]
    PROVE  Adds([s \in SUBSET S |-> Cardinality(Units(f, s))], f, S)
<1> DEFINE h == [s \in SUBSET S |-> Cardinality(Units(f, s))]
<1> SUFFICES ASSUME NEW s \in SUBSET S
             PROVE  h[s] = Added(h, f, s)
  BY DEF Adds
<1>1. CASE s = {}
  BY <1>1, FS_EmptySet DEF Units, Added
<1>2. CASE s # {}
  <2> DEFINE x == CHOOSE x \in s : TRUE
  <2>1. x \in s
    BY <1>2
  <2> HIDE DEF x
  <2>2. IsFiniteSet(Units(f, s \ {x}))
    BY UnitsFinite
  <2>3. Cardinality(Units(f, s)) = f[x] + Cardinality(Units(f, s \ {x}))
    BY <2>1, <2>2, UnitsWithout
  <2>4. h[s] = f[x] + h[s \ {x}]
    BY <2>3
  <2> QED
    BY <1>2, <2>4 DEF x, Added
<1> QED
  BY <1>1, <1>2

\* Only one function adds up f: the smallest set where another differed would
\* have an element, and without it the two agree.
LEMMA AddsCounts ==
    ASSUME NEW S, IsFiniteSet(S), NEW f \in [S -> Nat], NEW h, Adds(h, f, S), NEW s \in SUBSET S
    PROVE  h[s] = Cardinality(Units(f, s))
<1> DEFINE C == {t \in SUBSET S : h[t] # Cardinality(Units(f, t))}
<1>1. ASSUME C # {} PROVE FALSE
  <2>0. C \in SUBSET (SUBSET S)
    OBVIOUS
  <2>1. PICK t \in C : \A u \in C : u \subseteq t => u = t
    <3> HIDE DEF C
    <3> QED
      BY <1>1, <2>0, Smallest
  <2>2. t # {}
    BY <2>1, FS_EmptySet DEF Units, Adds, Added
  <2> DEFINE x == CHOOSE x \in t : TRUE
  <2>3. x \in t
    BY <2>2
  <2>4. h[t] = f[x] + h[t \ {x}]
    BY <2>1, <2>2 DEF Adds, Added
  <2> HIDE DEF x
  <2>5. h[t \ {x}] = Cardinality(Units(f, t \ {x}))
    BY <2>1, <2>3
  <2>6. Cardinality(Units(f, t)) = f[x] + Cardinality(Units(f, t \ {x}))
    BY <2>1, <2>3, UnitsFinite, UnitsWithout
  <2> QED
    BY <2>1, <2>4, <2>5, <2>6
<1> QED
  BY <1>1

\* SumFunction is defined as some function that adds up f, if there is one.
LEMMA SumCounts ==
    ASSUME NEW S, IsFiniteSet(S), NEW f \in [S -> Nat]
    PROVE  SumFunction(f) = Cardinality(Units(f, S))
<1> DEFINE Sum(h) == h = [s \in SUBSET S |-> Added(h, f, s)]
           h == CHOOSE h : Sum(h)
           g == [s \in SUBSET S |-> Cardinality(Units(f, s))]
<1>1. Sum(g)
  <2>1. \A s \in SUBSET S : g[s] = Added(g, f, s)
    BY CountAdds DEF Adds
  <2>2. g = [s \in SUBSET S |-> g[s]]
    OBVIOUS
  <2> HIDE DEF g
  <2> QED
    BY <2>1, <2>2
<1>2. Sum(h)
  <2> HIDE DEF g
  <2> QED
    BY <1>1
<1>3. Adds(h, f, S)
  <2> HIDE DEF h
  <2> QED
    BY <1>2 DEF Adds
<1>4. SumFunction(f) = h[S]
  BY DEF SumFunction, SumFunctionOnSet, FoldFunctionOnSet, MapThenFoldSet, Added
<1> HIDE DEF h
<1> QED
  BY <1>3, <1>4, AddsCounts

(***************************************************************************)
(* Sums over the pieces of a round.                                        *)
(***************************************************************************)
Sum(f) == Cardinality(Units(f, DOMAIN f))

LEMMA CountUpTo == ASSUME NEW n \in Nat PROVE IsFiniteSet(1..n) /\ Cardinality(1..n) = n
  BY FS_Interval

LEMMA SumIsNat ==
    ASSUME NEW S, IsFiniteSet(S), NEW f \in [S -> Nat] PROVE Sum(f) \in Nat
<1>1. DOMAIN f = S /\ S \in SUBSET S
  OBVIOUS
<1> QED
  BY <1>1, UnitsFinite DEF Sum

LEMMA SumWithout ==
    ASSUME NEW S, IsFiniteSet(S), NEW f \in [S -> Nat], NEW i \in S
    PROVE  /\ Sum(f) = f[i] + Cardinality(Units(f, S \ {i}))
           /\ Cardinality(Units(f, S \ {i})) \in Nat
<1>1. DOMAIN f = S /\ S \in SUBSET S /\ S \ {i} \in SUBSET S
  OBVIOUS
<1>2. IsFiniteSet(Units(f, S \ {i})) /\ Cardinality(Units(f, S \ {i})) \in Nat
  BY <1>1, UnitsFinite
<1> QED
  BY <1>1, <1>2, UnitsWithout DEF Sum

\* One piece's share is replaced by another number.
LEMMA SumExcept ==
    ASSUME NEW S, IsFiniteSet(S), NEW f \in [S -> Nat], NEW i \in S, NEW g \in [S -> Nat],
           \A j \in S \ {i} : g[j] = f[j]
    PROVE  Sum(g) + f[i] = Sum(f) + g[i]
<1>1. Units(f, S \ {i}) = Units(g, S \ {i})
  BY DEF Units
<1>2. /\ Sum(f) = f[i] + Cardinality(Units(f, S \ {i}))
      /\ Sum(g) = g[i] + Cardinality(Units(f, S \ {i}))
      /\ Cardinality(Units(f, S \ {i})) \in Nat
  BY <1>1, SumWithout
<1>3. f[i] \in Nat /\ g[i] \in Nat
  OBVIOUS
<1> QED
  BY <1>2, <1>3

LEMMA SumOfNothing ==
    ASSUME NEW S, NEW f \in [S -> Nat], \A i \in S : f[i] = 0
    PROVE  Sum(f) = 0
<1>1. Units(f, S) = {}
  BY DEF Units
<1> QED
  BY <1>1, FS_EmptySet DEF Sum

\* k - 1 shares of at most c and one more.
LEMMA SumAtMost ==
    ASSUME NEW k \in Nat \ {0}, NEW f \in [1..k -> Nat], NEW c \in Nat, \A i \in 1..k : f[i] <= c
    PROVE  Sum(f) <= (k - 1) * c + f[k]
<1> DEFINE U == Units(f, (1..k) \ {k})
           V == (1..(k - 1)) \X (1..c)
<1>1. U \subseteq V
  BY DEF Units
<1>2. IsFiniteSet(V) /\ Cardinality(V) = (k - 1) * c
  <2>1. IsFiniteSet(1..(k - 1)) /\ Cardinality(1..(k - 1)) = k - 1
    BY CountUpTo, k - 1 \in Nat
  <2>2. IsFiniteSet(1..c) /\ Cardinality(1..c) = c
    BY CountUpTo
  <2> DEFINE A == 1..(k - 1)
             B == 1..c
  <2> HIDE DEF A, B
  <2>3. IsFiniteSet(A \X B) /\ Cardinality(A \X B) = Cardinality(A) * Cardinality(B)
    BY <2>1, <2>2, FS_Product DEF A, B
  <2> QED
    BY <2>1, <2>2, <2>3 DEF A, B
<1>3. Sum(f) = f[k] + Cardinality(U) /\ Cardinality(U) \in Nat
  BY SumWithout, CountUpTo
<1>4. Cardinality(U) <= Cardinality(V)
  BY <1>1, <1>2, FS_Subset
<1>5. f[k] \in Nat /\ (k - 1) * c \in Nat
  OBVIOUS
<1> QED
  BY <1>2, <1>3, <1>4, <1>5

(***************************************************************************)
(* The inductive invariant.                                                *)
(***************************************************************************)
Ins  == [i \in DOMAIN piece |-> piece[i].in]
Outs == [i \in DOMAIN piece |-> piece[i].out]

\* Rows each piece may still write.
Dues == [i \in DOMAIN piece |-> piece[i].left + piece[i].batch]

\* Where the fill is, and what it knows of a table before and after its turn.
PlaceInv ==
    /\ fill # "write" => piece = NoPiece
    /\ fill \in {"round", "write"} => table \in FillTables /\ Requested[table] > 0
    /\ \A t \in FillTables :
          /\ status[t] = "none" <=> t >= table \/ Requested[t] = 0
          /\ t > table \/ (fill = "table" /\ t = table) => stored[t] = 0 /\ inserted[t] = 0

\* Only a piece that has ended has an error, and COPY comes first.
PieceInv ==
    \A i \in DOMAIN piece :
        /\ piece[i].step # "ended" => piece[i].err = "none"
        /\ piece[i].step = "copy" => piece[i].in = 0

\* What a table holds and what its round may still write is no more than what
\* was requested, and what is counted as inserted is stored.  Only a cancelled
\* statement can have stored rows that nobody counts.
RowsInv ==
    /\ \A t \in FillTables : stored[t] <= Requested[t]
    /\ fill = "round" => inserted[table] = stored[table]
    /\ fill = "write" =>
          /\ stored[table] + Sum(Dues) <= Requested[table]
          /\ inserted[table] + Sum(Ins) <= stored[table]
          /\ (\A i \in DOMAIN piece : piece[i].err # "cancelled") =>
                inserted[table] + Sum(Ins) = stored[table]

FillInv == TypeOK /\ PlaceInv /\ PieceInv /\ RowsInv

LEMMA Constants ==
    /\ N \in Nat \ {0} /\ Requested \in [FillTables -> Nat]
    /\ Chunk \in Nat \ {0} /\ BatchSize \in Nat \ {0} /\ Workers \in Nat \ {0}
    /\ MaxRowFailures \in Nat \ {0} /\ MaxZeroRounds \in Nat \ {0}
    /\ \A t \in FillTables : Requested[t] \in Nat
  BY FillAssumption DEF FillAssumption

LEMMA PieceFields ==
    ASSUME NEW p \in Pieces
    PROVE  p.left \in Nat /\ p.batch \in Nat /\ p.failures \in Nat /\ p.in \in Nat /\ p.out \in Nat
  BY DEF Pieces

LEMMA Shares ==
    ASSUME TypeOK
    PROVE  /\ IsFiniteSet(DOMAIN piece)
           /\ Ins \in [DOMAIN piece -> Nat]
           /\ Outs \in [DOMAIN piece -> Nat]
           /\ Dues \in [DOMAIN piece -> Nat]
<1>1. PICK k \in Nat : DOMAIN piece = 1..k
  BY Constants DEF TypeOK
<1>2. IsFiniteSet(DOMAIN piece)
  BY <1>1, CountUpTo
<1> QED
  BY <1>2 DEF TypeOK, Pieces, Ins, Outs, Dues

LEMMA LandedIsSum ==
    ASSUME TypeOK PROVE Landed = Sum(Ins) /\ Landed \in Nat /\ Refused \in Nat
<1>1. Landed = SumFunction(Ins) /\ Refused = SumFunction(Outs)
  BY DEF Landed, Refused, Ins, Outs
<1>2. Landed = Sum(Ins) /\ Refused = Sum(Outs)
  BY <1>1, Shares, SumCounts DEF Sum
<1> QED
  BY <1>2, Shares, SumIsNat

LEMMA NoPieceIsTyped ==
    ASSUME NEW m \in Nat
    PROVE  /\ DOMAIN NoPiece \in {1..k : k \in 0..m}
           /\ \A i \in DOMAIN NoPiece : NoPiece[i] \in Pieces
<1>1. DOMAIN NoPiece = 1..0 /\ 0 \in 0..m
  BY DEF NoPiece
<1> QED
  BY <1>1

LEMMA FillInitially == FillInit => FillInv
<1> SUFFICES ASSUME FillInit PROVE FillInv
  OBVIOUS
<1>1. TypeOK
  <2>1. /\ DOMAIN piece \in {1..k : k \in 0..(IF table \in SelfRefs THEN 1 ELSE Workers)}
        /\ \A i \in DOMAIN piece : piece[i] \in Pieces
    BY Constants, NoPieceIsTyped DEF FillInit
  <2>2. /\ table \in 1..(N + 1)
        /\ zeroRounds \in 0..(MaxZeroRounds - 1) /\ refused \in 0..(MaxRowFailures - 1)
    BY Constants DEF FillInit
  <2>3. /\ stored \in [FillTables -> Nat] /\ inserted \in [FillTables -> Nat] /\ rejected \in [FillTables -> Nat]
        /\ status \in [FillTables -> {"none", "ok", "partial", "failed"}]
    BY DEF FillInit
  <2> QED
    BY <2>1, <2>2, <2>3 DEF FillInit, TypeOK
<1>2. PlaceInv /\ PieceInv /\ RowsInv
  <2>1. PlaceInv
    BY Constants DEF FillInit, PlaceInv, FillTables
  <2>2. PieceInv
    BY DEF FillInit, PieceInv, NoPiece
  <2>3. RowsInv
    BY Constants DEF FillInit, RowsInv
  <2> QED
    BY <2>1, <2>2, <2>3
<1> QED
  BY <1>1, <1>2 DEF FillInv

(***************************************************************************)
(* Writing.                                                                *)
(***************************************************************************)
\* A step of one piece: the n rows that land are rows it still had to write.
LEMMA BecomesKeeps ==
    ASSUME FillInv, fill = "write", NEW i \in DOMAIN piece, NEW p \in Pieces, NEW n \in Nat,
           Becomes(i, p, n),
           piece[i].step # "ended", p.step # "copy", p.step # "ended" => p.err = "none",
           p.left + p.batch + n <= piece[i].left + piece[i].batch,
           p.in <= piece[i].in + n,
           p.err # "cancelled" => p.in = piece[i].in + n
    PROVE  FillInv'
<1>1. /\ DOMAIN piece' = DOMAIN piece /\ piece'[i] = p
      /\ \A j \in DOMAIN piece \ {i} : piece'[j] = piece[j]
      /\ UNCHANGED <<mode, cancelled, fill, table, inserted, rejected, status, roundVars>>
  BY DEF Becomes
<1>2. table \in FillTables /\ stored' = [stored EXCEPT ![table] = @ + n] /\ stored \in [FillTables -> Nat]
  BY DEF FillInv, PlaceInv, TypeOK, Becomes
<1>3. TypeOK'
  <2>1. \A j \in DOMAIN piece' : piece'[j] \in Pieces
    BY <1>1 DEF FillInv, TypeOK
  <2>2. stored' \in [FillTables -> Nat]
    BY <1>2
  <2> QED
    BY <1>1, <2>1, <2>2 DEF FillInv, TypeOK, roundVars, Pieces
<1>4. PlaceInv'
  <2>1. fill' = "write" /\ table' = table /\ status' = status /\ inserted' = inserted
    BY <1>1
  <2>2. \A t \in FillTables : t > table => stored'[t] = stored[t]
    BY <1>2 DEF FillTables
  <2> QED
    BY <2>1, <2>2 DEF FillInv, PlaceInv
<1>5. PieceInv'
  BY <1>1 DEF FillInv, PieceInv
<1>6. RowsInv'
  <2>1. /\ IsFiniteSet(DOMAIN piece)
        /\ Ins \in [DOMAIN piece -> Nat] /\ Dues \in [DOMAIN piece -> Nat]
    BY Shares DEF FillInv
  <2>2. Ins' \in [DOMAIN piece -> Nat] /\ Dues' \in [DOMAIN piece -> Nat]
    <3>1. \A j \in DOMAIN piece : piece'[j] \in Pieces
      BY <1>1, <1>3 DEF TypeOK
    <3>2. \A j \in DOMAIN piece : piece'[j].in \in Nat /\ piece'[j].left + piece'[j].batch \in Nat
      BY <3>1, PieceFields
    <3> QED
      BY <1>1, <3>2 DEF Ins, Dues
  <2>3. /\ Ins'[i] = p.in /\ Ins[i] = piece[i].in
        /\ Dues'[i] = p.left + p.batch /\ Dues[i] = piece[i].left + piece[i].batch
        /\ \A j \in DOMAIN piece \ {i} : Ins'[j] = Ins[j] /\ Dues'[j] = Dues[j]
    BY <1>1 DEF Ins, Dues
  <2>4. /\ Sum(Ins)' + piece[i].in = Sum(Ins) + p.in
        /\ Sum(Dues)' + piece[i].left + piece[i].batch = Sum(Dues) + p.left + p.batch
    <3>1. Sum(Ins') + Ins[i] = Sum(Ins) + Ins'[i]
      BY <2>1, <2>2, <2>3, SumExcept
    <3>2. Sum(Dues') + Dues[i] = Sum(Dues) + Dues'[i]
      BY <2>1, <2>2, <2>3, SumExcept
    <3>3. /\ Sum(Dues) \in Nat /\ Sum(Dues') \in Nat
          /\ piece[i] \in Pieces
      BY <2>1, <2>2, SumIsNat DEF FillInv, TypeOK
    <3>4. /\ p.left \in Nat /\ p.batch \in Nat
          /\ piece[i].left \in Nat /\ piece[i].batch \in Nat
      BY <3>3 DEF Pieces
    <3> QED
      BY <2>3, <3>1, <3>2, <3>3, <3>4
  <2>5. /\ Sum(Ins) \in Nat /\ Sum(Dues) \in Nat /\ Sum(Ins)' \in Nat /\ Sum(Dues)' \in Nat
        /\ stored[table] \in Nat /\ inserted[table] \in Nat /\ Requested[table] \in Nat
        /\ {p.left, p.batch, p.in, piece[i].left, piece[i].batch, piece[i].in} \subseteq Nat
    <3>1. piece[i] \in Pieces /\ inserted[table] \in Nat
      BY <1>2 DEF FillInv, TypeOK
    <3>2. Sum(Ins) \in Nat /\ Sum(Dues) \in Nat /\ Sum(Ins') \in Nat /\ Sum(Dues') \in Nat
      BY <2>1, <2>2, SumIsNat
    <3> QED
      BY <1>2, <3>1, <3>2, Constants DEF Pieces
  <2>6. /\ stored[table] + Sum(Dues) <= Requested[table]
        /\ inserted[table] + Sum(Ins) <= stored[table]
        /\ (\A j \in DOMAIN piece : piece[j].err # "cancelled") =>
              inserted[table] + Sum(Ins) = stored[table]
    BY DEF FillInv, RowsInv
  <2>7. stored'[table] = stored[table] + n
    BY <1>2
  <2>8. piece[i].err # "cancelled"
    BY DEF FillInv, PieceInv
  <2>9. /\ stored'[table] + Sum(Dues)' <= Requested[table]
        /\ inserted[table] + Sum(Ins)' <= stored'[table]
    BY <2>4, <2>5, <2>6, <2>7
  <2>10. ASSUME \A j \in DOMAIN piece : piece'[j].err # "cancelled"
         PROVE  inserted[table] + Sum(Ins)' = stored'[table]
    <3>1. \A j \in DOMAIN piece : piece[j].err # "cancelled"
      BY <1>1, <2>8, <2>10
    <3>2. p.err # "cancelled"
      BY <1>1, <2>10
    <3>3. inserted[table] + Sum(Ins) = stored[table] /\ p.in = piece[i].in + n
      BY <2>6, <3>1, <3>2
    <3> QED
      BY <2>4, <2>5, <2>7, <3>3
  <2>11. \A t \in FillTables : stored'[t] <= Requested[t]
    <3> SUFFICES ASSUME NEW t \in FillTables PROVE stored'[t] <= Requested[t]
      OBVIOUS
    <3>1. CASE t = table
      BY <2>5, <2>7, <2>9, <3>1
    <3>2. CASE t # table
      BY <1>2, <3>2 DEF FillInv, RowsInv
    <3> QED
      BY <3>1, <3>2
  <2> QED
    BY <1>1, <2>9, <2>10, <2>11 DEF RowsInv
<1> QED
  BY <1>3, <1>4, <1>5, <1>6 DEF FillInv

LEMMA EndedPiece ==
    ASSUME NEW p \in Pieces, NEW err \in {"none", "cancelled", "failed"}
    PROVE  /\ Ended(p, err) \in Pieces
           /\ Ended(p, err).step = "ended" /\ Ended(p, err).err = err
           /\ Ended(p, err).left = 0 /\ Ended(p, err).batch = 0
           /\ Ended(p, err).in = p.in /\ Ended(p, err).out = p.out
  BY DEF Ended, Pieces

LEMMA CutOffKeeps ==
    ASSUME FillInv, fill = "write", NEW i \in DOMAIN piece, piece[i].step # "ended",
           NEW n \in Nat, n <= piece[i].left + piece[i].batch, CutOff(i, n)
    PROVE  FillInv'
<1> DEFINE p == piece[i]
           q == Ended(p, "cancelled")
<1>1. PICK landed \in {0, n} : Becomes(i, q, landed)
  BY DEF CutOff
<1>2. p \in Pieces
  BY DEF FillInv, TypeOK
<1>3. q \in Pieces /\ q.step = "ended" /\ q.err = "cancelled" /\ q.left = 0 /\ q.batch = 0 /\ q.in = p.in
  BY <1>2, EndedPiece
<1>4. landed \in Nat /\ landed <= p.left + p.batch
  BY <1>2, PieceFields
<1> HIDE DEF q
<1> QED
  BY <1>1, <1>2, <1>3, <1>4, BecomesKeeps, PieceFields

\* COPY of a whole piece; refused, the same rows follow in batches.
LEMMA CopyKeeps ==
    ASSUME FillInv, fill = "write", NEW i \in DOMAIN piece, Copy(i) PROVE FillInv'
<1> DEFINE p == piece[i]
<1>1. p \in Pieces /\ p.step = "copy" /\ p.in = 0 /\ p.err = "none"
  BY DEF FillInv, TypeOK, PieceInv, Copy
<1>2. p.left \in Nat /\ p.batch \in Nat
  BY <1>1, PieceFields
<1>3. CASE Becomes(i, [Ended(p, "none") EXCEPT !.in = p.left], p.left)
  <2> DEFINE q == [Ended(p, "none") EXCEPT !.in = p.left]
  <2>1. q \in Pieces /\ q.step = "ended" /\ q.err = "none" /\ q.left = 0 /\ q.batch = 0 /\ q.in = p.left
    BY <1>1, <1>2 DEF Ended, Pieces
  <2>2. Becomes(i, q, p.left)
    BY <1>3
  <2> HIDE DEF q
  <2> QED
    BY <1>1, <1>2, <2>1, <2>2, BecomesKeeps
<1>4. CASE Becomes(i, [p EXCEPT !.step = "batch"], 0)
  <2> DEFINE q == [p EXCEPT !.step = "batch"]
  <2>1. q \in Pieces /\ q.step = "batch" /\ q.err = "none" /\ q.left = p.left /\ q.batch = p.batch /\ q.in = 0
    BY <1>1 DEF Pieces
  <2>2. Becomes(i, q, 0)
    BY <1>4
  <2> HIDE DEF q
  <2> QED
    BY <1>1, <1>2, <2>1, <2>2, BecomesKeeps
<1>5. CASE CutOff(i, IF mode.copy THEN p.left ELSE 0)
  <2>1. CASE CutOff(i, p.left)
    BY <1>1, <1>2, <2>1, CutOffKeeps
  <2>2. CASE CutOff(i, 0)
    BY <1>1, <1>2, <2>2, CutOffKeeps
  <2> QED
    BY <1>5, <2>1, <2>2
<1> QED
  BY <1>3, <1>4, <1>5 DEF Copy

LEMMA BatchKeeps ==
    ASSUME FillInv, fill = "write", NEW i \in DOMAIN piece, Batch(i) PROVE FillInv'
<1> DEFINE p == piece[i]
           n == Lower(BatchSize, p.left)
<1>1. p \in Pieces /\ p.step = "batch" /\ p.err = "none"
  BY DEF FillInv, TypeOK, PieceInv, Batch
<1>2. p.left \in Nat /\ p.batch \in Nat /\ p.in \in Nat /\ p.out \in Nat
  BY <1>1, PieceFields
<1>3. n \in Nat /\ n <= p.left
  BY <1>2, Constants DEF Lower
<1>4. p.left - n \in Nat /\ p.in + n \in Nat /\ p.out + n \in Nat
  BY <1>2, <1>3
<1>9. \/ Becomes(i, [p EXCEPT !.left = @ - n, !.in = @ + n], n)
      \/ Becomes(i, [Ended(p, "failed") EXCEPT !.out = @ + n], 0)
      \/ Becomes(i, [p EXCEPT !.step = "rows", !.left = @ - n, !.batch = n, !.failures = 0], 0)
      \/ CutOff(i, n)
  BY DEF Batch
<1> HIDE DEF n
<1>5. CASE Becomes(i, [p EXCEPT !.left = @ - n, !.in = @ + n], n)
  <2> DEFINE q == [p EXCEPT !.left = @ - n, !.in = @ + n]
  <2>1. q \in Pieces /\ q.step = "batch" /\ q.err = "none" /\ q.left = p.left - n /\ q.batch = p.batch /\ q.in = p.in + n
    BY <1>1, <1>4 DEF Pieces
  <2>2. Becomes(i, q, n)
    BY <1>5
  <2> HIDE DEF q
  <2> QED
    BY <1>1, <1>2, <1>3, <2>1, <2>2, BecomesKeeps
<1>6. CASE Becomes(i, [Ended(p, "failed") EXCEPT !.out = @ + n], 0)
  <2> DEFINE q == [Ended(p, "failed") EXCEPT !.out = @ + n]
  <2>1. q \in Pieces /\ q.step = "ended" /\ q.err = "failed" /\ q.left = 0 /\ q.batch = 0 /\ q.in = p.in
    BY <1>1, <1>4 DEF Ended, Pieces
  <2>2. Becomes(i, q, 0)
    BY <1>6
  <2> HIDE DEF q
  <2> QED
    BY <1>1, <1>2, <1>3, <2>1, <2>2, BecomesKeeps
<1>7. CASE Becomes(i, [p EXCEPT !.step = "rows", !.left = @ - n, !.batch = n, !.failures = 0], 0)
  <2> DEFINE q == [p EXCEPT !.step = "rows", !.left = @ - n, !.batch = n, !.failures = 0]
  <2>1. q \in Pieces /\ q.step = "rows" /\ q.err = "none" /\ q.left = p.left - n /\ q.batch = n /\ q.in = p.in
    BY <1>1, <1>3, <1>4 DEF Pieces
  <2>2. Becomes(i, q, 0)
    BY <1>7
  <2> HIDE DEF q
  <2> QED
    BY <1>1, <1>2, <1>3, <2>1, <2>2, BecomesKeeps
<1>8. CASE CutOff(i, n)
  BY <1>1, <1>2, <1>3, <1>8, CutOffKeeps
<1> QED
  BY <1>5, <1>6, <1>7, <1>8, <1>9

\* Row by row, and back to batches.
LEMMA RowsKeep ==
    ASSUME FillInv, fill = "write", NEW i \in DOMAIN piece,
           RowIn(i) \/ RowOut(i) \/ RowCutOff(i) \/ NextBatch(i) \/ Written(i)
    PROVE  FillInv'
<1> DEFINE p == piece[i]
<1>1. p \in Pieces /\ p.step \in {"rows", "batch"} /\ p.err = "none"
  BY DEF FillInv, TypeOK, PieceInv, RowIn, RowOut, RowCutOff, NextBatch, Written
<1>2. p.left \in Nat /\ p.batch \in Nat /\ p.in \in Nat /\ p.out \in Nat /\ p.failures \in Nat
  BY <1>1, PieceFields
<1>3. CASE RowIn(i)
  <2> DEFINE q == [p EXCEPT !.batch = @ - 1, !.in = @ + 1, !.failures = 0]
  <2>1. p.batch > 0 /\ Becomes(i, q, 1)
    BY <1>3 DEF RowIn
  <2>2. q \in Pieces /\ q.step # "copy" /\ q.err = "none" /\ q.left = p.left /\ q.batch = p.batch - 1 /\ q.in = p.in + 1
    <3>1. p.batch - 1 \in Nat /\ p.in + 1 \in Nat /\ p.out + 1 \in Nat /\ p.failures + 1 \in Nat
      BY <1>2, <2>1
    <3> QED
      BY <1>1, <3>1 DEF Pieces
  <2> HIDE DEF q
  <2> QED
    BY <1>1, <1>2, <2>1, <2>2, BecomesKeeps
<1>4. CASE RowOut(i)
  <2> DEFINE q == [p EXCEPT !.batch = @ - 1, !.out = @ + 1, !.failures = @ + 1]
  <2>1. p.batch > 0 /\ (Becomes(i, Ended(q, "none"), 0) \/ Becomes(i, q, 0))
    BY <1>4 DEF RowOut
  <2>2. q \in Pieces /\ q.step # "copy" /\ q.err = "none" /\ q.left = p.left /\ q.batch = p.batch - 1 /\ q.in = p.in
    <3>1. p.batch - 1 \in Nat /\ p.in + 1 \in Nat /\ p.out + 1 \in Nat /\ p.failures + 1 \in Nat
      BY <1>2, <2>1
    <3> QED
      BY <1>1, <3>1 DEF Pieces
  <2> HIDE DEF q
  <2>3. CASE Becomes(i, q, 0)
    BY <1>1, <1>2, <2>1, <2>2, <2>3, BecomesKeeps
  <2>4. CASE Becomes(i, Ended(q, "none"), 0)
    <3> DEFINE r == Ended(q, "none")
    <3>1. r \in Pieces /\ r.step = "ended" /\ r.err = "none" /\ r.left = 0 /\ r.batch = 0 /\ r.in = p.in
      BY <2>2, EndedPiece
    <3> HIDE DEF r
    <3> QED
      BY <1>1, <1>2, <2>1, <2>4, <3>1, BecomesKeeps DEF r
  <2> QED
    BY <2>1, <2>3, <2>4
<1>5. CASE RowCutOff(i)
  <2>1. p.batch > 0 /\ (Becomes(i, Ended(p, "none"), 0) \/ CutOff(i, 1))
    BY <1>5 DEF RowCutOff
  <2>2. CASE Becomes(i, Ended(p, "none"), 0)
    <3> DEFINE r == Ended(p, "none")
    <3>1. r \in Pieces /\ r.step = "ended" /\ r.err = "none" /\ r.left = 0 /\ r.batch = 0 /\ r.in = p.in
      BY <1>1, EndedPiece
    <3> HIDE DEF r
    <3> QED
      BY <1>1, <1>2, <2>2, <3>1, BecomesKeeps DEF r
  <2>3. CASE CutOff(i, 1)
    BY <1>1, <1>2, <2>1, <2>3, CutOffKeeps
  <2> QED
    BY <2>1, <2>2, <2>3
<1>6. CASE NextBatch(i)
  <2> DEFINE q == [p EXCEPT !.step = "batch"]
  <2>1. Becomes(i, q, 0)
    BY <1>6 DEF NextBatch
  <2>2. q \in Pieces /\ q.step = "batch" /\ q.err = "none" /\ q.left = p.left /\ q.batch = p.batch /\ q.in = p.in
    BY <1>1 DEF Pieces
  <2> HIDE DEF q
  <2> QED
    BY <1>1, <1>2, <2>1, <2>2, BecomesKeeps
<1>7. CASE Written(i)
  <2> DEFINE r == Ended(p, "none")
  <2>1. Becomes(i, r, 0)
    BY <1>7 DEF Written
  <2>2. r \in Pieces /\ r.step = "ended" /\ r.err = "none" /\ r.left = 0 /\ r.batch = 0 /\ r.in = p.in
    BY <1>1, EndedPiece
  <2> HIDE DEF r
  <2> QED
    BY <1>1, <1>2, <2>1, <2>2, BecomesKeeps
<1> QED
  BY <1>3, <1>4, <1>5, <1>6, <1>7

LEMMA WritingKeeps == ASSUME FillInv, WriteStep PROVE FillInv'
  BY CopyKeeps, BatchKeeps, RowsKeep DEF WriteStep, InsertRows

(***************************************************************************)
(* The pieces of a round.                                                  *)
(***************************************************************************)
LEMMA DivIs ==
    ASSUME NEW a \in Nat, NEW b \in Nat \ {0}
    PROVE  a \div b \in Nat /\ b * (a \div b) <= a /\ a < b * (a \div b) + b
  BY Z3
LEMMA TimesIs ==
    ASSUME NEW x \in Nat, NEW y \in Nat, NEW b \in Nat, x <= y
    PROVE  x * b <= y * b
  OBVIOUS
\* g rows in pieces of s.
LEMMA CountOf ==
    ASSUME NEW g \in Nat \ {0}, NEW s \in Nat \ {0}
    PROVE  LET k == (g + s - 1) \div s
           IN  k \in Nat \ {0} /\ (k - 1) * s < g /\ g <= k * s
<1> DEFINE a == g + s - 1
           k == a \div s
<1>1. a \in Nat
  OBVIOUS
<1>2. k \in Nat /\ s * k <= a /\ a < s * k + s
  <2> HIDE DEF a
  <2> QED
    BY <1>1, DivIs
<1> HIDE DEF k
<1>3. s * k <= g + s - 1 /\ g + s - 1 < s * k + s
  BY <1>2
<1>4. (k - 1) * s = s * k - s /\ k * s = s * k /\ s * k \in Nat
  BY <1>2
<1>5. g <= k * s /\ (k - 1) * s < g
  BY <1>3, <1>4
<1>6. k # 0
  BY <1>5
<1> QED
  BY <1>2, <1>5, <1>6 DEF k

\* Rows that fit m pieces need no more.
LEMMA CountAtMost ==
    ASSUME NEW k \in Nat \ {0}, NEW s \in Nat \ {0}, NEW g \in Nat, NEW m \in Nat,
           (k - 1) * s < g, g <= m * s
    PROVE  k <= m
<1> SUFFICES ASSUME m <= k - 1 PROVE FALSE
  OBVIOUS
<1>1. m * s <= (k - 1) * s
  BY TimesIs, k - 1 \in Nat
<1>2. m * s \in Nat /\ (k - 1) * s \in Nat
  BY k - 1 \in Nat
<1> QED
  BY <1>1, <1>2

MaxPieces(t) == IF t \in SelfRefs THEN 1 ELSE Workers

LEMMA PieceRowsFit ==
    ASSUME NEW t \in FillTables, NEW g \in Nat \ {0}
    PROVE  /\ PieceRows(t, g) \in Nat \ {0}
           /\ MaxPieces(t) \in Nat
           /\ g <= MaxPieces(t) * PieceRows(t, g)
<1>1. MaxPieces(t) \in Nat \ {0}
  BY Constants DEF MaxPieces
<1>2. CASE Workers = 1 \/ t \in SelfRefs \/ g <= BatchSize
  <2>1. PieceRows(t, g) = g
    BY <1>2 DEF PieceRows
  <2>2. 1 * g <= MaxPieces(t) * g
    BY <1>1, TimesIs
  <2> QED
    BY <1>1, <2>1, <2>2
<1>3. CASE ~(Workers = 1 \/ t \in SelfRefs \/ g <= BatchSize)
  <2> DEFINE c == (g + Workers - 1) \div Workers
             r == PieceRows(t, g)
  <2>1. c \in Nat \ {0} /\ g <= c * Workers
    BY Constants, CountOf
  <2>2. r = Upper(c, BatchSize) /\ MaxPieces(t) = Workers
    BY <1>3 DEF PieceRows, MaxPieces
  <2> HIDE DEF c, r
  <2>3. r \in Nat \ {0} /\ c <= r
    BY <2>1, <2>2, Constants DEF Upper
  <2>4. c * Workers <= r * Workers
    BY <2>1, <2>3, TimesIs, Constants
  <2>5. g <= Workers * r
    <3>1. r * Workers = Workers * r /\ r * Workers \in Nat /\ c * Workers \in Nat
      BY <2>1, <2>3, Constants
    <3> QED
      BY <2>1, <2>4, <3>1
  <2> QED
    BY <1>1, <2>2, <2>3, <2>5 DEF r
<1> QED
  BY <1>2, <1>3

\* A round of g rows is split into no more pieces than there are connections,
\* and the pieces have no more rows than the round.
LEMMA SplitFits ==
    ASSUME NEW t \in FillTables, NEW g \in Nat \ {0}, NEW P, P = Split(t, g)
    PROVE  /\ DOMAIN P \in {1..k : k \in 0..MaxPieces(t)}
           /\ \A i \in DOMAIN P : P[i] \in Pieces /\ P[i].err = "none" /\ P[i].in = 0 /\ P[i].batch = 0
           /\ Sum([i \in DOMAIN P |-> P[i].left + P[i].batch]) <= g
<1> DEFINE s == PieceRows(t, g)
           k == (g + s - 1) \div s
           f == [i \in 1..k |-> Lower(s, g - (i - 1) * s)]
<1>1. P = [i \in 1..k |-> NewPiece(f[i])]
  BY DEF Split
<1>2. s \in Nat \ {0} /\ MaxPieces(t) \in Nat /\ g <= MaxPieces(t) * s
  BY PieceRowsFit
<1>3. k \in Nat \ {0} /\ (k - 1) * s < g
  BY <1>2, CountOf
<1> HIDE DEF s, k
<1>4. k <= MaxPieces(t)
  BY <1>2, <1>3, CountAtMost
<1>5. ASSUME NEW i \in 1..k
      PROVE  f[i] \in Nat /\ f[i] <= s /\ f[i] <= g - (i - 1) * s
  <2>1. i - 1 \in Nat /\ k - 1 \in Nat /\ i - 1 <= k - 1
    BY <1>3
  <2>2. (i - 1) * s <= (k - 1) * s /\ (i - 1) * s \in Nat /\ (k - 1) * s \in Nat
    BY <1>2, <2>1, TimesIs
  <2>3. g - (i - 1) * s \in Nat
    BY <1>3, <2>2
  <2>4. f[i] = Lower(s, g - (i - 1) * s)
    OBVIOUS
  <2> HIDE DEF f
  <2> QED
    BY <1>2, <2>3, <2>4 DEF Lower
<1>6. f \in [1..k -> Nat]
  <2>1. f = [i \in 1..k |-> f[i]]
    OBVIOUS
  <2> HIDE DEF f
  <2> QED
    BY <1>5, <2>1
<1> HIDE DEF f
<1>7. DOMAIN P = 1..k /\ \A i \in 1..k : P[i] = NewPiece(f[i])
  BY <1>1
<1>8. \A i \in 1..k : /\ P[i] \in Pieces /\ P[i].err = "none" /\ P[i].in = 0 /\ P[i].batch = 0
                      /\ P[i].left = f[i]
  BY <1>6, <1>7 DEF NewPiece, Pieces
<1>9. [i \in DOMAIN P |-> P[i].left + P[i].batch] = f
  BY <1>6, <1>7, <1>8
<1>10. Sum(f) <= (k - 1) * s + f[k]
  BY <1>2, <1>3, <1>5, <1>6, SumAtMost
<1>11. Sum(f) <= g
  <2>1. f[k] \in Nat /\ f[k] <= g - (k - 1) * s /\ (k - 1) * s \in Nat
    BY <1>2, <1>3, <1>5
  <2>2. Sum(f) \in Nat
    BY <1>3, <1>6, CountUpTo, SumIsNat
  <2> QED
    BY <1>10, <2>1, <2>2
<1> QED
  BY <1>2, <1>3, <1>4, <1>7, <1>8, <1>9, <1>11

(***************************************************************************)
(* Rounds and reports.                                                     *)
(***************************************************************************)
\* A table at its turn, in a round or being opened.
AtTurn ==
    /\ table \in FillTables /\ Requested[table] > 0
    /\ status[table] = "none"
    /\ stored[table] \in Nat /\ stored[table] <= Requested[table]

LEMMA TableTurn == ASSUME FillInv, table \in FillTables, Requested[table] > 0 PROVE AtTurn
  BY DEF FillInv, TypeOK, PlaceInv, RowsInv, AtTurn, FillTables

\* The table is reported with no more rows than it holds.
LEMMA ReportKeeps ==
    ASSUME FillInv, table \in FillTables, Requested[table] > 0, fill # "returned",
           NEW i \in Nat, i <= stored[table], NEW returns \in BOOLEAN, Report(i, returns),
           UNCHANGED <<mode, cancelled, stored>>, rejected' \in [FillTables -> Nat]
    PROVE  FillInv'
<1>1. /\ table' = table + 1 /\ table' \in 1..(N + 1)
      /\ status' = [status EXCEPT ![table] = Outcome(table, i)]
      /\ inserted' = [inserted EXCEPT ![table] = i]
      /\ fill' \in {"returned", "table"} /\ piece' = NoPiece /\ zeroRounds' = 0 /\ refused' = 0
  BY Constants DEF Report, FillTables
<1>2. Outcome(table, i) \in {"ok", "partial", "failed"}
  BY DEF Outcome
<1>3. TypeOK'
  <2>1. /\ DOMAIN piece' \in {1..k : k \in 0..(IF table' \in SelfRefs THEN 1 ELSE Workers)}
        /\ \A j \in DOMAIN piece' : piece'[j] \in Pieces
    BY <1>1, Constants, NoPieceIsTyped
  <2>2. status' \in [FillTables -> {"none", "ok", "partial", "failed"}] /\ inserted' \in [FillTables -> Nat]
    BY <1>1, <1>2 DEF FillInv, TypeOK
  <2>3. zeroRounds' \in 0..(MaxZeroRounds - 1) /\ refused' \in 0..(MaxRowFailures - 1)
    BY <1>1, Constants
  <2>4. mode' \in Modes /\ cancelled' \in BOOLEAN /\ stored' \in [FillTables -> Nat]
    BY DEF FillInv, TypeOK
  <2> QED
    BY <1>1, <2>1, <2>2, <2>3, <2>4 DEF TypeOK, Pieces
<1>4. PlaceInv'
  <2>1. ASSUME NEW t \in FillTables
        PROVE  /\ status'[t] = "none" <=> t >= table' \/ Requested[t] = 0
               /\ t >= table' => stored'[t] = 0 /\ inserted'[t] = 0
    <3>1. t \in Nat /\ table \in Nat
      BY DEF FillTables
    <3>2. CASE t = table
      BY <1>1, <1>2, <3>1, <3>2 DEF FillInv, TypeOK
    <3>3. CASE t # table
      <4>1. status'[t] = status[t] /\ inserted'[t] = inserted[t] /\ stored'[t] = stored[t]
        BY <1>1, <3>3 DEF FillInv, TypeOK
      <4>2. (t >= table' <=> t > table) /\ (t >= table <=> t > table)
        BY <1>1, <3>1, <3>3
      <4>3. /\ status[t] = "none" <=> t >= table \/ Requested[t] = 0
            /\ t > table => stored[t] = 0 /\ inserted[t] = 0
        BY DEF FillInv, PlaceInv
      <4> QED
        BY <4>1, <4>2, <4>3
    <3> QED
      BY <3>2, <3>3
  <2> QED
    BY <1>1, <2>1 DEF PlaceInv, FillTables
<1>5. PieceInv' /\ RowsInv'
  <2>1. \A t \in FillTables : stored'[t] <= Requested[t]
    BY DEF FillInv, RowsInv
  <2> QED
    BY <1>1, <2>1 DEF PieceInv, RowsInv, NoPiece
<1> QED
  BY <1>3, <1>4, <1>5 DEF FillInv

LEMMA StopIsBoolean == ASSUME FillInv PROVE mode.stop \in BOOLEAN
  BY FillAssumption DEF FillAssumption, FillInv, TypeOK

LEMMA TableStepKeeps == ASSUME FillInv, TableStep PROVE FillInv'
<1> USE DEF FillInv
<1>1. CASE Skip
  <2>1. /\ table \in FillTables /\ Requested[table] = 0 /\ fill = "table" /\ fill' = "table"
        /\ table' = table + 1 /\ table' \in 1..(N + 1) /\ piece = NoPiece
        /\ UNCHANGED <<mode, cancelled, stored, inserted, rejected, status, zeroRounds, refused, piece>>
    BY <1>1, Constants DEF Skip, tableVars, roundVars, PlaceInv, FillTables
  <2>2. /\ DOMAIN piece' \in {1..k : k \in 0..(IF table' \in SelfRefs THEN 1 ELSE Workers)}
        /\ \A j \in DOMAIN piece' : piece'[j] \in Pieces
    BY <2>1, Constants, NoPieceIsTyped
  <2>3. TypeOK'
    BY <2>1, <2>2 DEF TypeOK, Pieces
  <2>4. PlaceInv'
    <3>1. ASSUME NEW t \in FillTables
          PROVE  /\ status[t] = "none" <=> t >= table' \/ Requested[t] = 0
                 /\ t >= table' => stored[t] = 0 /\ inserted[t] = 0
      BY <2>1 DEF PlaceInv, FillTables
    <3> QED
      BY <2>1, <3>1 DEF PlaceInv, FillTables
  <2> QED
    BY <2>1, <2>3, <2>4 DEF PieceInv, RowsInv
<1>2. CASE OpenTable
  <2>1. /\ table \in FillTables /\ Requested[table] > 0 /\ fill = "table" /\ fill' = "round"
        /\ piece = NoPiece
        /\ UNCHANGED <<mode, cancelled, table, stored, inserted, rejected, status, zeroRounds, refused, piece>>
    BY <1>2 DEF OpenTable, tableVars, roundVars, PlaceInv
  <2> QED
    BY <2>1 DEF TypeOK, PlaceInv, PieceInv, RowsInv, Pieces
<1>3. CASE OpenFails
  <2>1. /\ table \in FillTables /\ Requested[table] > 0 /\ fill # "returned"
        /\ Report(0, mode.stop) \/ Report(0, TRUE)
        /\ UNCHANGED <<mode, cancelled, stored, rejected>>
    BY <1>3 DEF OpenFails, Stuck
  <2>2. 0 \in Nat /\ 0 <= stored[table] /\ rejected' \in [FillTables -> Nat]
    BY <2>1 DEF TypeOK
  <2>3. ASSUME NEW returns \in BOOLEAN, Report(0, returns) PROVE FillInv'
    BY <2>1, <2>2, <2>3, ReportKeeps
  <2> QED
    BY <2>1, <2>3, StopIsBoolean
<1>4. CASE Return
  BY <1>4 DEF Return, tableVars, roundVars, TypeOK, PlaceInv, PieceInv, RowsInv, Pieces
<1> QED
  BY <1>1, <1>2, <1>3, <1>4 DEF TableStep

LEMMA GenerateKeeps == ASSUME FillInv, Generate PROVE FillInv'
<1>1. PICK g \in 1..RoundRows(table) : piece' = Split(table, g)
  BY DEF Generate
<1>2. /\ fill = "round" /\ fill' = "write"
      /\ UNCHANGED <<mode, cancelled, table, stored, inserted, rejected, status, zeroRounds, refused>>
  BY DEF Generate, tableVars
<1>3. AtTurn /\ inserted[table] = stored[table]
  BY <1>2, TableTurn DEF FillInv, PlaceInv, RowsInv
<1>4. g \in Nat \ {0} /\ g <= Requested[table] - inserted[table]
  <2>1. RoundRows(table) \in Int /\ RoundRows(table) <= Requested[table] - inserted[table]
    BY <1>3, Constants DEF RoundRows, Lower, AtTurn
  <2>2. Requested[table] \in Nat /\ inserted[table] \in Nat
    BY <1>3, Constants DEF AtTurn
  <2> QED
    BY <2>1, <2>2
<1>5. /\ DOMAIN piece' \in {1..k : k \in 0..MaxPieces(table)}
      /\ \A i \in DOMAIN piece' : /\ piece'[i] \in Pieces /\ piece'[i].err = "none"
                                  /\ piece'[i].in = 0 /\ piece'[i].batch = 0
      /\ Sum([i \in DOMAIN piece' |-> piece'[i].left + piece'[i].batch]) <= g
  BY <1>1, <1>3, <1>4, SplitFits DEF AtTurn
<1>6. TypeOK'
  BY <1>2, <1>5 DEF FillInv, TypeOK, MaxPieces, Pieces
<1>7. PlaceInv' /\ PieceInv'
  BY <1>2, <1>3, <1>5 DEF FillInv, PlaceInv, PieceInv, AtTurn
<1>8. Sum(Dues)' <= g
  BY <1>5 DEF Dues
<1>9. Sum(Ins)' = 0
  <2>1. Ins' \in [DOMAIN piece' -> Nat] /\ \A i \in DOMAIN piece' : Ins'[i] = 0
    BY <1>5 DEF Ins
  <2> QED
    BY <2>1, SumOfNothing
<1>10. RowsInv'
  <2>1. /\ Sum(Dues)' \in Nat /\ stored[table] \in Nat /\ Requested[table] \in Nat /\ g \in Nat
        /\ inserted[table] = stored[table] /\ g <= Requested[table] - inserted[table]
    <3>1. DOMAIN piece' \in {1..k : k \in Nat}
      BY <1>5
    <3>2. IsFiniteSet(DOMAIN piece')
      BY <3>1, CountUpTo
    <3>3. Dues' \in [DOMAIN piece' -> Nat]
      BY <1>5, PieceFields DEF Dues
    <3> QED
      BY <1>3, <1>4, <3>2, <3>3, SumIsNat, Constants DEF AtTurn
  <2>2. stored[table] + Sum(Dues)' <= Requested[table]
    BY <1>8, <2>1
  <2> QED
    BY <1>2, <1>9, <2>1, <2>2 DEF FillInv, RowsInv
<1> QED
  BY <1>6, <1>7, <1>10 DEF FillInv

\* What a round that ends may report.
LEMMA RoundEnds ==
    ASSUME FillInv, fill = "write"
    PROVE  /\ AtTurn /\ inserted[table] \in Nat /\ Landed \in Nat /\ Refused \in Nat
           /\ inserted[table] + Landed <= stored[table]
           /\ (\A i \in DOMAIN piece : piece[i].err = "none") => inserted[table] + Landed = stored[table]
<1>1. AtTurn
  BY TableTurn DEF FillInv, PlaceInv
<1>2. Landed = Sum(Ins) /\ Landed \in Nat /\ Refused \in Nat
  BY LandedIsSum DEF FillInv
<1>3. inserted[table] \in Nat
  BY <1>1 DEF AtTurn, FillInv, TypeOK
<1> QED
  BY <1>1, <1>2, <1>3 DEF FillInv, RowsInv

LEMMA EndRoundKeeps == ASSUME FillInv, EndRound PROVE FillInv'
<1> DEFINE now == inserted[table] + Landed
<1>1. /\ fill = "write" /\ UNCHANGED <<mode, cancelled, stored>>
      /\ rejected' = [rejected EXCEPT ![table] = @ + Refused]
  BY DEF EndRound
<1>2. /\ AtTurn /\ now \in Nat /\ Refused \in Nat /\ Landed \in Nat /\ now <= stored[table]
  BY <1>1, RoundEnds
<1>3. rejected' \in [FillTables -> Nat]
  BY <1>1, <1>2 DEF FillInv, TypeOK, AtTurn
<1>4. \/ Report(now, TRUE) \/ Report(now, FALSE) \/ Report(now, mode.stop)
      \/ /\ \A i \in DOMAIN piece : piece[i].err = "none"
         /\ ~GivenUp(Landed, Refused)
         /\ inserted' = [inserted EXCEPT ![table] = now]
         /\ refused' = Streak(Landed, Refused)
         /\ fill' = "round"
         /\ piece' = NoPiece
         /\ UNCHANGED <<table, status, zeroRounds>>
  BY DEF EndRound, Stuck
<1> HIDE DEF now
<1>5. CASE Report(now, TRUE) \/ Report(now, FALSE) \/ Report(now, mode.stop)
  BY <1>1, <1>2, <1>3, <1>5, ReportKeeps, StopIsBoolean DEF AtTurn
<1>6. CASE /\ \A i \in DOMAIN piece : piece[i].err = "none"
           /\ ~GivenUp(Landed, Refused)
           /\ inserted' = [inserted EXCEPT ![table] = now]
           /\ refused' = Streak(Landed, Refused)
           /\ fill' = "round"
           /\ piece' = NoPiece
           /\ UNCHANGED <<table, status, zeroRounds>>
  <2>1. refused' \in 0..(MaxRowFailures - 1)
    <3>1. Streak(Landed, Refused) \in Nat /\ Streak(Landed, Refused) < MaxRowFailures
      BY <1>2, <1>6, Constants DEF GivenUp, Streak, Upper, FillInv, TypeOK
    <3> QED
      BY <1>6, <3>1, Constants
  <2>2. inserted' \in [FillTables -> Nat]
    BY <1>2, <1>6 DEF FillInv, TypeOK
  <2>3. /\ DOMAIN piece' \in {1..k : k \in 0..(IF table' \in SelfRefs THEN 1 ELSE Workers)}
        /\ \A j \in DOMAIN piece' : piece'[j] \in Pieces
    BY <1>6, Constants, NoPieceIsTyped
  <2>4. TypeOK'
    BY <1>1, <1>3, <1>6, <2>1, <2>2, <2>3 DEF FillInv, TypeOK, Pieces
  <2>5. now = stored[table]
    BY <1>1, <1>6, RoundEnds DEF now
  <2>6. inserted'[table] = stored[table] /\ \A t \in FillTables : t > table => inserted'[t] = inserted[t]
    BY <1>2, <1>6, <2>5 DEF FillInv, TypeOK, AtTurn, FillTables
  <2>7. PlaceInv'
    BY <1>1, <1>2, <1>6, <2>6 DEF FillInv, PlaceInv, AtTurn
  <2> QED
    BY <1>1, <1>6, <2>4, <2>6, <2>7 DEF FillInv, PieceInv, RowsInv, NoPiece
<1> QED
  BY <1>4, <1>5, <1>6

LEMMA RoundStepKeeps == ASSUME FillInv, RoundStep PROVE FillInv'
<1> USE DEF FillInv
<1>1. ASSUME fill = "round"
      PROVE  /\ AtTurn /\ inserted[table] = stored[table] /\ inserted[table] \in Nat
             /\ rejected \in [FillTables -> Nat] /\ stored[table] \in Nat
  BY <1>1, TableTurn DEF PlaceInv, RowsInv, TypeOK, AtTurn
<1>2. ASSUME fill = "round", UNCHANGED <<mode, cancelled, stored, rejected>>, NEW returns \in BOOLEAN,
             Report(inserted[table], returns)
      PROVE  FillInv'
  BY <1>1, <1>2, ReportKeeps DEF AtTurn
<1>3. CASE GenerateNothing
  <2>1. CASE Stuck(inserted[table])
    BY <1>2, <1>3, <2>1, StopIsBoolean DEF GenerateNothing, Stuck
  <2>2. CASE /\ zeroRounds + 1 < MaxZeroRounds /\ zeroRounds' = zeroRounds + 1
             /\ UNCHANGED <<fill, table, inserted, status, refused, piece>>
    <3>1. zeroRounds' \in 0..(MaxZeroRounds - 1)
      BY <2>2, Constants DEF TypeOK
    <3> QED
      BY <1>3, <2>2, <3>1 DEF GenerateNothing, TypeOK, PlaceInv, PieceInv, RowsInv, Pieces
  <2>3. zeroRounds \in Int /\ MaxZeroRounds \in Int
    BY Constants DEF TypeOK
  <2>4. zeroRounds + 1 < MaxZeroRounds \/ zeroRounds + 1 >= MaxZeroRounds
    BY <2>3
  <2> HIDE DEF FillInv
  <2> QED
    BY <1>3, <2>1, <2>2, <2>3, <2>4 DEF GenerateNothing
<1>4. CASE GenerateFails
  BY <1>2, <1>4, StopIsBoolean DEF GenerateFails, Stuck
<1>5. CASE RoundCancelled
  BY <1>2, <1>5 DEF RoundCancelled
<1> QED
  BY <1>3, <1>4, <1>5, GenerateKeeps, EndRoundKeeps DEF RoundStep

LEMMA FillInductive == FillInv /\ [FillNext]_fillVars => FillInv'
<1> SUFFICES ASSUME FillInv, [FillNext]_fillVars PROVE FillInv'
  OBVIOUS
<1>1. CASE Cancel \/ FillTerminated \/ UNCHANGED fillVars
  <2>1. /\ UNCHANGED <<mode, fill, table, stored, inserted, rejected, status, zeroRounds, refused, piece>>
        /\ cancelled' = cancelled \/ cancelled' = TRUE
    BY <1>1 DEF Cancel, FillTerminated, fillVars, tableVars, roundVars
  <2>2. TypeOK'
    BY <2>1 DEF FillInv, TypeOK, Pieces
  <2>3. PlaceInv'
    BY <2>1 DEF FillInv, PlaceInv
  <2>4. PieceInv'
    BY <2>1 DEF FillInv, PieceInv
  <2>5. Dues' = Dues /\ Ins' = Ins
    BY <2>1 DEF Dues, Ins
  <2>6. RowsInv'
    BY <2>1, <2>5 DEF FillInv, RowsInv
  <2> QED
    BY <2>2, <2>3, <2>4, <2>6 DEF FillInv
<1> QED
  BY <1>1, TableStepKeeps, RoundStepKeeps, WritingKeeps DEF FillNext

(***************************************************************************)
(* The theorems.                                                           *)
(***************************************************************************)
\* Every variable keeps its type: no more pieces than connections, the counts
\* of refused rows and empty rounds below the numbers that give a table up
\* (seeder.go fillTable).
THEOREM FillTypeCorrect == FillSpec => []TypeOK
<1>1. FillInv => TypeOK
  BY DEF FillInv
<1> QED
  BY <1>1, FillInitially, FillInductive, PTL DEF FillSpec

(***************************************************************************)
(* Step by step, the fill does what FillContract allows.                   *)
(***************************************************************************)
LEMMA ReportsAre ==
    ASSUME FillInv
    PROVE  \A t \in FillTables : Reports[t] = Contract!None <=> status[t] = "none"
  BY DEF Reports, Contract!None

LEMMA TurnIsCurrent ==
    ASSUME FillInv, AtTurn, fill # "returned" PROVE Contract!Current(table)
<1>1. table \in Contract!Filled
  BY DEF AtTurn, Contract!Filled, FillTables
<1>2. \A t \in Contract!Filled : t \in FillTables /\ (t < table => status[t] # "none")
  BY DEF FillInv, PlaceInv, Contract!Filled, FillTables, AtTurn
<1> QED
  BY <1>1, <1>2, ReportsAre DEF AtTurn, Contract!Current

LEMMA ReportRefines ==
    ASSUME FillInv, AtTurn, fill # "returned",
           NEW i \in Nat, i <= stored[table], NEW returns \in BOOLEAN, Report(i, returns),
           i < stored[table] => returns, UNCHANGED stored
    PROVE  Contract!Report(table)
<1>1. Contract!Current(table)
  BY TurnIsCurrent
<1>2. (fill' = "returned") = returns
  BY DEF Report
<1>3. Outcome(table, i) = Contract!StatusOf(table, i) /\ Outcome(table, i) # "none"
  BY Constants DEF Outcome, Contract!StatusOf, AtTurn
<1>4. Reports' = [Reports EXCEPT ![table] = [inserted |-> i, status |-> Contract!StatusOf(table, i)]]
  <2>1. /\ status' = [status EXCEPT ![table] = Outcome(table, i)]
        /\ inserted' = [inserted EXCEPT ![table] = i]
        /\ status \in [FillTables -> {"none", "ok", "partial", "failed"}] /\ inserted \in [FillTables -> Nat]
    BY DEF Report, FillInv, TypeOK
  <2>2. \A t \in FillTables : Reports'[t] = IF t = table THEN [inserted |-> i, status |-> Outcome(table, i)]
                                        ELSE Reports[t]
    BY <1>3, <2>1 DEF Reports, AtTurn
  <2> QED
    BY <1>3, <2>2 DEF Reports
<1>5. i \in 0..stored[table]
  BY DEF AtTurn
<1> QED
  BY <1>1, <1>2, <1>4, <1>5 DEF Contract!Report

LEMMA WriteRefines ==
    ASSUME FillInv, FillInv', WriteStep PROVE Contract!Land(table) \/ UNCHANGED <<stored, Reports, fill = "returned">>
<1> DEFINE Lands(n) == /\ UNCHANGED <<fill, table, status, inserted>>
                       /\ stored' = [stored EXCEPT ![table] = @ + n]
<1>1. fill = "write" /\ \E n \in Nat : Lands(n)
  <2>1. PICK i \in DOMAIN piece : fill = "write" /\ InsertRows(i)
    BY DEF WriteStep
  <2>2. \A p, n : Becomes(i, p, n) => Lands(n)
    BY DEF Becomes
  <2>3. piece[i].left \in Nat /\ Lower(BatchSize, piece[i].left) \in Nat
    BY PieceFields, Constants DEF FillInv, TypeOK, Lower
  <2> HIDE DEF Lands
  <2>4. \A n \in Nat : CutOff(i, n) => \E m \in Nat : Lands(m)
    BY <2>2 DEF CutOff
  <2>5. CASE Copy(i)
    BY <2>1, <2>2, <2>3, <2>4, <2>5 DEF Copy
  <2>6. CASE Batch(i)
    BY <2>1, <2>2, <2>3, <2>4, <2>6 DEF Batch
  <2>7. CASE RowIn(i) \/ RowOut(i) \/ NextBatch(i) \/ Written(i)
    BY <2>1, <2>2, <2>7 DEF RowIn, RowOut, NextBatch, Written
  <2>8. CASE RowCutOff(i)
    BY <2>1, <2>2, <2>4, <2>8 DEF RowCutOff
  <2> QED
    BY <2>1, <2>5, <2>6, <2>7, <2>8 DEF InsertRows
<1>2. PICK n \in Nat : Lands(n)
  BY <1>1
<1>3. AtTurn
  BY <1>1, TableTurn DEF FillInv, PlaceInv
<1>4. UNCHANGED <<Reports, fill = "returned">>
  BY <1>2 DEF Reports
<1>5. CASE n = 0
  <2>1. stored' = stored
    BY <1>2, <1>3, <1>5 DEF FillInv, TypeOK, AtTurn
  <2> QED
    BY <1>4, <2>1
<1>6. CASE n > 0
  <2>1. stored'[table] \in (stored[table] + 1)..Requested[table]
        /\ stored' = [stored EXCEPT ![table] = stored'[table]]
    BY <1>2, <1>3, <1>6, Constants DEF FillInv, TypeOK, RowsInv, AtTurn
  <2> QED
    BY <1>1, <1>3, <1>4, <2>1, TurnIsCurrent DEF Contract!Land
<1> QED
  BY <1>5, <1>6

LEMMA StepRefines ==
    ASSUME FillInv, FillInv', [FillNext]_fillVars PROVE [Contract!Next]_(Contract!contractVars)
<1> DEFINE Same == UNCHANGED <<stored, Reports, fill = "returned">>
<1>1. Same => UNCHANGED Contract!contractVars
  BY DEF Contract!contractVars
<1>2. \A t \in FillTables : Contract!Land(t) \/ Contract!Report(t) => Contract!Next
  BY DEF Contract!Next, FillTables
<1>3. CASE WriteStep
  <2>1. table \in FillTables
    BY <1>3 DEF WriteStep, FillInv, PlaceInv
  <2> QED
    BY <1>1, <1>2, <1>3, <2>1, WriteRefines
<1>4. CASE Skip \/ OpenTable \/ Cancel \/ Generate \/ FillTerminated \/ UNCHANGED fillVars
  BY <1>1, <1>4 DEF Skip, OpenTable, Cancel, Generate, FillTerminated, fillVars, tableVars, Reports
<1>5. CASE OpenFails
  <2>1. /\ table \in FillTables /\ Requested[table] > 0 /\ fill = "table" /\ UNCHANGED stored
        /\ Report(0, mode.stop) \/ Report(0, TRUE)
    BY <1>5 DEF OpenFails, Stuck
  <2>2. AtTurn /\ stored[table] = 0
    BY <2>1, TableTurn DEF FillInv, PlaceInv
  <2>3. ASSUME NEW returns \in BOOLEAN, Report(0, returns) PROVE Contract!Report(table)
    BY <2>1, <2>2, <2>3, ReportRefines
  <2> QED
    BY <1>2, <2>1, <2>3, StopIsBoolean
<1>6. CASE Return
  <2>1. /\ fill = "table" /\ fill' = "returned" /\ table = N + 1
        /\ UNCHANGED <<stored, inserted, status>>
    BY <1>6 DEF Return, tableVars
  <2>2. \A t \in Contract!Filled : t \in FillTables /\ status[t] # "none"
    BY <2>1, Constants DEF FillInv, PlaceInv, Contract!Filled, FillTables
  <2>3. Contract!Return
    BY <2>1, <2>2, ReportsAre DEF Contract!Return, Reports
  <2> QED
    BY <2>3 DEF Contract!Next
<1>7. CASE GenerateNothing \/ GenerateFails \/ RoundCancelled
  <2>1. fill = "round" /\ UNCHANGED stored
    BY <1>7 DEF GenerateNothing, GenerateFails, RoundCancelled
  <2>2. table \in FillTables /\ AtTurn /\ inserted[table] = stored[table]
    BY <2>1, TableTurn DEF FillInv, PlaceInv, RowsInv
  <2>3. ASSUME NEW returns \in BOOLEAN, Report(inserted[table], returns) PROVE Contract!Report(table)
    BY <2>1, <2>2, <2>3, ReportRefines DEF AtTurn
  <2>4. \/ Report(inserted[table], mode.stop) \/ Report(inserted[table], TRUE)
        \/ UNCHANGED <<fill, table, inserted, status>>
    BY <1>7 DEF GenerateNothing, GenerateFails, RoundCancelled, Stuck
  <2>5. CASE UNCHANGED <<fill, table, inserted, status>>
    BY <1>1, <2>1, <2>5 DEF Reports
  <2> QED
    BY <1>2, <2>2, <2>3, <2>4, <2>5, StopIsBoolean
<1>8. CASE EndRound
  <2> DEFINE now == inserted[table] + Landed
  <2>1. fill = "write" /\ UNCHANGED stored
    BY <1>8 DEF EndRound
  <2>2. table \in FillTables /\ AtTurn /\ now \in Nat /\ now <= stored[table]
    BY <2>1, RoundEnds DEF AtTurn
  <2>3. \/ Report(now, TRUE)
        \/ /\ \A i \in DOMAIN piece : piece[i].err = "none"
           /\ \/ Report(now, FALSE) \/ Report(now, mode.stop)
              \/ /\ inserted' = [inserted EXCEPT ![table] = now]
                 /\ fill' = "round" /\ UNCHANGED status
    BY <1>8 DEF EndRound, Stuck
  <2>4. (\A i \in DOMAIN piece : piece[i].err = "none") => now = stored[table]
    BY <2>1, RoundEnds
  <2> HIDE DEF now
  <2>5. ASSUME NEW returns \in BOOLEAN, Report(now, returns), now < stored[table] => returns
        PROVE  Contract!Report(table)
    BY <2>1, <2>2, <2>5, ReportRefines
  <2>6. ASSUME inserted' = [inserted EXCEPT ![table] = now], fill' = "round", UNCHANGED status
        PROVE  Same
    <3>1. \A t \in FillTables : Reports'[t] = Reports[t]
      BY <2>2, <2>6 DEF Reports, AtTurn, FillInv, TypeOK
    <3> QED
      BY <2>1, <2>6, <3>1 DEF Reports
  <2>7. CASE Report(now, TRUE)
    BY <1>2, <2>2, <2>5, <2>7
  <2>8. CASE (Report(now, FALSE) \/ Report(now, mode.stop)) /\ now = stored[table]
    <3>1. ~(now < stored[table])
      BY <2>2, <2>8
    <3> QED
      BY <1>2, <2>2, <2>5, <2>8, <3>1, StopIsBoolean
  <2> QED
    BY <1>1, <2>3, <2>4, <2>6, <2>7, <2>8
<1> QED
  BY <1>3, <1>4, <1>5, <1>6, <1>7, <1>8 DEF FillNext, TableStep, RoundStep

\* Concurrent pieces, refused rows, retries, cancelled statements and give-ups
\* included, a fill never stores more rows than were requested, goes through the
\* tables in order, and reports each once: with what it stored, or, when the run
\* ends there, no more than that (seeder.go Fill, fillTable, finish).
THEOREM FillIsContract == FillSpec => ImplementsFillContract
<1>1. FillInit => Contract!Init
  BY DEF FillInit, Contract!Init, Contract!None, Reports, FillTables
<1>2. FillInv /\ FillInv' /\ [FillNext]_fillVars => [Contract!Next]_(Contract!contractVars)
  BY StepRefines
<1> QED
  BY <1>1, <1>2, FillInitially, FillInductive, PTL DEF FillSpec, ImplementsFillContract, Contract!Spec
=============================================================================
