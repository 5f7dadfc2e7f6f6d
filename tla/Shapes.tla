------------------------------- MODULE Shapes -------------------------------
(***************************************************************************)
(* Shaped foreign keys (internal/faker/shapes.go): the dealer that hands   *)
(* out the parents of one foreign key so that the children per parent      *)
(* follow a shape, and the rows one table generates with it                *)
(* (faker.go, stream.go).                                                  *)
(*                                                                         *)
(* A shape is [min, avg, max, zero, null, buckets]: avg and the shares     *)
(* zero (of parents without children) and null (of rows without a parent)  *)
(* are in tenths, buckets are <<min, max>> of the histogram that hold      *)
(* parents.  Parents are 1..n, 0 stands for NULL.  Randomness is a choice. *)
(***************************************************************************)
EXTENDS Integers, Sequences, FiniteSets, SequencesExt, FiniteSetsExt

CONSTANTS
    Edges,      \* [n, shape, nullable, sampled]
    Totals,     \* row counts a run may ask for, besides the derived one
    Extra,      \* rows beyond the plan, of enum coverage
    MaxPools,   \* samples of the parents
    None

VARIABLES
    edge,
    total,      \* rows planned
    pool,       \* the sample of parents the table draws from
    dealer,     \* the edgeDealer, None before its first deal
    row,        \* what the row being generated picked, or None
    buf,        \* rows of the chunk per parent
    kept,       \* rows handed out for good per parent of this deal
    made,       \* rows generated and not discarded
    beyond      \* whether more rows were held than this deal had, or a round followed

vars == <<edge, total, pool, dealer, row, buf, kept, made, beyond>>

Parent == 1 .. edge.n
Least(a, b)   == IF a < b THEN a ELSE b
Most(a, b)    == IF a > b THEN a ELSE b
\* math.Round(a / b)
Round(a, b)   == (2 * a + b) \div (2 * b)
CeilDiv(a, b) == (a + b - 1) \div b

Total(f) == FoldFunction(+, 0, f)

-----------------------------------------------------------------------------
(* Planning the rows.                                                       *)

Average(shape) == IF shape.avg > 0 THEN shape.avg ELSE 10 * Most(shape.min, 1)

\* DeriveShapedRows() for one table, and roundRows() for one sample.
Implied(shape, n, nullable) ==
    IF nullable /\ shape.null \in 1 .. 9
      THEN Round(n * (10 - shape.zero) * Average(shape), 10 * (10 - shape.null))
      ELSE Round(n * (10 - shape.zero) * Average(shape), 100)

RoundRows == Most(Implied(edge.shape, edge.n, edge.nullable), 1)

-----------------------------------------------------------------------------
(* Dealing.                                                                 *)

Clamp(d, lo, hi) == Least(Most(d, lo), hi)

\* drawDegree(): from a bucket, else evenly around the average.
DrawnDegrees(shape, lo, hi) ==
    LET avg    == Round(shape.avg, 10)
        spread == Least(avg - lo, hi - avg)
        drawn  == IF shape.buckets # {} THEN UNION {Most(b[1], 1) .. Most(Most(b[2], b[1]), 1) : b \in shape.buckets}
                  ELSE IF avg < lo \/ avg > hi THEN {avg}
                  ELSE avg - spread .. avg + spread
    IN  {Clamp(d, lo, hi) : d \in drawn}

\* Mutant: as many parents get children as the minimum does not allow.
PlanRoundedUp(n, slots, shape) ==
    LET lo     == Most(shape.min, 1)
        max    == Most(shape.max, lo)
        hi     == IF CeilDiv(slots, max) > n THEN CeilDiv(slots, n) ELSE max
        some   == Most(n - Round(shape.zero * n, 10), 1)
        active == Most(some, CeilDiv(slots, hi))
        fit    == CeilDiv(slots, lo)
    IN  IF active * lo <= slots THEN [active |-> active, lo |-> lo, hi |-> hi]
        ELSE [active |-> fit, lo |-> IF fit * lo > slots THEN 1 ELSE lo, hi |-> hi]

\* How many parents get children, and between which bounds.
Plan(n, slots, shape) ==
    LET lo     == Most(shape.min, 1)
        max    == Most(shape.max, lo)
        hi     == IF CeilDiv(slots, max) > n THEN CeilDiv(slots, n) ELSE max
        some   == Most(n - Round(shape.zero * n, 10), 1)
        active == Most(some, CeilDiv(slots, hi))
        fit    == Most(slots \div lo, 1)
    IN  IF active * lo <= slots THEN [active |-> active, lo |-> lo, hi |-> hi]
        ELSE [active |-> fit, lo |-> IF fit * lo > slots THEN 1 ELSE lo, hi |-> hi]

\* One sweep over the chosen parents, each moved by at most step.
Sweep(degrees, chosen, slots, lo, hi, step) ==
    LET up == Total(degrees) < slots
        Move(d, i) ==
            LET left == slots - Total(d)
            IN  IF up THEN [d EXCEPT ![i] = @ + Least(Least(step, hi - @), left)]
                      ELSE [d EXCEPT ![i] = @ - Least(Least(step, @ - lo), -left)]
    IN  FoldLeft(Move, degrees, chosen)

\* Up to eight proportional passes and an exact one.
Adjusted(degrees, chosen, slots, lo, hi) ==
    LET Pass(d) ==
            LET gap     == slots - Total(d)
                movable == {i \in ToSet(chosen) : IF gap > 0 THEN d[i] < hi ELSE d[i] > lo}
            IN  IF gap = 0 \/ movable = {} THEN d
                ELSE Sweep(d, chosen, slots, lo, hi, CeilDiv(IF gap > 0 THEN gap ELSE -gap, Cardinality(movable)))
        passes[k \in 0 .. 8] == IF k = 0 THEN degrees ELSE Pass(passes[k - 1])
    IN  Sweep(passes[8], chosen, slots, lo, hi, slots)

\* dealDegrees(): all it may return.
Dealt(n, slots, shape) ==
    IF slots <= 0 THEN {[i \in 1 .. n |-> 0]}
    ELSE LET plan   == Plan(n, slots, shape)
             orders == {s \in [1 .. plan.active -> 1 .. n] : IsInjective(s)}
         IN  UNION {{Adjusted([i \in 1 .. n |-> IF i \in ToSet(chosen) THEN drawn[i] ELSE 0], chosen, slots, plan.lo, plan.hi) :
                       drawn \in [ToSet(chosen) -> DrawnDegrees(shape, plan.lo, plan.hi)]} : chosen \in orders}

-----------------------------------------------------------------------------
(* Slots are found in a Fenwick tree.                                       *)

LowBit(j) == CHOOSE b \in {1, 2, 4, 8} : j % b = 0 /\ (j \div b) % 2 = 1

Add(tree, i, delta) ==
    LET n == Len(tree)
        up[j \in Nat] == IF j > n THEN {} ELSE {j} \cup up[j + LowBit(j)]
    IN  [j \in 1 .. n |-> IF j \in up[i] THEN tree[j] + delta ELSE tree[j]]

Tree(degrees) == FoldLeft(LAMBDA tree, i : Add(tree, i, degrees[i]), [j \in DOMAIN degrees |-> 0],
                          [i \in DOMAIN degrees |-> i])

\* Mutant: a slot at the end of a subtree is looked for inside it.
FindBefore(tree, r) ==
    LET Down(at, step) ==
            LET next == at.pos + step
            IN  IF next <= Len(tree) /\ tree[next] < at.r THEN [pos |-> next, r |-> at.r - tree[next]] ELSE at
    IN  FoldLeft(Down, [pos |-> 0, r |-> r], SelectSeq(<<8, 4, 2, 1>>, LAMBDA s : s <= Len(tree))).pos + 1

\* find(): the parent that holds the r-th slot left.
Find(tree, r) ==
    LET Down(at, step) ==
            LET next == at.pos + step
            IN  IF next <= Len(tree) /\ tree[next] <= at.r THEN [pos |-> next, r |-> at.r - tree[next]] ELSE at
    IN  FoldLeft(Down, [pos |-> 0, r |-> r], SelectSeq(<<8, 4, 2, 1>>, LAMBDA s : s <= Len(tree))).pos + 1

-----------------------------------------------------------------------------
(* The dealer.                                                              *)

\* deal(): degrees for the next n rows.
Deals(n) ==
    LET nulls == IF edge.nullable THEN Round(edge.shape.null * n, 10) ELSE 0
    IN  {[pool |-> pool, degree |-> d, remain |-> d, tree |-> Tree(d), slots |-> Total(d),
          rowsLeft |-> n, nulls |-> nulls, nullsLeft |-> nulls, wanted |-> n - nulls] : d \in Dealt(edge.n, n - nulls, edge.shape)}

\* ensure(): deals when the pool is new, a round at a time over a sample.
RowsToDeal ==
    LET left == IF dealer = None THEN total ELSE Most(dealer.rowsLeft, 0)
    IN  IF edge.sampled THEN Least(left, RoundRows) ELSE left

Ensured == IF dealer # None /\ dealer.pool = pool THEN {dealer} ELSE Deals(RowsToDeal)

NullForced(d)  == d.nullsLeft > 0 /\ d.rowsLeft <= d.nullsLeft

\* draw(): what a row picks and the dealer after it.
DrawNull(d) == IF d.nullsLeft = 0 THEN {}
               ELSE {[pick |-> 0, of |-> [d EXCEPT !.nullsLeft = @ - 1, !.rowsLeft = @ - 1]]}

TakeSlot(d) == {LET i == Find(d.tree, r)
                IN  [pick |-> i, of |-> [d EXCEPT !.remain[i] = @ - 1, !.tree = Add(@, i, -1), !.slots = @ - 1]] : r \in 0 .. d.slots - 1}

\* More rows than dealt pick any parent; how many is only counted for a warning.
Overflow(d) == {[pick |-> -i, of |-> d] : i \in DOMAIN d.degree}

DrawParent(d) ==
    IF NullForced(d) THEN {}
    ELSE LET less   == [d EXCEPT !.rowsLeft = @ - 1]
             rounds == IF d.slots <= 0 /\ edge.sampled THEN Deals(RoundRows) ELSE {less}
         IN  UNION {IF x.slots > 0 THEN TakeSlot(x) ELSE Overflow(x) : x \in rounds}

\* Mutant: the slot comes back, the row does not.
ReturnedSlotOnly(d, i, k) ==
    IF i = 0 THEN [d EXCEPT !.nullsLeft = @ + k]
    ELSE LET back == Least(k, d.degree[i] - d.remain[i])
         IN  [d EXCEPT !.remain[i] = @ + back, !.tree = Add(@, i, back), !.slots = @ + back]

\* giveBack() of k rows of parent i; a full parent takes nothing back.
Returned(d, i, k) ==
    IF i = 0 THEN [d EXCEPT !.nullsLeft = @ + k, !.rowsLeft = @ + k]
    ELSE LET back == Least(k, d.degree[i] - d.remain[i])
         IN  [d EXCEPT !.remain[i] = @ + back, !.tree = Add(@, i, back), !.slots = @ + back, !.rowsLeft = @ + k]

\* undoRow()
Undone(d, pick) == IF pick < 0 THEN [d EXCEPT !.rowsLeft = @ + 1] ELSE Returned(d, pick, 1)

-----------------------------------------------------------------------------
(* The rows of a table.                                                     *)

Nobody == [i \in 0 .. edge.n |-> 0]
AsParent(pick) == IF pick < 0 THEN -pick ELSE pick

Init ==
    /\ edge \in Edges
    /\ total \in Totals \cup {Implied(edge.shape, edge.n, edge.nullable)}
    /\ pool = 1 /\ dealer = None /\ row = None /\ made = 0 /\ beyond = FALSE
    /\ buf = Nobody /\ kept = Nobody

\* pick(): one row is generated.
Generate ==
    /\ row = None /\ made < total + Extra
    /\ \E d \in Ensured : \E drawn \in DrawNull(d) \cup DrawParent(d) :
          /\ row' = drawn.pick
          /\ dealer' = drawn.of
          /\ kept' = IF d = dealer THEN kept ELSE Nobody
          /\ beyond' = \/ d = dealer /\ beyond
                       \/ Total(kept') + Total(buf) + 1 > Total(d.degree) + d.nulls
                       \/ d.slots <= 0 /\ drawn.pick > 0
    /\ made' = made + 1
    /\ UNCHANGED <<edge, total, pool, buf>>

Keep ==
    /\ row # None
    /\ buf' = [buf EXCEPT ![AsParent(row)] = @ + 1]
    /\ row' = None
    /\ UNCHANGED <<edge, total, pool, dealer, kept, made, beyond>>

\* The row's key is taken: it is generated again.
Retry ==
    /\ row # None
    /\ dealer' = Undone(dealer, row)
    /\ row' = None /\ made' = made - 1
    /\ UNCHANGED <<edge, total, pool, buf, kept, beyond>>

\* finalize(): rows that repeat a UNIQUE group are dropped, and returned by
\* the value they have.
Flush ==
    /\ row = None /\ buf # Nobody
    /\ \E gone \in [0 .. edge.n -> 0 .. Total(buf)] :
          /\ \A i \in 0 .. edge.n : gone[i] <= buf[i]
          /\ dealer' = FoldLeft(LAMBDA d, i : Returned(d, i - 1, gone[i - 1]), dealer, [i \in 1 .. edge.n + 1 |-> i])
          /\ kept' = [i \in 0 .. edge.n |-> kept[i] + buf[i] - gone[i]]
          /\ made' = made - Total(gone)
    /\ buf' = Nobody
    /\ UNCHANGED <<edge, total, pool, row, beyond>>

\* redrawParents(): only between chunks.
Redraw ==
    /\ edge.sampled /\ pool < MaxPools
    /\ row = None /\ buf = Nobody
    /\ pool' = pool + 1
    /\ UNCHANGED <<edge, total, dealer, row, buf, kept, made, beyond>>

Next == Generate \/ Keep \/ Retry \/ Flush \/ Redraw

Spec == Init /\ [][Next]_vars

-----------------------------------------------------------------------------
(* Properties.                                                              *)

Holds(i) == kept[i] + buf[i] + IF row # None /\ AsParent(row) = i THEN 1 ELSE 0

\* As long as no more rows were held than were dealt, every parent has the
\* children it was dealt but for the slots it still holds, and NULL its share:
\* rows retried for their key and rows dropped for a UNIQUE group give their
\* slots back exactly, in any order (shapes.go:121-185, 305-344).
KeepsShape ==
    dealer # None /\ ~beyond =>
        /\ \A i \in Parent : Holds(i) + dealer.remain[i] = dealer.degree[i] /\ dealer.remain[i] >= 0
        /\ Holds(0) + dealer.nullsLeft = dealer.nulls
        /\ Total([i \in 0 .. edge.n |-> Holds(i)]) + dealer.rowsLeft = dealer.wanted + dealer.nulls

\* The degrees sum to the rows, and no parent with children has fewer than the
\* minimum, whenever some number of parents can have them between the bounds; a
\* maximum is exceeded only when all parents together cannot stay below it
\* (shapes.go:378-479).
DealFits ==
    dealer # None /\ dealer.wanted > 0 =>
        LET lo  == Most(edge.shape.min, 1)
            hi  == Most(edge.shape.max, lo)
            sum == Total(dealer.degree)
        IN  /\ sum <= dealer.wanted
            /\ (\E k \in Parent : k * lo <= dealer.wanted /\ dealer.wanted <= k * hi) =>
                  sum = dealer.wanted /\ \A i \in Parent : dealer.degree[i] = 0 \/ dealer.degree[i] >= lo
            /\ \A i \in Parent : dealer.degree[i] <= Most(hi, CeilDiv(dealer.wanted, edge.n))

\* The comment of dealDegrees (shapes.go:378: "gives each of n parents a
\* degree so the degrees sum to slots"), which holds only when DealFits says so.
DegreesSum == dealer # None /\ dealer.wanted > 0 => Total(dealer.degree) = dealer.wanted
=============================================================================
