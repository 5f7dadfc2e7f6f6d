--------------------------- MODULE KeyStreamProofs ---------------------------
(***************************************************************************)
(* Theorems about KeyStream, for any tables, keys, pieces, chunks, stored  *)
(* rows and limits: no key is handed out twice, nor one the database held, *)
(* although the pools new keys continue from are samples, lose the keys of *)
(* dropped rows and are read again while rows are being written; every     *)
(* reference names a row; UNIQUE values do not repeat; and a junction or   *)
(* one-to-one table that is said to have made every key has.               *)
(*                                                                         *)
(* An integer key is new because the pool stays ascending and ends on the  *)
(* largest key there is; any other because every key used is in the set of *)
(* taken ones; and a junction's because positions count combinations of    *)
(* parents' keys one by one, as long as no parent's pool repeats a key.    *)
(* A UNIQUE value is new because the stream knows every tuple handed over  *)
(* and goes on past every number.  A junction is complete because its walk *)
(* passes no combination that is not taken, every combination has a        *)
(* position, and the pool it was given of a parent holds all the parent's  *)
(* keys for as long as these fit a pool.                                   *)
(***************************************************************************)
EXTENDS KeyStream, FiniteSetTheorems, SequenceTheorems, WellFoundedInduction, TLAPS

(***************************************************************************)
(* The inductive invariant, one table at a time.                           *)
(***************************************************************************)
\* A function on the run's tables.
IsMap(f) == DOMAIN f = Tables /\ f = [t \in Tables |-> f[t]]
Stages == {"waiting", "generating", "returned", "merged", "failed"}

\* The state of the run.
RunShape ==
    /\ atStart \in StoredRows /\ loaded \in BOOLEAN /\ sampled \subseteq Tables
    /\ stage \in [Tables -> Stages]
    /\ seqStart \in [Tables -> Nat] /\ cursor \in [Tables -> Nat] /\ written \in [Tables -> Nat]
    /\ IsMap(emitted) /\ IsMap(pks) /\ IsMap(taken) /\ IsMap(tuples) /\ IsMap(fork)

\* A fork that is in use has pools of its own table and of the parents; it
\* keeps no rows between calls.
ForkShape(t, f, at) ==
    /\ f \in [pools : {f.pools}, since : Nat, adds : Seq(Nat \ {0}), buf : Seq(RowType(t)),
              preloaded : Nat, short : BOOLEAN]
    /\ Len(f.buf) <= ChunkRows
    /\ at \in {"waiting", "returned", "merged"} => f.buf = <<>>
    /\ at # "waiting" =>
         /\ loaded
         /\ DOMAIN f.pools = {t} \cup ParentsOf(t)
         /\ f.pools = [u \in {t} \cup ParentsOf(t) |-> f.pools[u]]
         /\ f.pools[t] \in Seq(KeyType(t)) /\ \A u \in ParentsOf(t) : f.pools[u] \in Seq(Int)
         /\ IF f.buf = <<>> THEN Len(f.pools[t]) <= PoolLimit ELSE f.preloaded <= Len(f.pools[t])

\* The state of one table.
TableShape(t) ==
    /\ emitted[t] \in Seq(RowType(t)) /\ written[t] <= Len(emitted[t])
    /\ pks[t] \in Seq(KeyType(t)) /\ Len(pks[t]) <= PoolLimit
    /\ IsFiniteSet(taken[t])
    /\ ~loaded => emitted[t] = <<>> /\ pks[t] = <<>>
    /\ ForkShape(t, fork[t], stage[t])

\* A table's keys: stored at the start, handed over, in the chunk being made.
OldKeys(t) == Keys(atStart[t])
Made(t)    == KeysIn(emitted[t])
Making(t)  == KeysIn(fork[t].buf)
Used(t)    == OldKeys(t) \cup ToSet(Made(t))

\* The pool new keys continue from, and how much of it is not of this chunk.
OwnPool(t) == IF stage[t] = "waiting" THEN pks[t] ELSE fork[t].pools[t]
Base(t)    == IF fork[t].buf = <<>> THEN Len(OwnPool(t)) ELSE fork[t].preloaded
Stray(t)   == IF OnlyNegative(t) THEN {0} ELSE {}

\* An integer key's pool ascends, so the next key is past its last one.
Ascends(pool) == \A i, j \in 1..Len(pool) : i < j => pool[i] < pool[j]

\* No key is in two places; the pool ends with the keys of the chunk, holds
\* keys of rows before them, and says what the next key may be.
NoRepeats(old, made, making) ==
    IsInjective(made \o making) /\ ToSet(made \o making) \cap old = {}
PoolEnds(pool, m, making) ==
    m \in Nat /\ Len(pool) = m + Len(making) /\ \A i \in 1..Len(making) : pool[m + i] = making[i]
PoolLeads(kind, pool, m, used, making, spent) ==
    /\ kind = "sequence" => Ascends(pool) /\ \A k \in used : m >= 1 /\ k <= pool[m]
    /\ kind \in {"random", "identifying"} => IsInjective(pool) /\ ToSet(pool) \subseteq spent
    /\ kind # "sequence" => used \cup ToSet(making) \subseteq spent
PoolHolds(pool, m, keys) == \A i \in 1..m : pool[i] \in keys
\* Keys that are numbered count from one.
Counted(kind, keys) == kind = "sequence" => \A k \in keys : k > 0

\* No key is used twice, and the next one is new.
TableKeys(t) ==
    /\ NoRepeats(OldKeys(t), Made(t), Making(t))
    /\ Counted(Kind[t], ToSet(Made(t)) \cup ToSet(Making(t)))
    /\ loaded =>
        /\ PoolLeads(Kind[t], OwnPool(t), Base(t), Used(t), Making(t), taken[t])
        /\ Kind[t] # "junction" =>
            /\ PoolEnds(OwnPool(t), Base(t), Making(t))
            /\ PoolHolds(OwnPool(t), Base(t), Used(t) \cup Stray(t))

\* A pool foreign keys pick from holds keys of rows, none twice.
Good(pool, u) == IsInjective(pool) /\ ToSet(pool) \subseteq Referable(u) \cup Stray(u)

\* The pools references pick from: the stream's own and those of the fork.
TablePools(t) ==
    /\ Kind[t] # "junction" => Good(pks[t], t)
    /\ stage[t] # "waiting" => \A u \in ParentsOf(t) : Good(fork[t].pools[u], u)

\* References, also those of the chunk being made, name rows.
RefsGood(t, refs) ==
    \A c \in DOMAIN refs :
        /\ c \in DOMAIN Parents[t]
        /\ \/ refs[c] \in Referable(Parents[t][c]) \cup Stray(Parents[t][c])
           \/ refs[c] = Null /\ t \in Optional
SelfGood(rows, i) == rows[i].self = Null \/ \E j \in 1..i : rows[i].self = rows[j].key

\* Every row refers to rows, those of the chunk being made too.
TableRefs(t) ==
    /\ \A i \in 1..Len(emitted[t]) : RefsGood(t, emitted[t][i].refs) /\ SelfGood(emitted[t], i)
    /\ \A i \in 1..Len(fork[t].buf) : RefsGood(t, fork[t].buf[i].refs) /\ fork[t].buf[i].self = Null

\* The inductive invariant.
TableInv(t) == TableShape(t) /\ TableKeys(t) /\ TablePools(t) /\ TableRefs(t)
IInv == RunShape /\ \A t \in Tables : TableInv(t)

(***************************************************************************)
(* Numbers and sequences.                                                  *)
(***************************************************************************)
\* A set of numbers has a least one.
LEMMA LeastNat ==
    ASSUME NEW C \in SUBSET Nat, C # {} PROVE \E n \in C : \A m \in C : n <= m
<1> DEFINE R == OpToRel(<, Nat)
<1>1. R = {ss \in Nat \X Nat : ss[1] < ss[2]}
  BY DEF OpToRel
<1>2. IsWellFoundedOn(R, Nat)
  BY NatLessThanWellFounded
<1> HIDE DEF R
<1>3. PICK n \in C : \A m \in C : <<m, n>> \notin R
  BY <1>2, WFMin
<1>4. ASSUME NEW m \in C PROVE n <= m
  <2>1. m \in Nat /\ n \in Nat /\ <<m, n>> \in Nat \X Nat
    OBVIOUS
  <2> QED
    BY <1>1, <1>3, <2>1
<1> QED
  BY <1>4

\* What holds of 0 and passes from one number to the next holds up to n.
LEMMA UpTo ==
    ASSUME NEW n \in Nat, NEW G, 0 \in G, \A i \in 1..n : i - 1 \in G => i \in G
    PROVE  0..n \subseteq G
<1> DEFINE C == {i \in 0..n : i \notin G}
<1> SUFFICES ASSUME C # {} PROVE FALSE
  OBVIOUS
<1>1. C \in SUBSET Nat
  OBVIOUS
<1>2. PICK k \in C : \A m \in C : k <= m
  <2> HIDE DEF C
  <2> QED
    BY <1>1, LeastNat
<1>3. k # 0 /\ k \in 1..n /\ k - 1 \in 0..n /\ k - 1 \notin C
  BY <1>2
<1> QED
  BY <1>3

\* A finite set of integers has a greatest one.
LEMMA Greatest ==
    ASSUME NEW S \in SUBSET Int, IsFiniteSet(S), S # {}
    PROVE  \E m \in S : \A n \in S : n <= m
<1>1. PICK n \in Nat : ExistsSurjection(1..n, S)
  BY FS_NatSurjection
<1>2. PICK f : f \in Surjection(1..n, S)
  BY <1>1 DEF ExistsSurjection
<1>3. f \in [1..n -> S] /\ \A x \in S : \E i \in 1..n : f[i] = x
  BY <1>2 DEF Surjection
<1>4. \A i \in 1..n : f[i] \in Int
  BY <1>3
<1> DEFINE G == {k \in 0..n : k = 0 \/ \E i \in 1..k : \A j \in 1..k : f[j] <= f[i]}
<1>5. 0 \in G
  OBVIOUS
<1>6. ASSUME NEW k \in 1..n, k - 1 \in G PROVE k \in G
  <2>1. k \in 0..n /\ k \in 1..k
    OBVIOUS
  <2>2. CASE k = 1
    <3>1. \A j \in 1..k : f[j] <= f[k]
      <4>1. \A j \in 1..k : j = k
        BY <2>2
      <4>2. f[k] \in Int
        BY <1>4
      <4> QED
        BY <4>1, <4>2
    <3> QED
      BY <2>1, <3>1
  <2>3. CASE k # 1
    <3>1. k - 1 # 0
      BY <2>3
    <3>2. PICK i \in 1..(k - 1) : \A j \in 1..(k - 1) : f[j] <= f[i]
      BY <1>6, <3>1
    <3>3. i \in 1..k /\ i \in 1..n /\ f[i] \in Int /\ f[k] \in Int
      BY <1>4
    <3>4. \A j \in 1..k : j = k \/ j \in 1..(k - 1)
      OBVIOUS
    <3>5. \A j \in 1..k : f[j] \in Int
      BY <1>4
    <3>6. CASE f[k] <= f[i]
      <4>1. \A j \in 1..k : f[j] <= f[i]
        BY <3>2, <3>4, <3>6
      <4> QED
        BY <2>1, <3>3, <4>1
    <3>7. CASE ~(f[k] <= f[i])
      <4>1. \A j \in 1..k : f[j] <= f[k]
        BY <3>2, <3>3, <3>4, <3>5, <3>7
      <4> QED
        BY <2>1, <4>1
    <3> QED
      BY <3>6, <3>7
  <2> QED
    BY <2>2, <2>3
<1>7. n \in G
  <2>1. 0..n \subseteq G
    <3> HIDE DEF G
    <3> QED
      BY <1>5, <1>6, UpTo
  <2> QED
    BY <2>1
<1>8. n # 0
  <2>1. PICK x \in S : TRUE
    OBVIOUS
  <2>2. PICK i \in 1..n : f[i] = x
    BY <1>3
  <2> QED
    BY <2>2
<1>9. PICK i \in 1..n : \A j \in 1..n : f[j] <= f[i]
  BY <1>7, <1>8
<1>10. f[i] \in S /\ \A x \in S : x <= f[i]
  BY <1>3, <1>9
<1> QED
  BY <1>10

\* Numbers go on above all that are stored.
LEMMA StartAfterIs ==
    ASSUME NEW N \in SUBSET Nat, IsFiniteSet(N)
    PROVE  StartAfter(N) \in Nat /\ \A n \in N : n < StartAfter(N)
<1> DEFINE S == {n + 1 : n \in N} \cup {0}
<1>1. PICK m \in S : \A n \in S : n <= m
  <2> DEFINE f == [n \in N |-> n + 1]
             M == {n + 1 : n \in N}
  <2>1. f \in Surjection(N, M)
    BY DEF Surjection
  <2>2. IsFiniteSet(M)
    <3> HIDE DEF f, M
    <3> QED
      BY <2>1, FS_Surjection
  <2>3. M \in SUBSET Int
    OBVIOUS
  <2> HIDE DEF M
  <2>4. M \cup {0} \in SUBSET Int /\ IsFiniteSet(M \cup {0})
    BY <2>2, <2>3, FS_AddElement
  <2>5. \E m \in M \cup {0} : \A n \in M \cup {0} : n <= m
    BY <2>4, Greatest
  <2> QED
    BY <2>5 DEF M
<1>2. S \subseteq Nat
  OBVIOUS
<1>3. \A n \in N : n + 1 \in S
  OBVIOUS
<1>4. StartAfter(N) = Max(S)
  BY DEF StartAfter
<1> HIDE DEF S
<1>5. Max(S) \in S /\ \A n \in S : Max(S) >= n
  BY <1>1, <1>2 DEF Max
<1>6. ASSUME NEW n \in N PROVE n < Max(S)
  <2> DEFINE k == n + 1
             top == Max(S)
  <2>1. k \in S /\ top \in S /\ \A x \in S : top >= x
    BY <1>3, <1>5
  <2> HIDE DEF top
  <2>2. n \in Nat /\ top \in Nat
    BY <1>2, <2>1
  <2>3. top >= k
    <3> HIDE DEF k
    <3> QED
      BY <2>1
  <2> QED
    BY <2>2, <2>3 DEF top
<1> QED
  BY <1>2, <1>4, <1>5, <1>6

\* An increasing sequence of integers grows by one at least.
LEMMA Growing ==
    ASSUME NEW n \in Nat, NEW s \in [1..n -> Int], \A i, j \in 1..n : i < j => s[i] < s[j]
    PROVE  \A i, j \in 1..n : i <= j => s[i] + (j - i) <= s[j]
<1> SUFFICES ASSUME NEW i \in 1..n, NEW j \in 1..n, i <= j PROVE s[i] + (j - i) <= s[j]
  OBVIOUS
<1> DEFINE G == {d \in 0..(j - i) : s[i] + d <= s[i + d]}
<1>1. 0 \in G
  OBVIOUS
<1>2. ASSUME NEW d \in 1..(j - i), d - 1 \in G PROVE d \in G
  <2>1. s[i] + (d - 1) <= s[i + (d - 1)] /\ i + (d - 1) \in 1..n /\ i + d \in 1..n
    BY <1>2
  <2>2. s[i + (d - 1)] < s[i + d]
    BY <2>1
  <2> QED
    BY <2>1, <2>2
<1>3. j - i \in Nat /\ j - i \in 0..(j - i)
  OBVIOUS
<1>4. 0..(j - i) \subseteq G
  <2> HIDE DEF G
  <2> QED
    BY <1>1, <1>2, <1>3, UpTo
<1> QED
  BY <1>3, <1>4

\* So it picks all of 1..n when it picks n of them.
LEMMA PicksAll ==
    ASSUME NEW n \in Nat, NEW s \in [1..n -> 1..n], \A i, j \in 1..n : i < j => s[i] < s[j]
    PROVE  \A i \in 1..n : s[i] = i
<1> SUFFICES ASSUME NEW i \in 1..n PROVE s[i] = i
  OBVIOUS
<1>1. 1 \in 1..n /\ n \in 1..n /\ s \in [1..n -> Int]
  OBVIOUS
<1>2. \A a, b \in 1..n : a <= b => s[a] + (b - a) <= s[b]
  BY <1>1, Growing
<1>3. s[1] + (i - 1) <= s[i]
  BY <1>1, <1>2
<1>4. s[i] + (n - i) <= s[n]
  BY <1>1, <1>2
<1>5. s[1] \in 1..n /\ s[n] \in 1..n /\ s[i] \in 1..n
  BY <1>1
<1>6. ASSUME NEW a \in Int, NEW b \in Int, NEW c \in Int,
             a >= 1, a + (i - 1) <= b, b + (n - i) <= c, c <= n
      PROVE  b = i
  BY <1>6
<1>7. s[1] \in Int /\ s[i] \in Int /\ s[n] \in Int /\ s[1] >= 1 /\ s[n] <= n
  BY <1>5
<1> QED
  BY <1>3, <1>4, <1>6, <1>7

\* The set of a sequence's elements.
LEMMA SetOf == ASSUME NEW T, NEW s \in Seq(T)
               PROVE /\ ToSet(s) \subseteq T /\ \A i \in 1..Len(s) : s[i] \in ToSet(s)
                     /\ \A x \in ToSet(s) : \E i \in 1..Len(s) : s[i] = x
  BY DEF ToSet

\* The elements of a finite set of integers, ascending.
LEMMA AscendingIs ==
    ASSUME NEW S \in SUBSET Int, IsFiniteSet(S), NEW s \in Ascending(S)
    PROVE  /\ Cardinality(S) \in Nat
           /\ s \in Seq(S) /\ Len(s) = Cardinality(S) /\ ToSet(s) = S
           /\ \A i, j \in 1..Len(s) : i < j => s[i] < s[j]
<1> DEFINE n == Cardinality(S)
<1>1. n \in Nat
  BY FS_CardinalityType
<1>2. s \in [1..n -> S] /\ \A i, j \in 1..n : i < j => s[i] < s[j]
  BY DEF Ascending
<1> HIDE DEF n
<1>3. s \in Seq(S) /\ Len(s) = n /\ DOMAIN s = 1..n
  BY <1>1, <1>2
<1>4. s \in Injection(1..n, S)
  <2>1. \A i, j \in 1..n : s[i] = s[j] => i = j
    <3>1. \A i \in 1..n : s[i] \in Int
      BY <1>2
    <3> QED
      BY <1>1, <1>2, <3>1
  <2> QED
    BY <1>2, <2>1 DEF Injection, IsInjective
<1>5. Cardinality(1..n) = n
  BY <1>1, FS_Interval
<1>6. s \in Surjection(1..n, S)
  BY <1>4, <1>5, FS_Injection DEF n
<1>7. ToSet(s) = S
  BY <1>2, <1>3, <1>6 DEF Surjection, ToSet
<1> QED
  BY <1>1, <1>2, <1>3, <1>7 DEF n

\* A concatenation, index by index.
LEMMA Concat ==
    ASSUME NEW T, NEW s \in Seq(T), NEW u \in Seq(T), NEW q, q = s \o u
    PROVE  /\ q \in Seq(T) /\ Len(q) = Len(s) + Len(u) /\ Len(s) \in Nat /\ Len(u) \in Nat
           /\ \A i \in 1..Len(s) : q[i] = s[i]
           /\ \A i \in 1..Len(u) : q[Len(s) + i] = u[i]
  OBVIOUS

\* Its elements, and when none occurs twice.
LEMMA SetOfConcat ==
    ASSUME NEW T, NEW s \in Seq(T), NEW u \in Seq(T)
    PROVE  /\ s \o u \in Seq(T)
           /\ ToSet(s \o u) = ToSet(s) \cup ToSet(u)
           /\ IsInjective(s) /\ IsInjective(u) /\ ToSet(s) \cap ToSet(u) = {} => IsInjective(s \o u)
<1> DEFINE q == s \o u
<1>1. /\ q \in Seq(T) /\ Len(q) = Len(s) + Len(u) /\ Len(s) \in Nat /\ Len(u) \in Nat
      /\ \A i \in 1..Len(s) : q[i] = s[i]
      /\ \A i \in 1..Len(u) : q[Len(s) + i] = u[i]
  OBVIOUS
<1>3. DOMAIN q = 1..(Len(s) + Len(u)) /\ DOMAIN s = 1..Len(s) /\ DOMAIN u = 1..Len(u)
  OBVIOUS
<1> HIDE DEF q
<1>4. ToSet(q) = ToSet(s) \cup ToSet(u)
  <2>1. ASSUME NEW i \in 1..Len(u) PROVE q[Len(s) + i] = u[i] /\ Len(s) + i \in DOMAIN q
    BY <1>1, <1>3
  <2>2. ToSet(u) \subseteq ToSet(q)
    BY <1>3, <2>1 DEF ToSet
  <2>3. ToSet(s) \subseteq ToSet(q)
    BY <1>1, <1>3 DEF ToSet
  <2>4. ToSet(q) \subseteq ToSet(s) \cup ToSet(u)
    <3> SUFFICES ASSUME NEW i \in DOMAIN q PROVE q[i] \in ToSet(s) \cup ToSet(u)
      BY DEF ToSet
    <3>1. CASE i <= Len(s)
      BY <1>1, <1>3, <3>1 DEF ToSet
    <3>2. CASE i > Len(s)
      <4>1. i - Len(s) \in 1..Len(u) /\ i = Len(s) + (i - Len(s))
        BY <1>1, <1>3, <3>2
      <4>2. q[i] = u[i - Len(s)] /\ i - Len(s) \in DOMAIN u
        BY <1>1, <1>3, <4>1
      <4> QED
        BY <4>2 DEF ToSet
    <3> QED
      BY <1>1, <1>3, <3>1, <3>2
  <2> QED
    BY <2>2, <2>3, <2>4
<1>5. ASSUME IsInjective(s), IsInjective(u), ToSet(s) \cap ToSet(u) = {} PROVE IsInjective(q)
  <2> SUFFICES ASSUME NEW i \in DOMAIN q, NEW j \in DOMAIN q, q[i] = q[j] PROVE i = j
    BY DEF IsInjective
  <2>1. ASSUME NEW k \in DOMAIN q
        PROVE  \/ k <= Len(s) /\ k \in DOMAIN s /\ q[k] = s[k] /\ q[k] \in ToSet(s)
               \/ k > Len(s) /\ k - Len(s) \in DOMAIN u /\ q[k] = u[k - Len(s)] /\ q[k] \in ToSet(u)
    <3>1. CASE k <= Len(s)
      BY <1>1, <1>3, <3>1 DEF ToSet
    <3>2. CASE k > Len(s)
      <4>1. k - Len(s) \in 1..Len(u) /\ k = Len(s) + (k - Len(s))
        BY <1>1, <1>3, <3>2
      <4>2. q[k] = u[k - Len(s)] /\ k - Len(s) \in DOMAIN u
        BY <1>1, <1>3, <4>1
      <4> QED
        BY <3>2, <4>2 DEF ToSet
    <3> QED
      BY <1>1, <1>3, <3>1, <3>2
  <2> QED
    BY <1>1, <1>3, <1>5, <2>1 DEF IsInjective
<1> QED
  BY <1>1, <1>4, <1>5 DEF q

\* Concatenation is associative.
LEMMA Rebracket ==
    ASSUME NEW T, NEW s \in Seq(T), NEW u \in Seq(T), NEW v \in Seq(T)
    PROVE  s \o (u \o v) = (s \o u) \o v
  BY ConcatAssociative

\* Nothing occurs twice in a concatenation: nor in its halves, nor in both.
LEMMA ConcatSplits ==
    ASSUME NEW T, NEW s \in Seq(T), NEW u \in Seq(T), IsInjective(s \o u)
    PROVE  IsInjective(s) /\ IsInjective(u) /\ ToSet(s) \cap ToSet(u) = {}
<1> DEFINE q == s \o u
<1>1. /\ Len(s) \in Nat /\ Len(u) \in Nat
      /\ \A i \in 1..Len(s) : q[i] = s[i]
      /\ \A i \in 1..Len(u) : q[Len(s) + i] = u[i]
  OBVIOUS
<1>2. DOMAIN q = 1..(Len(s) + Len(u)) /\ DOMAIN s = 1..Len(s) /\ DOMAIN u = 1..Len(u)
  OBVIOUS
<1>3. \A a, b \in DOMAIN q : q[a] = q[b] => a = b
  BY DEF IsInjective
<1> HIDE DEF q
<1>4. \A i \in 1..Len(s) : i \in DOMAIN q
  BY <1>1, <1>2
<1>5. \A i \in 1..Len(u) : Len(s) + i \in DOMAIN q
  BY <1>1, <1>2
<1>6. IsInjective(s)
  BY <1>1, <1>2, <1>3, <1>4 DEF IsInjective
<1>7. IsInjective(u)
  <2> SUFFICES ASSUME NEW i \in 1..Len(u), NEW j \in 1..Len(u), u[i] = u[j] PROVE i = j
    BY <1>2 DEF IsInjective
  <2>1. Len(s) + i = Len(s) + j
    BY <1>1, <1>3, <1>5
  <2> QED
    BY <1>1, <2>1
<1>8. ToSet(s) \cap ToSet(u) = {}
  <2> SUFFICES ASSUME NEW i \in 1..Len(s), NEW j \in 1..Len(u), s[i] = u[j] PROVE FALSE
    BY <1>2 DEF ToSet
  <2>1. i = Len(s) + j
    BY <1>1, <1>3, <1>4, <1>5
  <2> QED
    BY <1>1, <2>1
<1> QED
  BY <1>6, <1>7, <1>8

(***************************************************************************)
(* New keys.                                                               *)
(***************************************************************************)
\* A new integer key is above the end of the pool.
LEMMA NextIs ==
    ASSUME NEW pool \in Seq(Int)
    PROVE  /\ NextSequential(pool) \in Int
           /\ Len(pool) <= NextSequential(pool)
           /\ Len(pool) >= 1 => pool[Len(pool)] <= NextSequential(pool)
<1>1. Len(pool) \in Nat /\ (pool # <<>> <=> Len(pool) >= 1)
  OBVIOUS
<1>2. Len(pool) >= 1 => pool[Len(pool)] \in Int
  BY <1>1
<1> QED
  BY <1>1, <1>2 DEF NextSequential

\* The end of an ascending pool is its largest key, and so of every key it leads.
LEMMA EndLeads ==
    ASSUME NEW pool \in Seq(Int), NEW m \in Nat, NEW making \in Seq(Int), NEW used \in SUBSET Int,
           PoolEnds(pool, m, making), Ascends(pool),
           \A k \in used : m >= 1 /\ k <= pool[m]
    PROVE  \A k \in used \cup ToSet(making) : k <= NextSequential(pool)
<1>1. Len(pool) \in Nat /\ Len(making) \in Nat /\ Len(pool) = m + Len(making)
  BY DEF PoolEnds
<1>2. ASSUME NEW i \in 1..Len(pool) PROVE pool[i] <= NextSequential(pool)
  <2>1. Len(pool) >= 1 /\ pool[i] \in Int /\ pool[Len(pool)] \in Int
    BY <1>1
  <2>2. pool[i] <= pool[Len(pool)]
    <3>1. CASE i = Len(pool)
      BY <2>1, <3>1
    <3>2. CASE i < Len(pool)
      <4>1. Len(pool) \in 1..Len(pool)
        BY <1>1, <2>1
      <4>2. pool[i] < pool[Len(pool)]
        BY <3>2, <4>1 DEF Ascends
      <4> QED
        BY <2>1, <4>2
    <3> QED
      BY <1>1, <3>1, <3>2
  <2> QED
    BY <2>1, <2>2, NextIs
<1>3. ASSUME NEW k \in used PROVE k <= NextSequential(pool)
  <2>1. m \in 1..Len(pool) /\ k <= pool[m] /\ pool[m] \in Int
    BY <1>1
  <2> QED
    BY <1>2, <2>1, NextIs
<1>4. ASSUME NEW i \in 1..Len(making) PROVE making[i] <= NextSequential(pool)
  <2>1. m + i \in 1..Len(pool) /\ pool[m + i] = making[i]
    BY <1>1 DEF PoolEnds
  <2> QED
    BY <1>2, <2>1
<1> QED
  BY <1>3, <1>4, SetOf
\* What a piece's keys must be: increasing past the pool, or not taken.
NewKeys(kind, pool, spent, new) ==
    /\ IsInjective(new)
    /\ kind = "sequence" => \A i \in 1..Len(new) : new[i] = NextSequential(pool) + i
    /\ kind # "sequence" => ToSet(new) \cap spent = {}

\* Keys used nowhere repeat none.
LEMMA NoneRepeats ==
    ASSUME NEW T, NEW old, NEW made \in Seq(T), NEW making \in Seq(T), NEW new \in Seq(T),
           NoRepeats(old, made, making), IsInjective(new),
           ToSet(new) \cap (old \cup ToSet(made) \cup ToSet(making)) = {}
    PROVE  NoRepeats(old, made, making \o new)
<1> DEFINE both == made \o making
<1>1. both \in Seq(T) /\ ToSet(both) = ToSet(made) \cup ToSet(making)
  BY SetOfConcat
<1>2. IsInjective(both) /\ ToSet(both) \cap old = {}
  BY DEF NoRepeats
<1>3. made \o (making \o new) = both \o new
  BY Rebracket
<1> HIDE DEF both
<1>4. /\ ToSet(both \o new) = ToSet(both) \cup ToSet(new)
      /\ IsInjective(both) /\ IsInjective(new) /\ ToSet(both) \cap ToSet(new) = {} => IsInjective(both \o new)
  BY <1>1, SetOfConcat
<1> QED
  BY <1>1, <1>2, <1>3, <1>4 DEF NoRepeats

\* A piece joins the chunk.
LEMMA AddKeeps ==
    ASSUME NEW kind, NEW T, kind = "sequence" => T = Int,
           NEW old \in SUBSET T, NEW made \in Seq(T), NEW making \in Seq(T), NEW pool, NEW m, NEW spent,
           kind # "junction" => pool \in Seq(T) /\ PoolEnds(pool, m, making),
           PoolLeads(kind, pool, m, old \cup ToSet(made), making, spent),
           NoRepeats(old, made, making),
           NEW new \in Seq(T), NewKeys(kind, pool, spent, new),
           NEW next, kind # "junction" => next = pool \o new,
           NEW left, left = IF kind = "sequence" THEN spent ELSE spent \cup ToSet(new)
    PROVE  /\ NoRepeats(old, made, making \o new)
           /\ PoolLeads(kind, next, m, old \cup ToSet(made), making \o new, left)
           /\ kind # "junction" => PoolEnds(next, m, making \o new)
<1> DEFINE used == old \cup ToSet(made)
<1>2. used \subseteq T /\ ToSet(new) \subseteq T /\ ToSet(making) \subseteq T
  BY SetOf
<1>1. ToSet(new) \cap (used \cup ToSet(making)) = {}
  <2>1. CASE kind # "sequence"
    BY <2>1 DEF NewKeys, PoolLeads
  <2>2. CASE kind = "sequence"
    <3>1. T = Int /\ pool \in Seq(Int) /\ m \in Nat /\ PoolEnds(pool, m, making) /\ making \in Seq(Int)
      BY <2>2 DEF PoolEnds
    <3>2. Ascends(pool) /\ \A k \in used : m >= 1 /\ k <= pool[m]
      BY <2>2 DEF PoolLeads
    <3> HIDE DEF used
    <3>3. \A k \in used \cup ToSet(making) : k <= NextSequential(pool)
      BY <1>2, <3>1, <3>2, EndLeads
    <3>6. used \cup ToSet(making) \subseteq Int /\ NextSequential(pool) \in Int
      BY <1>2, <3>1, NextIs
    <3>4. \A i \in 1..Len(new) : new[i] > NextSequential(pool)
      <4>1. \A i \in 1..Len(new) : new[i] = NextSequential(pool) + i
        BY <2>2 DEF NewKeys
      <4> QED
        BY <3>6, <4>1
    <3>5. \A k \in ToSet(new) : k > NextSequential(pool)
      BY <3>4, SetOf
    <3> QED
      BY <3>3, <3>5, <3>6
  <2> QED
    BY <2>1, <2>2
<1>3. NoRepeats(old, made, making \o new)
  <2>1. ToSet(new) \cap (old \cup ToSet(made) \cup ToSet(making)) = {} /\ IsInjective(new)
    BY <1>1 DEF NewKeys
  <2> QED
    BY <2>1, NoneRepeats
<1>4. /\ Len(making \o new) = Len(making) + Len(new) /\ Len(making) \in Nat /\ Len(new) \in Nat
      /\ \A i \in 1..Len(making) : (making \o new)[i] = making[i]
      /\ \A i \in 1..Len(new) : (making \o new)[Len(making) + i] = new[i]
  OBVIOUS
<1>5. ASSUME kind # "junction"
      PROVE  /\ next \in Seq(T) /\ next = pool \o new
             /\ Len(pool) \in Nat /\ Len(next) = Len(pool) + Len(new)
             /\ \A i \in 1..Len(pool) : next[i] = pool[i]
             /\ \A i \in 1..Len(new) : next[Len(pool) + i] = new[i]
  <2>1. pool \in Seq(T) /\ next = pool \o new
    BY <1>5
  <2>2. /\ pool \o new \in Seq(T) /\ Len(pool) \in Nat /\ Len(pool \o new) = Len(pool) + Len(new)
        /\ \A i \in 1..Len(pool) : (pool \o new)[i] = pool[i]
        /\ \A i \in 1..Len(new) : (pool \o new)[Len(pool) + i] = new[i]
    BY <2>1
  <2> QED
    BY <2>1, <2>2
<1>6. ASSUME kind # "junction" PROVE PoolEnds(next, m, making \o new)
  <2>1. m \in Nat /\ Len(pool) = m + Len(making) /\ \A i \in 1..Len(making) : pool[m + i] = making[i]
    BY <1>6 DEF PoolEnds
  <2>2. Len(next) = m + Len(making \o new)
    <3>1. Len(next) = Len(pool) + Len(new)
      BY <1>5, <1>6
    <3>2. Len(making \o new) = Len(making) + Len(new) /\ Len(making) \in Nat /\ Len(new) \in Nat
      BY <1>4
    <3> HIDE DEF used
    <3> QED
      BY <2>1, <3>1, <3>2
  <2> SUFFICES ASSUME NEW i \in 1..Len(making \o new) PROVE next[m + i] = (making \o new)[i]
    BY <2>1, <2>2 DEF PoolEnds
  <2>3. CASE i <= Len(making)
    <3>1. i \in 1..Len(making) /\ m + i \in 1..Len(pool)
      BY <1>4, <2>1, <2>3
    <3> QED
      BY <1>4, <1>5, <1>6, <2>1, <3>1
  <2>4. CASE i > Len(making)
    <3>1. i - Len(making) \in 1..Len(new)
      BY <1>4, <2>4
    <3>2. m + i = Len(pool) + (i - Len(making)) /\ i = Len(making) + (i - Len(making))
      BY <1>4, <2>1, <2>4
    <3>3. next[Len(pool) + (i - Len(making))] = new[i - Len(making)]
      BY <1>5, <1>6, <3>1
    <3>4. (making \o new)[Len(making) + (i - Len(making))] = new[i - Len(making)]
      BY <1>4, <3>1
    <3> QED
      BY <3>2, <3>3, <3>4
  <2> QED
    BY <1>4, <2>3, <2>4
<1>7. ASSUME kind = "sequence" PROVE Ascends(next) /\ \A k \in used : m >= 1 /\ k <= next[m]
  <2>1. T = Int /\ pool \in Seq(Int) /\ PoolEnds(pool, m, making) /\ kind # "junction"
    BY <1>7
  <2>2. Ascends(pool) /\ \A k \in used : m >= 1 /\ k <= pool[m]
    BY <1>7 DEF PoolLeads
  <2>3. \A i \in 1..Len(new) : new[i] = NextSequential(pool) + i
    BY <1>7 DEF NewKeys
  <2>4. NextSequential(pool) \in Int /\ \A i \in 1..Len(pool) : pool[i] \in Int /\ pool[i] <= NextSequential(pool)
    <3>1. Len(pool) >= 1 => pool[Len(pool)] <= NextSequential(pool)
      BY <2>1, NextIs
    <3>2. \A i \in 1..Len(pool) : i # Len(pool) => pool[i] < pool[Len(pool)]
      BY <2>1, <2>2 DEF Ascends
    <3> QED
      BY <2>1, <3>1, <3>2, NextIs
  <2>5. Ascends(next)
    <3> SUFFICES ASSUME NEW i \in 1..Len(next), NEW j \in 1..Len(next), i < j PROVE next[i] < next[j]
      BY DEF Ascends
    <3>1. CASE j <= Len(pool)
      <4>1. i \in 1..Len(pool) /\ j \in 1..Len(pool)
        BY <1>5, <2>1, <3>1
      <4> QED
        BY <1>5, <2>1, <2>2, <4>1 DEF Ascends
    <3>2. CASE i <= Len(pool) /\ j > Len(pool)
      <4>1. i \in 1..Len(pool) /\ j - Len(pool) \in 1..Len(new) /\ j = Len(pool) + (j - Len(pool))
        BY <1>4, <1>5, <2>1, <3>2, SMTT(30)
      <4>2. next[i] = pool[i] /\ next[j] = NextSequential(pool) + (j - Len(pool))
        BY <1>5, <2>1, <2>3, <4>1
      <4> QED
        BY <2>4, <4>1, <4>2
    <3>3. CASE i > Len(pool)
      <4>1. /\ i - Len(pool) \in 1..Len(new) /\ i = Len(pool) + (i - Len(pool))
            /\ j - Len(pool) \in 1..Len(new) /\ j = Len(pool) + (j - Len(pool))
        BY <1>4, <1>5, <2>1, <3>3, SMTT(30)
      <4>2. next[i] = NextSequential(pool) + (i - Len(pool)) /\ next[j] = NextSequential(pool) + (j - Len(pool))
        BY <1>5, <2>1, <2>3, <4>1
      <4> QED
        BY <2>4, <4>1, <4>2
    <3>4. Len(pool) \in Nat
      BY <2>1
    <3> QED
      BY <3>1, <3>2, <3>3, <3>4
  <2>6. ASSUME NEW k \in used PROVE m >= 1 /\ k <= next[m]
    <3>1. m \in 1..Len(pool)
      BY <1>4, <2>1, <2>2 DEF PoolEnds
    <3> QED
      BY <1>5, <2>1, <2>2, <3>1
  <2> QED
    BY <2>5, <2>6
<1>8. ASSUME kind \in {"random", "identifying"} PROVE IsInjective(next) /\ ToSet(next) \subseteq left
  <2>1. kind # "junction" /\ kind # "sequence" /\ pool \in Seq(T) /\ next = pool \o new
    BY <1>8
  <2>2. IsInjective(pool) /\ ToSet(pool) \subseteq spent /\ ToSet(new) \cap spent = {} /\ IsInjective(new)
    BY <1>8, <2>1 DEF PoolLeads, NewKeys
  <2> QED
    BY <2>1, <2>2, SetOfConcat
<1>9. ASSUME kind # "sequence" PROVE used \cup ToSet(making \o new) \subseteq left
  <2>1. ToSet(making \o new) = ToSet(making) \cup ToSet(new)
    BY SetOfConcat
  <2> QED
    BY <1>9, <2>1 DEF PoolLeads
<1>10. PoolLeads(kind, next, m, used, making \o new, left)
  BY <1>7, <1>8, <1>9 DEF PoolLeads
<1> QED
  BY <1>3, <1>6, <1>10

(***************************************************************************)
(* Dropped rows and capped pools: what remains is picked in order.         *)
(***************************************************************************)
Picks(at, q, s) ==
    /\ at \in [1..Len(q) -> 1..Len(s)]
    /\ \A i, j \in 1..Len(q) : i < j => at[i] < at[j]
    /\ \A i \in 1..Len(q) : q[i] = s[at[i]]

\* The pool once the rows of a chunk are settled.
Dropped(pool, m, making, kept) == IF Len(kept) < Len(making) THEN Rebuilt(pool, m, kept) ELSE pool

\* What is picked in order from a sequence has what order the sequence has.
LEMMA PickedKeeps ==
    ASSUME NEW T, NEW s \in Seq(T), NEW q \in Seq(T), NEW at, Picks(at, q, s)
    PROVE  /\ ToSet(q) \subseteq ToSet(s)
           /\ IsInjective(s) => IsInjective(q)
           /\ T \subseteq Int /\ Ascends(s) => Ascends(q)
           /\ Len(q) <= Len(s)
           /\ Len(q) = Len(s) => q = s
<1>1. /\ at \in [1..Len(q) -> 1..Len(s)] /\ Len(q) \in Nat /\ Len(s) \in Nat
      /\ DOMAIN q = 1..Len(q) /\ DOMAIN s = 1..Len(s)
      /\ \A i, j \in 1..Len(q) : i < j => at[i] < at[j]
      /\ \A i \in 1..Len(q) : q[i] = s[at[i]] /\ at[i] \in 1..Len(s)
  BY DEF Picks
<1>2. \A i \in 1..Len(q) : q[i] \in ToSet(s)
  BY <1>1 DEF ToSet
<1>3. ToSet(q) \subseteq ToSet(s)
  BY <1>1, <1>2 DEF ToSet
<1>4. IsInjective(s) => IsInjective(q)
  <2> SUFFICES ASSUME IsInjective(s), NEW i \in 1..Len(q), NEW j \in 1..Len(q), q[i] = q[j] PROVE i = j
    BY <1>1 DEF IsInjective
  <2>1. at[i] = at[j] /\ at[i] \in Int /\ at[j] \in Int
    BY <1>1 DEF IsInjective
  <2> QED
    BY <1>1, <2>1
<1>5. T \subseteq Int /\ Ascends(s) => Ascends(q)
  BY <1>1 DEF Ascends
<1>6. Len(q) <= Len(s)
  <2>1. CASE Len(q) = 0
    BY <1>1, <2>1
  <2>2. CASE Len(q) # 0
    <3>1. 1 \in 1..Len(q) /\ Len(q) \in 1..Len(q) /\ at \in [1..Len(q) -> Int]
      BY <1>1, <2>2
    <3>2. \A i, j \in 1..Len(q) : i <= j => at[i] + (j - i) <= at[j]
      BY <1>1, <3>1, Growing
    <3>3. at[1] + (Len(q) - 1) <= at[Len(q)]
      BY <3>1, <3>2
    <3>4. at[1] \in Int /\ at[1] >= 1 /\ at[Len(q)] \in Int /\ at[Len(q)] <= Len(s)
      BY <1>1, <3>1
    <3> QED
      BY <1>1, <3>3, <3>4
  <2> QED
    BY <2>1, <2>2
<1>7. ASSUME Len(q) = Len(s) PROVE q = s
  <2>1. at \in [1..Len(q) -> 1..Len(q)]
    BY <1>1, <1>7
  <2>2. \A i \in 1..Len(q) : at[i] = i
    BY <1>1, <2>1, PicksAll
  <2>3. \A i \in 1..Len(q) : q[i] = s[i]
    BY <1>1, <2>2
  <2> QED
    BY <1>1, <1>7, <2>3
<1> QED
  BY <1>3, <1>4, <1>5, <1>6, <1>7

\* A capped pool is picked from it, ends as it does and is within the limit.
LEMMA CappedIs ==
    ASSUME NEW T, NEW pool \in Seq(T), NEW limit \in Nat \ {0}, NEW capped \in CappedPools(pool, limit)
    PROVE  /\ capped \in Seq(T) /\ Len(capped) <= limit
           /\ \E at : Picks(at, capped, pool)
           /\ Len(pool) >= 1 => Len(capped) >= 1 /\ capped[Len(capped)] = pool[Len(pool)]
<1> DEFINE n == Len(pool)
<1>1. n \in Nat /\ DOMAIN pool = 1..n /\ \A i \in 1..n : pool[i] \in T
  OBVIOUS
<1>2. CASE n <= limit
  <2>1. capped = pool
    BY <1>2 DEF CappedPools
  <2> DEFINE at == [i \in 1..n |-> i]
  <2>2. Picks(at, capped, pool)
    BY <1>1, <2>1 DEF Picks
  <2> QED
    BY <1>1, <1>2, <2>1, <2>2
<1>3. CASE ~(n <= limit)
  <2>1. PICK I \in kSubset(limit - 1, 1..(n - 1)) :
          \E at \in Ascending(I \cup {n}) : capped = [i \in 1..limit |-> pool[at[i]]]
    <3> DEFINE Cut(at) == [i \in 1..limit |-> pool[at[i]]]
               Ats == UNION {Ascending(I \cup {n}) : I \in kSubset(limit - 1, 1..(n - 1))}
    <3>1. CappedPools(pool, limit) = {Cut(at) : at \in Ats}
      BY <1>3 DEF CappedPools
    <3>2. PICK at \in Ats : capped = Cut(at)
      <4> HIDE DEF Cut, Ats
      <4> QED
        BY <3>1
    <3>3. PICK I \in kSubset(limit - 1, 1..(n - 1)) : at \in Ascending(I \cup {n})
      BY <3>2
    <3> QED
      BY <3>2, <3>3
  <2> HIDE DEF n
  <2>2. I \subseteq 1..(n - 1) /\ Cardinality(I) = limit - 1
    BY <2>1 DEF kSubset
  <2>3. IsFiniteSet(I) /\ n \notin I /\ n >= 1
    <3>1. n - 1 \in Int /\ 1 \in Int /\ n >= 1 /\ n \notin I
      BY <1>1, <1>3, <2>2 DEF n
    <3>2. IsFiniteSet(1..(n - 1))
      BY <3>1, FS_Interval
    <3>3. I \in SUBSET (1..(n - 1))
      BY <2>2
    <3>4. IsFiniteSet(I)
      BY <3>2, <3>3, FS_Subset
    <3> QED
      BY <3>1, <3>4
  <2>4. IsFiniteSet(I \cup {n}) /\ Cardinality(I \cup {n}) = limit
    <3>1. IsFiniteSet(I \cup {n}) /\ Cardinality(I \cup {n}) = Cardinality(I) + 1
      BY <2>3, FS_AddElement
    <3> QED
      BY <2>2, <3>1
  <2>5. PICK at \in Ascending(I \cup {n}) : capped = [i \in 1..limit |-> pool[at[i]]]
    BY <2>1
  <2>6. I \cup {n} \in SUBSET Int /\ I \cup {n} \subseteq 1..n
    BY <1>1, <2>2, <2>3
  <2>7. /\ at \in Seq(I \cup {n}) /\ Len(at) = limit /\ ToSet(at) = I \cup {n}
        /\ \A i, j \in 1..limit : i < j => at[i] < at[j]
    <3> DEFINE S == I \cup {n}
    <3>1. S \in SUBSET Int /\ IsFiniteSet(S) /\ at \in Ascending(S) /\ Cardinality(S) = limit
      BY <2>4, <2>5, <2>6
    <3> HIDE DEF S
    <3>2. /\ at \in Seq(S) /\ Len(at) = Cardinality(S) /\ ToSet(at) = S
          /\ \A i, j \in 1..Len(at) : i < j => at[i] < at[j]
      BY <3>1, AscendingIs
    <3> QED
      BY <3>1, <3>2 DEF S
  <2>8. at \in [1..limit -> 1..n]
    BY <2>6, <2>7
  <2>9. capped \in Seq(T) /\ Len(capped) = limit
    BY <1>1, <2>5, <2>8
  <2>10. Picks(at, capped, pool)
    BY <2>5, <2>7, <2>8, <2>9 DEF Picks, n
  <2>11. at[limit] = n
    <3>1. PICK i \in 1..limit : at[i] = n
      <4>1. n \in ToSet(at)
        BY <2>7
      <4> QED
        BY <2>7, <4>1, SetOf
    <3>2. limit \in 1..limit /\ at[limit] \in 1..n
      BY <2>8
    <3>3. i = limit
      BY <1>1, <2>7, <3>1, <3>2
    <3> QED
      BY <3>1, <3>3
  <2>12. Len(capped) >= 1 /\ capped[Len(capped)] = pool[n]
    BY <2>5, <2>9, <2>11
  <2> QED
    BY <2>9, <2>10, <2>12 DEF n
<1> QED
  BY <1>2, <1>3

\* So is a pool that loses the keys of dropped rows; what was in it before the
\* chunk stays.
LEMMA RebuiltIs ==
    ASSUME NEW T, NEW pool \in Seq(T), NEW m, NEW making \in Seq(T), PoolEnds(pool, m, making),
           NEW kept \in Seq(T), NEW at, Picks(at, kept, making),
           NEW next, next = Dropped(pool, m, making, kept)
    PROVE  /\ next \in Seq(T) /\ PoolEnds(next, m, kept)
           /\ \A i \in 1..m : next[i] = pool[i]
           /\ \E b : Picks(b, next, pool)
<1>1. m \in Nat /\ Len(pool) = m + Len(making) /\ \A i \in 1..Len(making) : pool[m + i] = making[i]
  BY DEF PoolEnds
<1>t. Len(making) \in Nat /\ Len(kept) \in Nat /\ Len(pool) \in Nat
  OBVIOUS
<1>2. Len(kept) <= Len(making) /\ (Len(kept) = Len(making) => kept = making)
  BY PickedKeeps
<1>3. CASE Len(kept) >= Len(making)
  <2>1. next = pool /\ kept = making
    BY <1>t, <1>2, <1>3 DEF Dropped
  <2> DEFINE b == [i \in 1..Len(pool) |-> i]
  <2>2. Picks(b, next, pool)
    BY <1>t, <2>1 DEF Picks
  <2> QED
    BY <2>1, <2>2
<1>4. CASE Len(kept) < Len(making)
  <2> DEFINE front == SubSeq(pool, 1, m)
  <2>0. m <= Len(pool)
    BY <1>1, <1>t
  <2>1. front \in Seq(T)
    BY <1>1, <2>0
  <2>2. Len(front) = m /\ \A i \in 1..m : front[i] = pool[i]
    BY <1>1, <2>0
  <2>3. next = front \o kept
    BY <1>4 DEF Rebuilt, Dropped
  <2> HIDE DEF front
  <2>4. /\ next \in Seq(T) /\ Len(next) = Len(front) + Len(kept)
        /\ \A i \in 1..Len(front) : next[i] = front[i]
        /\ \A i \in 1..Len(kept) : next[Len(front) + i] = kept[i]
    BY <2>1, <2>3
  <2>5. /\ Len(next) = m + Len(kept)
        /\ \A i \in 1..m : next[i] = pool[i]
        /\ \A i \in 1..Len(kept) : next[m + i] = kept[i]
    BY <2>2, <2>4
  <2>6. PoolEnds(next, m, kept)
    BY <1>1, <2>5 DEF PoolEnds
  <2>7. /\ at \in [1..Len(kept) -> 1..Len(making)]
        /\ \A i, j \in 1..Len(kept) : i < j => at[i] < at[j]
        /\ \A i \in 1..Len(kept) : kept[i] = making[at[i]]
    BY DEF Picks
  <2> DEFINE b == [i \in 1..Len(next) |-> IF i <= m THEN i ELSE m + at[i - m]]
  <2>8. DOMAIN b = 1..Len(next) /\ b = [i \in 1..Len(next) |-> b[i]]
    OBVIOUS
  <2>9. /\ \A i \in 1..Len(next) : i <= m => b[i] = i
        /\ \A j \in 1..Len(kept) : m + j \in 1..Len(next) => b[m + j] = m + at[j]
    <3>1. ASSUME NEW j \in 1..Len(kept), m + j \in 1..Len(next) PROVE b[m + j] = m + at[j]
      <4>1. ~(m + j <= m) /\ (m + j) - m = j
        BY <1>1, <1>t
      <4>2. b[m + j] = IF m + j <= m THEN m + j ELSE m + at[(m + j) - m]
        BY <3>1
      <4> QED
        BY <4>1, <4>2
    <3> QED
      BY <3>1
  <2> HIDE DEF b
  <2>10. \A i \in 1..Len(next) : i > m => \E j \in 1..Len(kept) : i = m + j
    <3> SUFFICES ASSUME NEW i \in 1..Len(next), i > m PROVE \E j \in 1..Len(kept) : i = m + j
      OBVIOUS
    <3>1. i - m \in 1..Len(kept)
      BY <1>1, <1>t, <2>5
    <3> QED
      BY <1>1, <3>1
  <2>11. \A j \in 1..Len(kept) : m + j \in 1..Len(next)
    BY <1>1, <1>t, <2>5
  <2>12. ASSUME NEW i \in 1..Len(next)
         PROVE  b[i] \in 1..Len(pool) /\ next[i] = pool[b[i]]
    <3>1. CASE i <= m
      <4>1. i \in 1..m /\ i \in 1..Len(pool)
        BY <1>1, <1>t, <2>0, <3>1
      <4> QED
        BY <2>5, <2>9, <3>1, <4>1
    <3>2. CASE i > m
      <4>1. PICK j \in 1..Len(kept) : i = m + j
        BY <2>10, <3>2
      <4>2. b[m + j] = m + at[j] /\ at[j] \in 1..Len(making)
        BY <2>7, <2>9, <2>11
      <4>3. next[m + j] = pool[m + at[j]]
        BY <1>1, <2>5, <2>7, <4>2
      <4>4. m + at[j] \in 1..Len(pool)
        BY <1>1, <1>t, <4>2
      <4> QED
        BY <4>1, <4>2, <4>3, <4>4
    <3> QED
      BY <1>1, <3>1, <3>2
  <2>13. ASSUME NEW i \in 1..Len(next), NEW j \in 1..Len(next), i < j
         PROVE  b[i] < b[j]
    <3>1. CASE j <= m
      <4>1. i <= m
        BY <1>1, <2>13, <3>1
      <4> QED
        BY <2>9, <2>13, <3>1, <4>1
    <3>2. CASE i <= m /\ j > m
      <4>1. PICK y \in 1..Len(kept) : j = m + y
        BY <2>10, <3>2
      <4>2. b[m + y] = m + at[y] /\ at[y] \in 1..Len(making)
        BY <2>7, <2>9, <2>11
      <4>3. b[i] = i
        BY <2>9, <3>2
      <4>4. i < m + at[y]
        BY <1>1, <1>t, <3>2, <4>2
      <4> QED
        BY <4>1, <4>2, <4>3, <4>4
    <3>3. CASE i > m
      <4>1. PICK x \in 1..Len(kept) : i = m + x
        BY <2>10, <3>3
      <4>2. PICK y \in 1..Len(kept) : j = m + y
        <5>1. m \in Int /\ i \in Int /\ j \in Int /\ j > m
          BY <1>1, <2>13, <3>3
        <5> QED
          BY <2>10, <5>1
      <4>3. x < y
        BY <1>1, <2>13, <4>1, <4>2
      <4>t. at[x] < at[y] /\ at[x] \in Int /\ at[y] \in Int
        <5>1. at \in [1..Len(kept) -> 1..Len(making)]
          BY <2>7
        <5>2. at[x] \in 1..Len(making) /\ at[y] \in 1..Len(making)
          BY <5>1
        <5>3. \A a, c \in 1..Len(kept) : a < c => at[a] < at[c]
          BY <2>7
        <5>4. at[x] < at[y]
          BY <4>3, <5>3
        <5> QED
          BY <5>2, <5>4
      <4>4. b[m + x] = m + at[x] /\ b[m + y] = m + at[y]
        BY <2>9, <2>11
      <4>5. m + at[x] < m + at[y]
        BY <1>1, <4>t
      <4> QED
        BY <4>1, <4>2, <4>4, <4>5
    <3> QED
      BY <1>1, <3>1, <3>2, <3>3
  <2>14. Picks(b, next, pool)
    <3>1. b \in [1..Len(next) -> 1..Len(pool)]
      BY <2>8, <2>12
    <3> QED
      BY <2>12, <2>13, <3>1 DEF Picks
  <2> QED
    BY <2>4, <2>5, <2>6, <2>14
<1> QED
  BY <1>t, <1>3, <1>4

\* A chunk is handed over.
LEMMA FlushKeepsKeys ==
    ASSUME NEW T, NEW old, NEW made \in Seq(T), NEW making \in Seq(T), NoRepeats(old, made, making),
           NEW kept \in Seq(T), NEW at, Picks(at, kept, making)
    PROVE  /\ NoRepeats(old, made \o kept, <<>>)
           /\ made \o kept \in Seq(T) /\ ToSet(made \o kept) = ToSet(made) \cup ToSet(kept)
           /\ ToSet(kept) \subseteq ToSet(making)
<1>1. IsInjective(made) /\ IsInjective(making) /\ ToSet(made) \cap ToSet(making) = {}
  BY ConcatSplits DEF NoRepeats
<1>2. ToSet(kept) \subseteq ToSet(making) /\ IsInjective(kept)
  BY <1>1, PickedKeeps
<1>3. ToSet(made) \cap old = {} /\ ToSet(making) \cap old = {}
  <2>1. ToSet(made \o making) = ToSet(made) \cup ToSet(making)
    BY SetOfConcat
  <2> QED
    BY <2>1 DEF NoRepeats
<1>4. /\ made \o kept \in Seq(T) /\ ToSet(made \o kept) = ToSet(made) \cup ToSet(kept)
      /\ IsInjective(made) /\ IsInjective(kept) /\ ToSet(made) \cap ToSet(kept) = {} => IsInjective(made \o kept)
  BY SetOfConcat
<1>5. (made \o kept) \o <<>> = made \o kept
  BY <1>4, ConcatEmptySeq
<1> QED
  BY <1>1, <1>2, <1>3, <1>4, <1>5 DEF NoRepeats

\* An ascending pool ends on its largest key.
LEMMA LastIsLargest ==
    ASSUME NEW T \in SUBSET Int, NEW pool \in Seq(T), Ascends(pool), NEW i \in 1..Len(pool)
    PROVE  pool[i] <= pool[Len(pool)] /\ pool[i] \in Int /\ pool[Len(pool)] \in Int
<1>1. Len(pool) \in 1..Len(pool) /\ pool[i] \in Int /\ pool[Len(pool)] \in Int
  <2>1. \A j \in 1..Len(pool) : pool[j] \in T
    OBVIOUS
  <2>2. Len(pool) \in 1..Len(pool)
    OBVIOUS
  <2> QED
    BY <2>1, <2>2
<1>2. CASE i = Len(pool)
  BY <1>1, <1>2
<1>3. CASE i # Len(pool)
  <2>1. i < Len(pool)
    BY <1>3
  <2> QED
    BY <1>1, <2>1 DEF Ascends
<1> QED
  BY <1>2, <1>3

\* An ascending pool repeats no key.
LEMMA AscendsOnce ==
    ASSUME NEW pool \in Seq(Int), Ascends(pool)
    PROVE  IsInjective(pool)
<1> SUFFICES ASSUME NEW i \in 1..Len(pool), NEW j \in 1..Len(pool), pool[i] = pool[j], i # j PROVE FALSE
  BY DEF IsInjective
<1>1. pool[i] \in Int /\ pool[j] \in Int
  OBVIOUS
<1>2. i < j \/ j < i
  OBVIOUS
<1> QED
  BY <1>1, <1>2 DEF Ascends

\* A pool that gave back the keys of dropped rows still leads to new keys.
LEMMA RebuiltLeads ==
    ASSUME NEW kind, kind # "junction", NEW T \in SUBSET Int, NEW old \in SUBSET T, NEW made \in Seq(T), NEW making \in Seq(T),
           NEW pool \in Seq(T), NEW m, PoolEnds(pool, m, making), NEW spent,
           PoolLeads(kind, pool, m, old \cup ToSet(made), making, spent),
           NEW stray, PoolHolds(pool, m, old \cup ToSet(made) \cup stray),
           NEW kept \in Seq(T), NEW at, Picks(at, kept, making),
           NEW next, next = Dropped(pool, m, making, kept)
    PROVE  /\ next \in Seq(T)
           /\ PoolLeads(kind, next, Len(next), old \cup (ToSet(made) \cup ToSet(kept)), <<>>, spent)
           /\ PoolHolds(next, Len(next), old \cup (ToSet(made) \cup ToSet(kept)) \cup stray)
<1> DEFINE used == old \cup ToSet(made)
           news == old \cup (ToSet(made) \cup ToSet(kept))
<1>1. /\ next \in Seq(T) /\ PoolEnds(next, m, kept) /\ \A i \in 1..m : next[i] = pool[i]
      /\ \E b : Picks(b, next, pool)
  BY RebuiltIs
<1>2. PICK b : Picks(b, next, pool)
  BY <1>1
<1>3. next \in Seq(T)
  BY <1>1
<1>4. Len(next) \in Nat /\ Len(kept) \in Nat
  BY <1>3
<1>5. /\ ToSet(next) \subseteq ToSet(pool) /\ (IsInjective(pool) => IsInjective(next)) /\ (Ascends(pool) => Ascends(next))
  BY <1>3, <1>2, PickedKeeps
<1>6. ToSet(kept) \subseteq ToSet(making) /\ ToSet(kept) \subseteq T /\ ToSet(made) \subseteq T
  BY PickedKeeps, SetOf
<1>7. m \in Nat /\ Len(next) = m + Len(kept) /\ \A i \in 1..Len(kept) : next[m + i] = kept[i]
  BY <1>1 DEF PoolEnds
<1>8. m <= Len(next) /\ \A j \in 1..Len(kept) : m + j \in 1..Len(next)
  BY <1>4, <1>7
<1>9. ASSUME NEW i \in 1..Len(next) PROVE next[i] \in news \cup stray
  <2>1. CASE i <= m
    <3>1. i \in 1..m
      BY <2>1, <1>7
    <3>2. next[i] = pool[i] /\ pool[i] \in old \cup ToSet(made) \cup stray
      BY <1>1, <3>1 DEF PoolHolds
    <3> QED
      BY <3>2
  <2>2. CASE i > m
    <3>1. PICK j \in 1..Len(kept) : i = m + j
      <4>1. i - m \in 1..Len(kept) /\ i = m + (i - m)
        BY <1>4, <1>7, <2>2
      <4> QED
        BY <4>1
    <3>2. next[m + j] = kept[j] /\ kept[j] \in ToSet(kept)
      BY <1>7, SetOf
    <3> QED
      BY <3>1, <3>2
  <2> QED
    BY <1>7, <2>1, <2>2
<1>10. ASSUME kind = "sequence"
       PROVE  Ascends(next) /\ \A k \in news : Len(next) >= 1 /\ k <= next[Len(next)]
  <2>1. Ascends(pool) /\ \A k \in used : m >= 1 /\ k <= pool[m]
    BY <1>10 DEF PoolLeads
  <2>2. Ascends(next)
    BY <1>5, <2>1
  <2>3. \A i \in 1..Len(next) : next[i] <= next[Len(next)] /\ next[i] \in Int /\ next[Len(next)] \in Int
    BY <1>3, <2>2, LastIsLargest
  <2>4. ASSUME NEW k \in news PROVE Len(next) >= 1 /\ k <= next[Len(next)]
    <3>1. CASE k \in used
      <4>1. m >= 1 /\ k <= pool[m] /\ m \in 1..m /\ m \in 1..Len(next)
        <5>1. m >= 1 /\ k <= pool[m]
          BY <2>1, <3>1
        <5>2. m \in Nat
          BY <1>7
        <5> QED
          BY <1>4, <1>8, <5>1, <5>2
      <4>2. next[m] = pool[m]
        BY <1>1, <4>1
      <4>3. k <= next[m] /\ next[m] <= next[Len(next)] /\ next[m] \in Int /\ next[Len(next)] \in Int /\ k \in Int
        BY <1>6, <2>3, <3>1, <4>1, <4>2
      <4> QED
        BY <1>4, <4>1, <4>3
    <3>2. CASE k \in ToSet(kept)
      <4>1. PICK i \in 1..Len(kept) : kept[i] = k
        BY <3>2, SetOf
      <4>2. m + i \in 1..Len(next) /\ next[m + i] = k
        BY <1>7, <1>8, <4>1
      <4>3. next[m + i] <= next[Len(next)] /\ Len(next) >= 1
        BY <1>4, <2>3, <4>2
      <4> QED
        BY <4>2, <4>3
    <3> QED
      BY <3>1, <3>2
  <2> QED
    BY <2>2, <2>4
<1>11. ASSUME kind \in {"random", "identifying"} PROVE IsInjective(next) /\ ToSet(next) \subseteq spent
  BY <1>5, <1>11 DEF PoolLeads
<1>12. ASSUME kind # "sequence" PROVE news \cup ToSet(<<>>) \subseteq spent
  <2>1. used \cup ToSet(making) \subseteq spent
    BY <1>12 DEF PoolLeads
  <2>2. ToSet(<<>>) = {}
    BY DEF ToSet
  <2> QED
    BY <1>6, <2>1, <2>2
<1>13. PoolLeads(kind, next, Len(next), news, <<>>, spent)
  <2> HIDE DEF news
  <2> QED
    BY <1>10, <1>11, <1>12 DEF PoolLeads
<1> QED
  BY <1>3, <1>9, <1>13 DEF PoolHolds

\* So does a pool cut to a sample, as the largest key is kept.
LEMMA CappedLeads ==
    ASSUME NEW kind, NEW T \in SUBSET Int, NEW used, NEW pool \in Seq(T), NEW spent, NEW stray,
           PoolLeads(kind, pool, Len(pool), used, <<>>, spent),
           PoolHolds(pool, Len(pool), used \cup stray),
           NEW limit \in Nat \ {0}, NEW capped \in CappedPools(pool, limit)
    PROVE  /\ capped \in Seq(T) /\ Len(capped) <= limit
           /\ PoolLeads(kind, capped, Len(capped), used, <<>>, spent)
           /\ PoolHolds(capped, Len(capped), used \cup stray)
<1>1. /\ capped \in Seq(T) /\ Len(capped) <= limit /\ \E c : Picks(c, capped, pool)
      /\ Len(pool) >= 1 => Len(capped) >= 1 /\ capped[Len(capped)] = pool[Len(pool)]
  BY CappedIs
<1>2. PICK c : Picks(c, capped, pool)
  BY <1>1
<1>3. capped \in Seq(T)
  BY <1>1
<1>4. /\ ToSet(capped) \subseteq ToSet(pool) /\ (IsInjective(pool) => IsInjective(capped))
      /\ (Ascends(pool) => Ascends(capped))
  BY <1>2, <1>3, PickedKeeps
<1>5. ASSUME NEW i \in 1..Len(capped) PROVE capped[i] \in used \cup stray
  <2>1. capped[i] \in ToSet(pool)
    BY <1>3, <1>4, SetOf
  <2>2. PICK j \in 1..Len(pool) : capped[i] = pool[j]
    BY <2>1, SetOf
  <2> QED
    BY <2>2 DEF PoolHolds
<1>6. PoolLeads(kind, capped, Len(capped), used, <<>>, spent)
  BY <1>1, <1>4 DEF PoolLeads
<1> QED
  BY <1>1, <1>5, <1>6 DEF PoolHolds

(***************************************************************************)
(* Pools read from what is stored.                                         *)
(***************************************************************************)
LEMMA OtherPoolIs ==
    ASSUME NEW S \in SUBSET Int, IsFiniteSet(S), NEW limit \in Nat \ {0}, NEW pool \in OtherPools(S, limit)
    PROVE  /\ pool \in Seq(S) /\ pool \in Seq(Int) /\ Ascends(pool) /\ IsInjective(pool)
           /\ Len(pool) \in Nat /\ Len(pool) <= limit
           /\ ToSet(pool) \subseteq S /\ (S # {} => Len(pool) >= 1)
           /\ Cardinality(S) <= limit => ToSet(pool) = S
<1>1. PICK R \in Reservoirs(S, limit) : pool \in Ascending(R)
  BY DEF OtherPools
<1>2. /\ R \in SUBSET S /\ Cardinality(R) <= limit /\ (S # {} => Cardinality(R) # 0)
      /\ Cardinality(S) <= limit => R = S
  <2>1. CASE Cardinality(S) <= limit
    <3>1. R = S
      BY <1>1, <2>1 DEF Reservoirs
    <3>2. S # {} => Cardinality(S) # 0
      BY FS_EmptySet
    <3> QED
      BY <2>1, <3>1, <3>2
  <2>2. CASE ~(Cardinality(S) <= limit)
    <3>1. R \in SUBSET S /\ Cardinality(R) = limit
      BY <1>1, <2>2 DEF Reservoirs, kSubset
    <3> QED
      BY <2>2, <3>1
  <2> QED
    BY <2>1, <2>2
<1>3. IsFiniteSet(R) /\ R \in SUBSET Int
  BY <1>2, FS_Subset
<1>4. /\ Cardinality(R) \in Nat
      /\ pool \in Seq(R) /\ Len(pool) = Cardinality(R) /\ ToSet(pool) = R
      /\ \A i, j \in 1..Len(pool) : i < j => pool[i] < pool[j]
  BY <1>1, <1>3, AscendingIs
<1>5. pool \in Seq(S) /\ pool \in Seq(Int)
  <2>1. R \subseteq S /\ R \subseteq Int /\ pool \in Seq(R)
    BY <1>2, <1>3, <1>4
  <2> QED
    BY <2>1, SeqMonotonic
<1>6. Ascends(pool)
  BY <1>4 DEF Ascends
<1>7. IsInjective(pool)
  BY <1>5, <1>6, AscendsOnce
<1>8. Len(pool) \in Nat /\ Len(pool) <= limit /\ (S # {} => Len(pool) >= 1)
  BY <1>2, <1>4
<1> QED
  BY <1>2, <1>4, <1>5, <1>6, <1>7, <1>8

\* The pool of stored integer keys ascends to the largest of them.
LEMMA IntegerPoolIs ==
    ASSUME NEW S \in SUBSET Int, IsFiniteSet(S), NEW limit \in Nat \ {0}, NEW p \in IntegerPools(S, limit)
    PROVE  /\ p \in Seq(Int) /\ Ascends(p) /\ IsInjective(p) /\ Len(p) <= limit
           /\ \A k \in S : Len(p) >= 1 /\ k <= p[Len(p)]
           /\ \A i \in 1..Len(p) : p[i] \in S \cup (IF S # {} /\ \A k \in S : k < 0 THEN {0} ELSE {})
           /\ Cardinality(S) <= limit /\ ~(S # {} /\ \A k \in S : k < 0) => S \subseteq ToSet(p)
<1>1. PICK m \in Largest(S), pool \in OtherPools(S, limit) : p = EndingWith(m, pool)
  BY DEF IntegerPools
<1>2. /\ pool \in Seq(Int) /\ Ascends(pool)
      /\ Len(pool) \in Nat /\ Len(pool) <= limit /\ (S # {} => Len(pool) >= 1)
      /\ Cardinality(S) <= limit => ToSet(pool) = S
  BY OtherPoolIs
<1>3. m \in S \cup {0} /\ m \in Int /\ \A n \in S : n <= m
  BY DEF Largest
<1>4. m \in S \cup (IF \A k \in S : k < 0 THEN {0} ELSE {})
  <2>1. CASE m \in S
    BY <2>1
  <2>2. CASE m \notin S
    <3>1. m = 0 /\ \A k \in S : k <= 0 /\ k # 0 /\ k \in Int
      BY <1>3, <2>2
    <3>2. \A k \in S : k < 0
      BY <3>1
    <3> QED
      BY <3>1, <3>2
  <2> QED
    BY <2>1, <2>2
<1>5. \A i \in 1..Len(pool) : pool[i] \in S /\ pool[i] \in Int
  <2>1. ToSet(pool) \subseteq S
    BY OtherPoolIs
  <2> QED
    BY <1>2, <2>1, SetOf
<1>6. CASE pool # <<>> /\ pool[Len(pool)] < m
  <2>1. p = [pool EXCEPT ![Len(pool)] = m]
    BY <1>1, <1>6 DEF EndingWith
  <2>2. Len(pool) >= 1 /\ Len(pool) \in 1..Len(pool)
    BY <1>2, <1>6
  <2>3. /\ p \in Seq(Int) /\ Len(p) = Len(pool)
        /\ p[Len(pool)] = m /\ \A i \in 1..Len(pool) : i # Len(pool) => p[i] = pool[i]
    BY <1>2, <1>3, <2>1, <2>2
  <2>4. ASSUME NEW i \in 1..Len(pool), NEW j \in 1..Len(pool), i < j PROVE p[i] < p[j]
    <3>1. i # Len(pool) /\ p[i] = pool[i]
      BY <1>2, <2>3, <2>4
    <3>2. pool[i] < pool[j]
      BY <1>2, <2>4 DEF Ascends
    <3>3. CASE j = Len(pool)
      <4>1. p[j] = m /\ pool[j] < m /\ pool[i] \in Int /\ pool[j] \in Int
        BY <1>5, <1>6, <2>3, <3>3
      <4> QED
        BY <1>3, <3>1, <3>2, <4>1
    <3>4. CASE j # Len(pool)
      BY <2>3, <3>1, <3>2, <3>4
    <3> QED
      BY <3>3, <3>4
  <2>5. Ascends(p)
    BY <2>3, <2>4 DEF Ascends
  <2>6. \A k \in S : Len(p) >= 1 /\ k <= p[Len(p)]
    BY <1>3, <2>2, <2>3
  <2>7. \A i \in 1..Len(p) : p[i] \in S \cup (IF S # {} /\ \A k \in S : k < 0 THEN {0} ELSE {})
    <3>1. S # {}
      BY <1>5, <2>2
    <3> SUFFICES ASSUME NEW i \in 1..Len(pool) PROVE p[i] \in S \/ p[i] = m
      BY <1>4, <2>3, <3>1
    <3> QED
      BY <1>5, <2>3
  <2>10. ASSUME Cardinality(S) <= limit PROVE S # {} /\ \A k \in S : k < 0
    <3>1. ToSet(pool) = S
      BY <1>2, <2>10
    <3>2. ASSUME NEW k \in S PROVE k < m
      <4>1. PICK i \in 1..Len(pool) : pool[i] = k
        BY <1>2, <3>1, SetOf
      <4>2. i = Len(pool) \/ pool[i] < pool[Len(pool)]
        BY <1>2, <2>2, <4>1 DEF Ascends
      <4>3. pool[i] \in Int /\ pool[Len(pool)] \in Int /\ pool[Len(pool)] < m
        BY <1>5, <1>6, <2>2
      <4> QED
        BY <1>3, <4>1, <4>2, <4>3
    <3>3. m \notin S
      BY <1>3, <3>2
    <3>4. m = 0
      BY <1>3, <3>3
    <3> QED
      BY <1>5, <2>2, <3>2, <3>4
  <2>8. IsInjective(p)
    BY <2>3, <2>5, AscendsOnce
  <2>9. Len(p) <= limit
    BY <1>2, <2>3
  <2> QED
    BY <2>3, <2>5, <2>6, <2>7, <2>8, <2>9, <2>10
<1>7. CASE ~(pool # <<>> /\ pool[Len(pool)] < m)
  <2>1. p = pool
    BY <1>1, <1>7 DEF EndingWith
  <2>2. ASSUME NEW k \in S PROVE Len(pool) >= 1 /\ k <= pool[Len(pool)]
    <3>1. Len(pool) >= 1 /\ pool # <<>> /\ Len(pool) \in 1..Len(pool)
      BY <1>2
    <3>2. ~(pool[Len(pool)] < m) /\ pool[Len(pool)] \in Int
      BY <1>5, <1>7, <3>1
    <3> QED
      BY <1>3, <3>1, <3>2
  <2>3. IsInjective(pool)
    BY <1>2, AscendsOnce
  <2> QED
    BY <1>2, <1>5, <2>1, <2>2, <2>3
<1> QED
  BY <1>6, <1>7

(***************************************************************************)
(* Combinations of parents' keys.                                          *)
(***************************************************************************)
LEMMA Division ==
    ASSUME NEW i \in Nat, NEW d \in Nat, d > 0
    PROVE  i = d * (i \div d) + (i % d) /\ i % d < d /\ i \div d \in Nat /\ i % d \in Nat
  OBVIOUS

\* A remainder is the only one.
LEMMA RemainderIs ==
    ASSUME NEW i \in Nat, NEW d \in Nat, d > 0, NEW q \in Nat, NEW r \in Nat, i = d * q + r, r < d
    PROVE  i % d = r /\ i \div d = q
<1>1. i = d * (i \div d) + (i % d) /\ i % d < d /\ i \div d \in Nat /\ i % d \in Nat
  BY Division
<1>2. ASSUME NEW a \in Nat, NEW b \in Nat, NEW x \in Nat, NEW y \in Nat,
             d * a + x = d * b + y, x < d, y < d, a < b
      PROVE  FALSE
  <2>1. a + 1 <= b
    BY <1>2
  <2>2. d * (a + 1) <= d * b
    BY <2>1
  <2>3. d * (a + 1) = d * a + d
    OBVIOUS
  <2> QED
    BY <1>2, <2>2, <2>3
<1>3. q = i \div d
  BY <1>1, <1>2
<1> QED
  BY <1>1, <1>3

\* A number is its own remainder by a greater one.
LEMMA RemainderOfLess ==
    ASSUME NEW i \in Nat, NEW d \in Nat, i < d PROVE i % d = i
<1>1. d > 0 /\ i = d * 0 + i
  OBVIOUS
<1> QED
  BY <1>1, RemainderIs

\* A digit more is at most the whole.
LEMMA Products ==
    ASSUME NEW s \in Nat, NEW a \in Nat, NEW l \in Nat, a + 1 <= l
    PROVE  s * a \in Nat /\ s * l \in Nat /\ s * a + s <= s * l
<1>1. s * a \in Nat /\ s * l \in Nat
  OBVIOUS
<1>2. s * (a + 1) = s * a + s
  OBVIOUS
<1>3. s * (a + 1) <= s * l
  OBVIOUS
<1> QED
  BY <1>1, <1>2, <1>3

\* A place within a block is within the whole.
LEMMA PlaceWithin ==
    ASSUME NEW s, NEW i \in Nat, NEW y \in Nat, NEW z \in Nat, s \in Nat, i < s, y + s <= z
    PROVE  y + i \in Nat /\ y + i \in 0..(z - 1)
  OBVIOUS

\* A position modulo s * l is its place among s and its place among l.
LEMMA RemainderSplits ==
    ASSUME NEW i \in Nat, NEW s \in Nat, NEW l \in Nat, s > 0, l > 0
    PROVE  i % (s * l) = (i % s) + s * ((i \div s) % l)
<1> DEFINE q == i \div s
           r == i % s
           p == q \div l
           m == q % l
<1>1. i = s * q + r /\ q \in Nat /\ r \in Nat /\ r < s
  OBVIOUS
<1> HIDE DEF q, r
<1>2. q = l * p + m /\ p \in Nat /\ m \in Nat /\ m < l
  BY <1>1
<1> HIDE DEF p, m
<1>3. s * l \in Nat /\ s * l > 0
  OBVIOUS
<1>4. s * m + r \in Nat /\ s * m + r < s * l
  <2>1. m + 1 <= l
    BY <1>2
  <2>2. s * (m + 1) <= s * l
    BY <1>2, <2>1
  <2>3. s * (m + 1) = s * m + s
    BY <1>2
  <2>4. s * m \in Nat
    BY <1>2
  <2> QED
    BY <1>1, <2>2, <2>3, <2>4
<1>5. i = (s * l) * p + (s * m + r)
  <2>1. s * q = s * (l * p) + s * m
    BY <1>2
  <2>2. s * (l * p) = (s * l) * p
    BY <1>2
  <2> QED
    BY <1>1, <1>2, <2>1, <2>2
<1>6. i % (s * l) = s * m + r
  <2> DEFINE d == s * l
             e == s * m + r
  <2>1. d \in Nat /\ d > 0 /\ e \in Nat /\ e < d /\ i = d * p + e
    BY <1>3, <1>4, <1>5
  <2> HIDE DEF d, e
  <2>2. i % d = e
    BY <1>2, <2>1, RemainderIs
  <2> QED
    BY <2>2 DEF d, e
<1> QED
  BY <1>1, <1>2, <1>6 DEF q, r, m

\* So its place modulo s * l says both.
LEMMA RemainderTells ==
    ASSUME NEW i \in Nat, NEW s \in Nat, NEW l \in Nat, s > 0, l > 0
    PROVE  (i % (s * l)) % s = i % s /\ (i % (s * l)) \div s = (i \div s) % l
<1> DEFINE w == i % (s * l)
           r == i % s
           q == (i \div s) % l
<1>1. r \in Nat /\ r < s /\ i \div s \in Nat
  BY Division
<1>2. q \in Nat
  BY <1>1
<1>3. w = r + s * q
  BY RemainderSplits
<1> HIDE DEF w, r, q
<1>4. s * q \in Nat
  BY <1>2
<1>5. w \in Nat /\ w = s * q + r
  BY <1>1, <1>3, <1>4
<1>6. w % s = r /\ w \div s = q
  BY <1>1, <1>2, <1>5, RemainderIs
<1> QED
  BY <1>6 DEF w, r, q

\* f starts at b and takes a step from each number to the next.
Goes(f, b, step, k) == f[0] = b /\ \A i \in 1..k : f[i] = step[i, f[i - 1]]

\* It can be taken one number further.
LEMMA GoesOn ==
    ASSUME NEW T, NEW b \in T, NEW n \in Nat, NEW step \in [(1..n) \X T -> T],
           NEW k \in 1..n, NEW f \in [0..(k - 1) -> T], Goes(f, b, step, k - 1)
    PROVE  \E g \in [0..k -> T] : Goes(g, b, step, k)
<1> DEFINE x == step[k, f[k - 1]]
<1>1. k \in Nat /\ k >= 1 /\ k - 1 \in 0..(k - 1)
  OBVIOUS
<1>2. f[k - 1] \in T
  BY <1>1
<1>3. x \in T
  BY <1>2
<1> DEFINE g == [i \in 0..k |-> IF i = k THEN x ELSE f[i]]
<1>4. \A i \in 0..k : i # k => i \in 0..(k - 1)
  BY <1>1
<1>5. 0 \in 0..k /\ \A i \in 1..k : i \in 0..k /\ i - 1 \in 0..k /\ i - 1 # k
  BY <1>1
<1>6. g \in [0..k -> T]
  <2> HIDE DEF x
  <2> QED
    BY <1>3, <1>4
<1>7. \A i \in 0..k : g[i] = IF i = k THEN x ELSE f[i]
  <2> HIDE DEF x
  <2> QED
    OBVIOUS
<1>8. k # 0 /\ \A i \in 1..k : i # k => i \in 1..(k - 1)
  OBVIOUS
<1> HIDE DEF g, x
<1>9. g[0] = b
  <2>1. g[0] = f[0]
    BY <1>8, <1>5, <1>7
  <2> QED
    BY <2>1 DEF Goes
<1>10. ASSUME NEW i \in 1..k PROVE g[i] = step[i, g[i - 1]]
  <2>1. g[i - 1] = f[i - 1]
    BY <1>5, <1>7
  <2>2. CASE i = k
    <3>1. g[i] = x
      BY <1>5, <1>7, <2>2
    <3> QED
      BY <2>1, <2>2, <3>1 DEF x
  <2>3. CASE i # k
    <3>1. g[i] = f[i] /\ i \in 1..(k - 1)
      BY <1>8, <1>5, <1>7, <2>3
    <3> QED
      BY <2>1, <3>1 DEF Goes
  <2> QED
    BY <2>2, <2>3
<1> QED
  BY <1>6, <1>9, <1>10 DEF Goes

\* Such a function exists.
LEMMA Recursion ==
    ASSUME NEW T, NEW b \in T, NEW n \in Nat, NEW step \in [(1..n) \X T -> T]
    PROVE  \E f \in [0..n -> T] : Goes(f, b, step, n)
<1> DEFINE Fine(k) == \E f \in [0..k -> T] : Goes(f, b, step, k)
           C == {k \in 0..n : ~Fine(k)}
<1> SUFFICES ASSUME C # {} PROVE FALSE
  OBVIOUS
<1>1. C \in SUBSET Nat
  <2> HIDE DEF Fine
  <2> QED
    OBVIOUS
<1>2. PICK k \in C : \A m \in C : k <= m
  <2> HIDE DEF C
  <2> QED
    BY <1>1, LeastNat
<1>3. k \in 0..n /\ ~Fine(k) /\ \A m \in 0..n : m < k => Fine(m)
  <2> HIDE DEF Fine
  <2> QED
    BY <1>2
<1>4. CASE k = 0
  <2> DEFINE f == [i \in {0} |-> b]
  <2>1. f \in [0..0 -> T] /\ Goes(f, b, step, 0)
    <3>1. 0..0 = {0} /\ 1..0 = {}
      OBVIOUS
    <3> QED
      BY <3>1 DEF Goes
  <2> HIDE DEF f
  <2> QED
    BY <1>3, <1>4, <2>1
<1>5. CASE k # 0
  <2>1. k \in 1..n /\ k - 1 \in 0..n /\ k - 1 < k
    BY <1>3, <1>5
  <2>2. Fine(k - 1)
    <3> HIDE DEF Fine
    <3> QED
      BY <1>3, <2>1
  <2>3. PICK f \in [0..(k - 1) -> T] : Goes(f, b, step, k - 1)
    BY <2>2
  <2> QED
    BY <1>3, <2>1, <2>3, GoesOn
<1> QED
  BY <1>4, <1>5

\* The pools of t's parents: the recursive function of Strides exists.
Widths(t) == [c \in 1..Len(Parents[t]) |-> Len(Pool(t, c))]

\* What the recursive function of Strides computes, for natural widths.
LEMMA StridesAre ==
    ASSUME NEW t, NEW n \in Nat, Len(Parents[t]) = n, Widths(t) \in [1..n -> Nat]
    PROVE  /\ Strides(t) \in [0..n -> Nat] /\ Strides(t)[0] = 1
           /\ \A c \in 1..n : Strides(t)[c] = Strides(t)[c - 1] * Widths(t)[c]
<1> DEFINE W == Widths(t)
           step == [p \in (1..n) \X Nat |-> p[2] * W[p[1]]]
           Multiplies(g) == g = [c \in 0..n |-> IF c = 0 THEN 1 ELSE g[c - 1] * Len(Pool(t, c))]
           product == CHOOSE g : Multiplies(g)
<1>1. Strides(t) = product
  BY DEF Strides
<1>2. \A c \in 1..n : W[c] = Len(Pool(t, c)) /\ W[c] \in Nat
  BY DEF Widths
<1> HIDE DEF W
<1>3. step \in [(1..n) \X Nat -> Nat]
  BY <1>2
<1>4. \A c \in 1..n, x \in Nat : step[c, x] = x * W[c]
  OBVIOUS
<1> HIDE DEF step
<1>5. PICK f \in [0..n -> Nat] : Goes(f, 1, step, n)
  BY <1>3, Recursion
<1>6. f[0] = 1 /\ \A c \in 1..n : f[c] = f[c - 1] * W[c]
  <2> SUFFICES ASSUME NEW c \in 1..n PROVE f[c] = f[c - 1] * W[c]
    BY <1>5 DEF Goes
  <2>1. c - 1 \in 0..n
    OBVIOUS
  <2>2. f[c - 1] \in Nat
    BY <2>1
  <2>3. f[c] = step[c, f[c - 1]]
    BY <1>5 DEF Goes
  <2> QED
    BY <1>4, <2>2, <2>3
<1>7. Multiplies(f)
  <2> DEFINE g == [c \in 0..n |-> IF c = 0 THEN 1 ELSE f[c - 1] * Len(Pool(t, c))]
  <2>1. ASSUME NEW c \in 0..n PROVE f[c] = g[c]
    <3>1. c # 0 => c \in 1..n
      OBVIOUS
    <3> QED
      BY <1>2, <1>6, <3>1
  <2>2. f = g
    BY <2>1
  <2> QED
    BY <2>2
<1>8. Multiplies(product)
  <2> HIDE DEF Multiplies
  <2> QED
    BY <1>7
<1>9. product[0] = 1 /\ \A c \in 1..n : product[c] = product[c - 1] * W[c]
  <2>1. 0 \in 0..n /\ \A c \in 1..n : c \in 0..n /\ c # 0
    OBVIOUS
  <2> HIDE DEF product
  <2>2. \A c \in 0..n : product[c] = IF c = 0 THEN 1 ELSE product[c - 1] * Len(Pool(t, c))
    BY <1>8
  <2> QED
    BY <1>2, <2>1, <2>2
<1> HIDE DEF product, Multiplies
<1>10. \A c \in 0..n : product[c] \in Nat
  <2> DEFINE G == {c \in 0..n : product[c] \in Nat}
  <2>1. 0 \in G
    BY <1>9
  <2>2. ASSUME NEW c \in 1..n, c - 1 \in G PROVE c \in G
    <3>1. product[c - 1] \in Nat /\ W[c] \in Nat /\ product[c] = product[c - 1] * W[c]
      BY <1>2, <1>9, <2>2
    <3>2. product[c] \in Nat
      BY <3>1
    <3> QED
      BY <3>2
  <2> HIDE DEF G
  <2>3. 0..n \subseteq G
    BY <2>1, <2>2, UpTo
  <2> QED
    BY <2>3 DEF G
<1>11. product \in [0..n -> Nat]
  <2>1. product = [c \in 0..n |-> IF c = 0 THEN 1 ELSE product[c - 1] * Len(Pool(t, c))]
    BY <1>8 DEF Multiplies
  <2>2. DOMAIN product = 0..n /\ product = [c \in 0..n |-> product[c]]
    <3> DEFINE E(c) == IF c = 0 THEN 1 ELSE product[c - 1] * Len(Pool(t, c))
    <3>1. product = [c \in 0..n |-> E(c)]
      BY <2>1
    <3> HIDE DEF E
    <3> QED
      BY <3>1
  <2> QED
    BY <1>10, <2>2
<1> QED
  BY <1>1, <1>9, <1>11 DEF W

\* Where there are combinations, every pool has keys.
LEMMA FactorsPositive ==
    ASSUME NEW n \in Nat, NEW W \in [1..n -> Nat], NEW f \in [0..n -> Nat],
           \A c \in 1..n : f[c] = f[c - 1] * W[c], f[n] > 0
    PROVE  (\A c \in 0..n : f[c] > 0) /\ \A c \in 1..n : W[c] > 0
<1>1. ASSUME NEW a \in Nat, NEW b \in Nat, a * b > 0 PROVE a > 0 /\ b > 0
  <2>1. a = 0 => a * b = 0
    OBVIOUS
  <2>2. b = 0 => a * b = 0
    OBVIOUS
  <2> QED
    BY <1>1, <2>1, <2>2
<1> DEFINE G == {d \in 0..n : f[n - d] > 0}
<1>2. 0 \in G
  OBVIOUS
<1>3. ASSUME NEW d \in 1..n, d - 1 \in G PROVE d \in G
  <2> DEFINE c == n - d + 1
  <2>1. c \in 1..n /\ n - (d - 1) = c /\ n - d = c - 1 /\ c - 1 \in 0..n /\ c \in 0..n
    OBVIOUS
  <2>2. f[c] > 0
    BY <1>3, <2>1
  <2> HIDE DEF c
  <2>3. f[c - 1] \in Nat /\ W[c] \in Nat /\ f[c] = f[c - 1] * W[c]
    BY <2>1
  <2>4. f[c - 1] * W[c] > 0
    BY <2>2, <2>3
  <2>5. f[c - 1] > 0
    BY <1>1, <2>3, <2>4
  <2>6. f[n - d] > 0 /\ d \in 0..n
    BY <2>1, <2>5
  <2> QED
    BY <2>6
<1> HIDE DEF G
<1>4. 0..n \subseteq G
  BY <1>2, <1>3, UpTo
<1>5. ASSUME NEW c \in 0..n PROVE f[c] > 0
  <2>1. n - c \in 0..n /\ n - (n - c) = c
    OBVIOUS
  <2> QED
    BY <1>4, <2>1 DEF G
<1>6. ASSUME NEW c \in 1..n PROVE W[c] > 0
  <2>1. c \in 0..n /\ c - 1 \in 0..n
    OBVIOUS
  <2>2. f[c - 1] \in Nat /\ W[c] \in Nat /\ f[c - 1] * W[c] > 0
    BY <1>5, <2>1
  <2> QED
    BY <1>1, <2>2
<1> QED
  BY <1>5, <1>6

\* Different positions are different combinations, made of the parents' keys.
PoolsTyped(t) ==
    /\ Parents[t] \in Seq(Tables)
    /\ \A c \in 1..Len(Parents[t]) : Pool(t, c) \in Seq(Int) /\ IsInjective(Pool(t, c))

\* Every position below Combinations is another combination of parents' keys.
LEMMA CombinationsDiffer ==
    ASSUME NEW t, PoolsTyped(t)
    PROVE  /\ Combinations(t) \in Nat
           /\ \A i \in 0..(Combinations(t) - 1) :
                /\ Combination(t, i) \in Seq(Int) /\ Len(Combination(t, i)) = Len(Parents[t])
                /\ \A c \in 1..Len(Parents[t]) : Combination(t, i)[c] \in ToSet(Pool(t, c))
           /\ \A i, j \in 0..(Combinations(t) - 1) : Combination(t, i) = Combination(t, j) => i = j
<1> DEFINE n == Len(Parents[t])
           W == Widths(t)
           S == Strides(t)
<1>1. n \in Nat /\ DOMAIN Parents[t] = 1..n
  BY DEF PoolsTyped
<1>2. W \in [1..n -> Nat] /\ \A c \in 1..n : W[c] = Len(Pool(t, c))
  BY DEF PoolsTyped, Widths
<1>3. S \in [0..n -> Nat] /\ S[0] = 1 /\ \A c \in 1..n : S[c] = S[c - 1] * W[c]
  BY <1>1, <1>2, StridesAre
<1>4. Combinations(t) = S[n] /\ S[n] \in Nat
  BY <1>1, <1>3 DEF Combinations
<1>5. \A i : Combination(t, i) = [c \in 1..n |-> Pool(t, c)[1 + ((i \div S[c - 1]) % Len(Pool(t, c)))]]
  BY <1>1 DEF Combination
<1> HIDE DEF n, W, S
<1>6. ASSUME S[n] > 0 PROVE (\A c \in 0..n : S[c] > 0) /\ \A c \in 1..n : W[c] > 0
  BY <1>1, <1>2, <1>3, <1>6, FactorsPositive
<1>7. ASSUME NEW i \in 0..(S[n] - 1), NEW c \in 1..n
      PROVE  /\ (i \div S[c - 1]) % W[c] \in 0..(W[c] - 1)
             /\ S[c - 1] \in Nat /\ S[c - 1] > 0 /\ W[c] \in Nat /\ W[c] > 0
             /\ Combination(t, i)[c] = Pool(t, c)[1 + ((i \div S[c - 1]) % W[c])]
             /\ Combination(t, i)[c] \in ToSet(Pool(t, c)) /\ Combination(t, i)[c] \in Int
  <2>1. S[n] > 0 /\ c - 1 \in 0..n /\ i \in Nat
    BY <1>1, <1>4
  <2>2. S[c - 1] \in Nat /\ S[c - 1] > 0 /\ W[c] \in Nat /\ W[c] > 0
    BY <1>2, <1>3, <1>6, <2>1
  <2> DEFINE q == i \div S[c - 1]
  <2>3. q \in Nat
    BY <2>1, <2>2, Division
  <2> HIDE DEF q
  <2>4. q % W[c] \in 0..(W[c] - 1)
    BY <2>2, <2>3
  <2>5. Combination(t, i)[c] = Pool(t, c)[1 + (q % W[c])]
    <3> DEFINE E(d) == Pool(t, d)[1 + ((i \div S[d - 1]) % Len(Pool(t, d)))]
    <3>1. Combination(t, i) = [d \in 1..n |-> E(d)]
      BY <1>5
    <3>2. Combination(t, i)[c] = E(c)
      <4> HIDE DEF E
      <4> QED
        BY <3>1
    <3>3. Len(Pool(t, c)) = W[c]
      BY <1>2
    <3> QED
      BY <3>2, <3>3 DEF q
  <2>6. 1 + (q % W[c]) \in 1..Len(Pool(t, c)) /\ Pool(t, c) \in Seq(Int)
    <3>1. W[c] = Len(Pool(t, c))
      BY <1>2
    <3>2. 1 + (q % W[c]) \in 1..W[c]
      BY <2>2, <2>4
    <3> QED
      BY <3>1, <3>2 DEF PoolsTyped, n
  <2>7. Pool(t, c)[1 + (q % W[c])] \in ToSet(Pool(t, c)) /\ Pool(t, c)[1 + (q % W[c])] \in Int
    BY <2>6, SetOf
  <2> QED
    BY <2>2, <2>4, <2>5, <2>7 DEF q
<1>8. ASSUME NEW i \in 0..(S[n] - 1)
      PROVE  Combination(t, i) \in Seq(Int) /\ Len(Combination(t, i)) = n
  <2>1. \A c \in 1..n : Combination(t, i)[c] \in Int
    BY <1>7
  <2>2. Combination(t, i) = [c \in 1..n |-> Combination(t, i)[c]]
    <3> DEFINE E(c) == Pool(t, c)[1 + ((i \div S[c - 1]) % Len(Pool(t, c)))]
    <3>1. Combination(t, i) = [c \in 1..n |-> E(c)]
      BY <1>5
    <3> HIDE DEF E
    <3> QED
      BY <3>1
  <2> QED
    BY <1>1, <2>1, <2>2
<1>9. ASSUME NEW i \in 0..(S[n] - 1), NEW j \in 0..(S[n] - 1), Combination(t, i) = Combination(t, j)
      PROVE  i = j
  <2>1. i \in Nat /\ j \in Nat /\ S[n] > 0 /\ i < S[n] /\ j < S[n]
    BY <1>4
  <2> DEFINE G == {c \in 0..n : i % S[c] = j % S[c]}
  <2>2. 0 \in G
    <3>1. i % 1 = 0 /\ j % 1 = 0
      BY <2>1
    <3> QED
      BY <1>1, <1>3, <3>1
  <2>3. ASSUME NEW c \in 1..n, c - 1 \in G PROVE c \in G
    <3> DEFINE s == S[c - 1]
               l == W[c]
               a == (i \div s) % l
               b == (j \div s) % l
    <3>1. i % s = j % s
      BY <2>3
    <3>2. s \in Nat /\ s > 0 /\ l \in Nat /\ l > 0 /\ S[c] = s * l /\ c \in 0..n
      <4>1. s \in Nat /\ s > 0 /\ l \in Nat /\ l > 0
        BY <1>7
      <4>2. S[c] = s * l
        BY <1>3
      <4>3. c \in 0..n
        BY <1>1
      <4> QED
        BY <4>1, <4>2, <4>3
    <3>3. /\ a \in 0..(l - 1) /\ b \in 0..(l - 1)
          /\ Combination(t, i)[c] = Pool(t, c)[1 + a] /\ Combination(t, j)[c] = Pool(t, c)[1 + b]
      BY <1>7
    <3>4. a = b
      <4> HIDE DEF a, b
      <4>1. Pool(t, c)[1 + a] = Pool(t, c)[1 + b]
        BY <1>9, <3>3
      <4>2. Pool(t, c) \in Seq(Int) /\ IsInjective(Pool(t, c)) /\ Len(Pool(t, c)) = l
        BY <1>2 DEF PoolsTyped, n
      <4>3. DOMAIN Pool(t, c) = 1..l
        BY <4>2
      <4>4. 1 + a \in 1..l /\ 1 + b \in 1..l
        BY <3>2, <3>3
      <4>5. 1 + a = 1 + b
        BY <4>1, <4>2, <4>3, <4>4 DEF IsInjective
      <4> QED
        BY <3>3, <4>5
    <3> HIDE DEF s, l
    <3>5. i % (s * l) = (i % s) + s * a /\ j % (s * l) = (j % s) + s * b
      BY <2>1, <3>2, RemainderSplits
    <3>6. i % S[c] = j % S[c]
      BY <3>1, <3>2, <3>4, <3>5
    <3> QED
      BY <3>2, <3>6
  <2> HIDE DEF G
  <2>4. 0..n \subseteq G
    BY <1>1, <2>2, <2>3, UpTo
  <2>5. i % S[n] = j % S[n]
    BY <1>1, <2>4 DEF G
  <2>6. i % S[n] = i /\ j % S[n] = j
    BY <1>4, <2>1
  <2> QED
    BY <2>5, <2>6
<1> QED
  BY <1>4, <1>7, <1>8, <1>9 DEF n

\* Every combination of keys in the pools has a position: the places of its keys
\* are the digits of a number.
LEMMA EveryCombination ==
    ASSUME NEW t, PoolsTyped(t), NEW x, x = [c \in 1..Len(Parents[t]) |-> x[c]],
           \A c \in 1..Len(Parents[t]) : x[c] \in ToSet(Pool(t, c))
    PROVE  \E i \in 0..(Combinations(t) - 1) : Combination(t, i) = x
<1> DEFINE n == Len(Parents[t])
           W == Widths(t)
           S == Strides(t)
<1>1. n \in Nat /\ DOMAIN Parents[t] = 1..n
  BY DEF PoolsTyped
<1>2. W \in [1..n -> Nat] /\ \A c \in 1..n : W[c] = Len(Pool(t, c))
  BY DEF PoolsTyped, Widths
<1>3. S \in [0..n -> Nat] /\ S[0] = 1 /\ \A c \in 1..n : S[c] = S[c - 1] * W[c]
  BY <1>1, <1>2, StridesAre
<1>4. Combinations(t) = S[n] /\ S[n] \in Nat
  BY <1>1, <1>3 DEF Combinations
<1>5. \A i : Combination(t, i) = [c \in 1..n |-> Pool(t, c)[1 + ((i \div S[c - 1]) % Len(Pool(t, c)))]]
  BY <1>1 DEF Combination
<1>6. ASSUME NEW c \in 1..n
      PROVE  W[c] \in Nat /\ W[c] > 0 /\ \E a \in 0..(W[c] - 1) : Pool(t, c)[1 + a] = x[c]
  <2>1. Pool(t, c) \in Seq(Int) /\ x[c] \in ToSet(Pool(t, c)) /\ W[c] = Len(Pool(t, c)) /\ W[c] \in Nat
    BY <1>2 DEF PoolsTyped
  <2>2. PICK p \in 1..W[c] : Pool(t, c)[p] = x[c]
    BY <2>1, SetOf
  <2> DEFINE a == p - 1
  <2>3. a \in 0..(W[c] - 1) /\ 1 + a = p
    BY <2>1
  <2> HIDE DEF a
  <2>4. Pool(t, c)[1 + a] = x[c]
    BY <2>2, <2>3
  <2> QED
    BY <2>1, <2>3, <2>4
<1>r. x = [c \in 1..n |-> x[c]]
  OBVIOUS
<1> HIDE DEF n, W, S
<1>7. \A c \in 0..n : S[c] \in Nat /\ S[c] > 0
  <2> DEFINE G == {c \in 0..n : S[c] > 0}
  <2>1. 0 \in G
    BY <1>1, <1>3
  <2>2. ASSUME NEW c \in 1..n, c - 1 \in G PROVE c \in G
    <3> DEFINE s == S[c - 1]
               l == W[c]
    <3>1. c \in 0..n /\ c - 1 \in 0..n
      BY <1>1
    <3>2. s \in Nat /\ s > 0 /\ l \in Nat /\ l > 0 /\ S[c] = s * l
      BY <1>3, <1>6, <2>2, <3>1
    <3> HIDE DEF s, l
    <3>3. s * l > 0
      BY <3>2
    <3> QED
      BY <3>1, <3>2, <3>3
  <2>3. 0..n \subseteq G
    <3> HIDE DEF G
    <3> QED
      BY <1>1, <2>1, <2>2, UpTo
  <2> QED
    BY <1>3, <2>3
<1> DEFINE Digit(i, c) == (i \div S[c - 1]) % W[c]
<1>8. ASSUME NEW c \in 1..n, NEW i \in Nat
      PROVE  (i % S[c]) % S[c - 1] = i % S[c - 1] /\ (i % S[c]) \div S[c - 1] = Digit(i, c)
  <2> DEFINE s == S[c - 1]
             l == W[c]
  <2>1. s \in Nat /\ s > 0 /\ l \in Nat /\ l > 0 /\ S[c] = s * l
    BY <1>1, <1>3, <1>6, <1>7
  <2> HIDE DEF s, l
  <2>2. (i % (s * l)) % s = i % s /\ (i % (s * l)) \div s = (i \div s) % l
    BY <2>1, RemainderTells
  <2> QED
    BY <2>1, <2>2 DEF s, l
<1> HIDE DEF Digit
<1>9. ASSUME NEW c \in 0..n, NEW i \in Nat, NEW j \in Nat, i % S[c] = j % S[c]
      PROVE  \A d \in 1..c : Digit(i, d) = Digit(j, d)
  <2> DEFINE G == {e \in 0..c : i % S[c - e] = j % S[c - e]}
  <2>1. c \in Nat /\ 0 \in G
    BY <1>1, <1>9
  <2>2. ASSUME NEW e \in 1..c, e - 1 \in G PROVE e \in G
    <3> DEFINE d == c - (e - 1)
    <3>1. d \in 1..n /\ d - 1 = c - e /\ e \in 0..c
      BY <1>1, <2>1
    <3>2. i % S[d] = j % S[d]
      BY <2>2
    <3> HIDE DEF d
    <3>3. i % S[d - 1] = j % S[d - 1]
      BY <1>8, <3>1, <3>2
    <3> QED
      BY <3>1, <3>3
  <2> HIDE DEF G
  <2>3. 0..c \subseteq G
    BY <2>1, <2>2, UpTo
  <2>4. ASSUME NEW d \in 1..c PROVE Digit(i, d) = Digit(j, d)
    <3>1. c - d \in 0..c /\ c - (c - d) = d /\ d \in 1..n
      BY <1>1, <2>1
    <3>2. c - d \in G
      BY <2>3, <3>1
    <3>3. i % S[d] = j % S[d]
      BY <3>1, <3>2 DEF G
    <3>4. Digit(i, d) = (i % S[d]) \div S[d - 1] /\ Digit(j, d) = (j % S[d]) \div S[d - 1]
      BY <1>8, <3>1
    <3> QED
      BY <3>3, <3>4
  <2> QED
    BY <2>4
<1> DEFINE Spells(i, c) == \A d \in 1..c : Pool(t, d)[1 + Digit(i, d)] = x[d]
           H == {c \in 0..n : \E i \in 0..(S[c] - 1) : Spells(i, c)}
<1>10. 0 \in H
  <2>1. 0 \in 0..n /\ 0 \in 0..(S[0] - 1) /\ 1..0 = {}
    BY <1>1, <1>3
  <2>2. Spells(0, 0)
    BY <2>1
  <2> HIDE DEF Spells
  <2> QED
    BY <2>1, <2>2
<1>11. ASSUME NEW c \in 1..n, c - 1 \in H PROVE c \in H
  <2> DEFINE s == S[c - 1]
             l == W[c]
  <2>1. s \in Nat /\ s > 0 /\ l \in Nat /\ l > 0 /\ S[c] = s * l /\ c \in 0..n /\ c - 1 \in 0..n
    BY <1>1, <1>3, <1>6, <1>7
  <2>2. PICK i \in 0..(s - 1) : Spells(i, c - 1)
    BY <1>11
  <2>3. PICK a \in 0..(l - 1) : Pool(t, c)[1 + a] = x[c]
    BY <1>6
  <2> DEFINE j == s * a + i
  <2> HIDE DEF s, l, j, Spells
  <2>4. i \in Nat /\ i < s /\ a \in Nat /\ a + 1 <= l
    BY <2>1
  <2>5. s * a \in Nat /\ s * l \in Nat /\ s * a + s <= s * l
    BY <2>1, <2>4, Products
  <2>6. j \in Nat /\ j = s * a + i /\ j \in 0..(S[c] - 1)
    <3> DEFINE y == s * a
               z == s * l
    <3>1. y \in Nat /\ z \in Nat /\ y + s <= z /\ j = y + i /\ S[c] = z
      BY <2>1, <2>4, <2>5 DEF j
    <3> HIDE DEF y, z
    <3>2. j \in Nat /\ j \in 0..(z - 1)
      BY <2>1, <2>4, <3>1, PlaceWithin
    <3> QED
      BY <3>1, <3>2 DEF j
  <2>7. j % s = i /\ j \div s = a /\ i % s = i
    <3>1. j % s = i /\ j \div s = a
      BY <2>1, <2>4, <2>6, RemainderIs
    <3>2. i % s = i
      BY <2>1, <2>4, RemainderOfLess
    <3> QED
      BY <3>1, <3>2
  <2>8. Digit(j, c) = a
    <3>1. a \in Nat /\ l \in Nat /\ a < l
      BY <2>1, <2>4
    <3>2. a % l = a
      BY <3>1, RemainderOfLess
    <3> QED
      BY <2>7, <3>2 DEF Digit, s, l
  <2>9. ASSUME NEW d \in 1..(c - 1) PROVE Digit(j, d) = Digit(i, d)
    <3>1. j % S[c - 1] = i % S[c - 1]
      BY <2>7 DEF s
    <3> QED
      BY <1>9, <2>1, <2>4, <2>6, <3>1
  <2>10. ASSUME NEW d \in 1..c PROVE Pool(t, d)[1 + Digit(j, d)] = x[d]
    <3>1. CASE d = c
      BY <2>3, <2>8, <3>1
    <3>2. CASE d # c
      <4>1. d \in 1..(c - 1)
        BY <3>2
      <4>2. Pool(t, d)[1 + Digit(i, d)] = x[d]
        BY <2>2, <4>1 DEF Spells
      <4> QED
        BY <2>9, <4>1, <4>2
    <3> QED
      BY <3>1, <3>2
  <2>11. Spells(j, c)
    BY <2>10 DEF Spells
  <2> QED
    BY <2>1, <2>6, <2>11
<1>12. n \in H
  <2>1. 0..n \subseteq H
    <3> HIDE DEF H
    <3> QED
      BY <1>1, <1>10, <1>11, UpTo
  <2>2. n \in 0..n
    BY <1>1
  <2> HIDE DEF H
  <2> QED
    BY <2>1, <2>2
<1>13. PICK i \in 0..(S[n] - 1) : Spells(i, n)
  <2> HIDE DEF Spells
  <2> QED
    BY <1>12
<1>14. Combination(t, i) = x
  <2> DEFINE E(c) == Pool(t, c)[1 + ((i \div S[c - 1]) % Len(Pool(t, c)))]
  <2>1. Combination(t, i) = [c \in 1..n |-> E(c)]
    BY <1>5
  <2>2. ASSUME NEW c \in 1..n PROVE E(c) = x[c]
    <3>1. Pool(t, c)[1 + Digit(i, c)] = x[c]
      BY <1>13
    <3>2. Len(Pool(t, c)) = W[c]
      BY <1>2
    <3> QED
      BY <3>1, <3>2 DEF Digit
  <2> HIDE DEF E
  <2> QED
    BY <1>r, <2>1, <2>2
<1> QED
  BY <1>4, <1>13, <1>14

(***************************************************************************)
(* Tables and rows.                                                        *)
(***************************************************************************)
LEMMA TableFacts ==
    ASSUME NEW t \in Tables
    PROVE  /\ Parents[t] \in Seq(Tables) /\ DOMAIN Parents[t] = 1..Len(Parents[t])
           /\ ParentsOf(t) \subseteq Tables /\ t \notin ParentsOf(t)
           /\ \A c \in 1..Len(Parents[t]) : Parents[t][c] \in ParentsOf(t)
           /\ \A u \in ParentsOf(t) : Kind[u] # "junction" /\ KeyType(u) = Int
           /\ Kind[t] \in {"sequence", "random", "identifying", "junction"}
           /\ KeyType(t) = IF Kind[t] = "junction" THEN Seq(Int) ELSE Int
           /\ Adds[t] \in Seq(Nat \ {0})
           /\ ~Enumerated(t) => Kind[t] \in {"sequence", "random"}
           /\ Enumerated(t) <=> Kind[t] \in {"identifying", "junction"}
<1>1. Parents[t] \in Seq(Tables) /\ Kind[t] \in {"sequence", "random", "identifying", "junction"} /\ Adds[t] \in Seq(Nat \ {0})
  BY KeyStreamAssumption
<1>2. DOMAIN Parents[t] = 1..Len(Parents[t])
  BY <1>1
<1>3. ParentsOf(t) \subseteq Tables /\ \A c \in 1..Len(Parents[t]) : Parents[t][c] \in ParentsOf(t)
  BY <1>1, SetOf DEF ParentsOf
<1>4. \A u \in ParentsOf(t) : \E c \in DOMAIN Parents[t] : Parents[t][c] = u
  BY <1>1, <1>2, SetOf DEF ParentsOf
<1>5. (\A c \in DOMAIN Parents[t] : Parents[t][c] # t) /\ \A c \in DOMAIN Parents[t] : Kind[Parents[t][c]] # "junction"
  BY KeyStreamAssumption
<1> QED
  BY <1>1, <1>2, <1>3, <1>4, <1>5 DEF KeyType, Enumerated

\* A one-to-one table has one parent.
LEMMA OneParent == \A t \in Tables : Kind[t] = "identifying" => Len(Parents[t]) = 1
  BY KeyStreamAssumption

\* The key a table makes of the combination at a position.
KeyAt(t, i) == KeyOf(t, Combination(t, i))

\* Every position makes another key.
LEMMA KeysAtDiffer ==
    ASSUME NEW t \in Tables, Enumerated(t), PoolsTyped(t)
    PROVE  /\ \A i \in 0..(Combinations(t) - 1) : KeyAt(t, i) \in KeyType(t)
           /\ \A i, j \in 0..(Combinations(t) - 1) : KeyAt(t, i) = KeyAt(t, j) => i = j
<1>1. \/ Kind[t] = "junction"
      \/ Kind[t] = "identifying" /\ Len(Parents[t]) = 1
  BY OneParent DEF Enumerated
<1>2. \A i \in 0..(Combinations(t) - 1) :
        Combination(t, i) \in Seq(Int) /\ Len(Combination(t, i)) = Len(Parents[t])
  BY CombinationsDiffer
<1>3. \A i, j \in 0..(Combinations(t) - 1) : Combination(t, i) = Combination(t, j) => i = j
  BY CombinationsDiffer
<1>4. CASE Kind[t] = "junction"
  <2>1. \A i : KeyAt(t, i) = Combination(t, i)
    BY <1>4 DEF KeyAt, KeyOf
  <2> QED
    BY <1>2, <1>3, <1>4, <2>1 DEF KeyType
<1>5. CASE Kind[t] = "identifying" /\ Len(Parents[t]) = 1
  <2>1. KeyType(t) = Int /\ \A i : KeyAt(t, i) = Combination(t, i)[1]
    BY <1>5 DEF KeyAt, KeyOf, KeyType
  <2>2. \A x \in Seq(Int) : Len(x) = 1 => x[1] \in Int /\ x = <<x[1]>>
    OBVIOUS
  <2>3. \A i \in 0..(Combinations(t) - 1) : KeyAt(t, i) \in Int /\ Combination(t, i) = <<KeyAt(t, i)>>
    BY <1>2, <1>5, <2>1, <2>2
  <2> QED
    BY <1>3, <2>1, <2>3
<1> QED
  BY <1>1, <1>4, <1>5

\* The limits of a run.
LEMMA Limits == /\ PoolLimit \in Nat \ {0} /\ ChunkRows \in Nat \ {0} /\ NumberSpace \in Nat \ {0}
                /\ SelfRefDepth \in Nat
  BY KeyStreamAssumption

\* The keys of rows, in order and as a set.
LEMMA KeysInIs ==
    ASSUME NEW t, NEW rows \in Seq(RowType(t))
    PROVE  /\ KeysIn(rows) \in Seq(KeyType(t)) /\ Len(KeysIn(rows)) = Len(rows)
           /\ \A i \in 1..Len(rows) : KeysIn(rows)[i] = rows[i].key /\ rows[i].key \in KeyType(t)
           /\ ToSet(KeysIn(rows)) = Keys(ToSet(rows))
<1>1. \A i \in 1..Len(rows) : rows[i] \in RowType(t)
  OBVIOUS
<1>2. \A i \in 1..Len(rows) : rows[i].key \in KeyType(t)
  BY <1>1 DEF RowType
<1>3. DOMAIN rows = 1..Len(rows) /\ Len(rows) \in Nat
  OBVIOUS
<1>4. KeysIn(rows) = [i \in 1..Len(rows) |-> rows[i].key]
  BY <1>3 DEF KeysIn
<1>5. KeysIn(rows) \in Seq(KeyType(t)) /\ Len(KeysIn(rows)) = Len(rows)
  BY <1>2, <1>3, <1>4
<1>6. \A i \in 1..Len(rows) : KeysIn(rows)[i] = rows[i].key
  BY <1>4
<1>7. ToSet(KeysIn(rows)) = Keys(ToSet(rows))
  <2>1. DOMAIN KeysIn(rows) = 1..Len(rows)
    BY <1>4
  <2> QED
    BY <1>3, <1>6, <2>1 DEF ToSet, Keys
<1> QED
  BY <1>2, <1>5, <1>6, <1>7

\* The keys of rows that follow others.
LEMMA KeysInConcat ==
    ASSUME NEW t, NEW a \in Seq(RowType(t)), NEW b \in Seq(RowType(t))
    PROVE  a \o b \in Seq(RowType(t)) /\ KeysIn(a \o b) = KeysIn(a) \o KeysIn(b)
<1> DEFINE q == a \o b
           k == KeysIn(a) \o KeysIn(b)
<1>1. /\ q \in Seq(RowType(t)) /\ Len(q) = Len(a) + Len(b) /\ Len(a) \in Nat /\ Len(b) \in Nat
      /\ \A i \in 1..Len(a) : q[i] = a[i]
      /\ \A i \in 1..Len(b) : q[Len(a) + i] = b[i]
  BY Concat
<1>2. KeysIn(a) \in Seq(KeyType(t)) /\ KeysIn(b) \in Seq(KeyType(t))
  BY KeysInIs
<1>3. /\ k \in Seq(KeyType(t)) /\ Len(k) = Len(KeysIn(a)) + Len(KeysIn(b))
      /\ \A i \in 1..Len(KeysIn(a)) : k[i] = KeysIn(a)[i]
      /\ \A i \in 1..Len(KeysIn(b)) : k[Len(KeysIn(a)) + i] = KeysIn(b)[i]
  BY <1>2, Concat
<1> HIDE DEF q, k
<1>4. /\ Len(KeysIn(a)) = Len(a) /\ \A i \in 1..Len(a) : KeysIn(a)[i] = a[i].key
      /\ Len(KeysIn(b)) = Len(b) /\ \A i \in 1..Len(b) : KeysIn(b)[i] = b[i].key
  BY KeysInIs
<1>5. /\ Len(k) = Len(a) + Len(b)
      /\ \A i \in 1..Len(a) : k[i] = a[i].key
      /\ \A i \in 1..Len(b) : k[Len(a) + i] = b[i].key
  BY <1>3, <1>4
<1>6. KeysIn(q) \in Seq(KeyType(t)) /\ Len(KeysIn(q)) = Len(q) /\ \A i \in 1..Len(q) : KeysIn(q)[i] = q[i].key
  BY <1>1, KeysInIs
<1>7. ASSUME NEW i \in 1..Len(q) PROVE KeysIn(q)[i] = k[i]
  <2>1. CASE i <= Len(a)
    <3>1. i \in 1..Len(a)
      BY <1>1, <2>1
    <3> QED
      BY <1>1, <1>5, <1>6, <3>1
  <2>2. CASE i > Len(a)
    <3>1. PICK j \in 1..Len(b) : i = Len(a) + j
      <4>1. i - Len(a) \in 1..Len(b) /\ i = Len(a) + (i - Len(a))
        BY <1>1, <2>2
      <4> QED
        BY <4>1
    <3>2. q[Len(a) + j] = b[j] /\ k[Len(a) + j] = b[j].key
      BY <1>1, <1>5
    <3>3. KeysIn(q)[i] = q[i].key
      BY <1>6
    <3> QED
      BY <3>1, <3>2, <3>3
  <2> QED
    BY <1>1, <2>1, <2>2
<1>8. KeysIn(q) = k
  <2>1. Len(KeysIn(q)) = Len(k)
    BY <1>1, <1>5, <1>6
  <2> QED
    BY <1>3, <1>6, <1>7, <2>1, SeqEqual
<1> QED
  BY <1>1, <1>8 DEF q, k

\* No rows have no keys.
LEMMA NoKeys == KeysIn(<<>>) = <<>> /\ ToSet(<<>>) = {}
  BY DEF KeysIn, ToSet

\* Stored keys are keys, finitely many.
LEMMA OldTyped ==
    ASSUME atStart \in StoredRows, NEW t \in Tables
    PROVE  OldKeys(t) \in SUBSET KeyType(t) /\ IsFiniteSet(OldKeys(t))
<1>1. atStart[t] \subseteq RowType(t) /\ IsFiniteSet(atStart[t])
  BY KeyStreamAssumption
<1>2. OldKeys(t) \subseteq KeyType(t)
  BY <1>1 DEF OldKeys, Keys, RowType
<1> DEFINE f == [r \in atStart[t] |-> r.key]
<1>3. f \in Surjection(atStart[t], OldKeys(t))
  BY DEF Surjection, OldKeys, Keys
<1> QED
  BY <1>1, <1>2, <1>3, FS_Surjection

\* A key can be referenced when it is stored or was handed over.
LEMMA ReferableIs ==
    ASSUME NEW t, emitted[t] \in Seq(RowType(t))
    PROVE  Referable(t) = Used(t)
  BY KeysInIs DEF Referable, Used, OldKeys, Made

(***************************************************************************)
(* What a step of another table leaves alone.                              *)
(***************************************************************************)
\* Rows handed over stay.
Grows == \A w \in Tables : Referable(w) \subseteq Referable(w)'

\* What is stored at the start stays.
LEMMA StraySame ==
    ASSUME NEW w, atStart' = atStart PROVE Stray(w)' = Stray(w) /\ OldKeys(w)' = OldKeys(w)
  BY DEF Stray, OldKeys, OnlyNegative

\* A good pool stays good while the parent's rows become more.
LEMMA GoodGrows ==
    ASSUME NEW w \in Tables, NEW pool, Good(pool, w), atStart' = atStart, Grows
    PROVE  IsInjective(pool) /\ ToSet(pool) \subseteq Referable(w)' \cup Stray(w)'
  BY StraySame DEF Good, Grows

\* The references refs hold are good after the step too.
RefsStayGood(t, refs) ==
    \A c \in DOMAIN refs :
        /\ c \in DOMAIN Parents[t]
        /\ \/ refs[c] \in Referable(Parents[t][c])' \cup Stray(Parents[t][c])'
           \/ refs[c] = Null /\ t \in Optional

\* So do references.
LEMMA RefsGoodGrows ==
    ASSUME NEW t \in Tables, NEW refs, RefsGood(t, refs), atStart' = atStart, Grows
    PROVE  RefsStayGood(t, refs)
<1> SUFFICES ASSUME NEW c \in DOMAIN refs
             PROVE  /\ c \in DOMAIN Parents[t]
                    /\ \/ refs[c] \in Referable(Parents[t][c])' \cup Stray(Parents[t][c])'
                       \/ refs[c] = Null /\ t \in Optional
  BY DEF RefsStayGood
<1>1. c \in DOMAIN Parents[t]
  BY DEF RefsGood
<1>2. Parents[t][c] \in Tables
  BY <1>1, TableFacts
<1>3. Referable(Parents[t][c]) \subseteq Referable(Parents[t][c])'
  BY <1>2 DEF Grows
<1>4. Stray(Parents[t][c])' = Stray(Parents[t][c])
  BY StraySame
<1> QED
  BY <1>1, <1>3, <1>4 DEF RefsGood

\* A table nothing of which changes keeps its invariant.
LEMMA Frame ==
    ASSUME NEW u \in Tables, TableInv(u), atStart' = atStart, loaded' = loaded,
           emitted'[u] = emitted[u], written'[u] = written[u], pks'[u] = pks[u], taken'[u] = taken[u],
           stage'[u] = stage[u], fork'[u] = fork[u], Grows
    PROVE  TableInv(u)'
<1>1. TableShape(u)'
  BY DEF TableInv, TableShape, ForkShape
<1>2. TableKeys(u)'
  <2>1. OldKeys(u)' = OldKeys(u) /\ Stray(u)' = Stray(u)
    BY StraySame
  <2>2. Made(u)' = Made(u) /\ Making(u)' = Making(u)
    BY DEF Made, Making
  <2>3. OwnPool(u)' = OwnPool(u)
    BY DEF OwnPool
  <2>4. Base(u)' = Base(u) /\ Used(u)' = Used(u)
    BY <2>1, <2>2, <2>3 DEF Base, Used
  <2> QED
    BY <2>1, <2>2, <2>3, <2>4 DEF TableInv, TableKeys
<1>3. TablePools(u)'
  <2>1. Kind[u] # "junction" => Good(pks[u], u)'
    BY GoodGrows DEF TableInv, TablePools, Good
  <2>2. ASSUME stage[u] # "waiting", NEW w \in ParentsOf(u) PROVE Good(fork[u].pools[w], w)'
    <3>1. w \in Tables
      BY TableFacts
    <3>2. Good(fork[u].pools[w], w)
      BY <2>2 DEF TableInv, TablePools
    <3> QED
      BY <3>1, <3>2, GoodGrows DEF Good
  <2> QED
    BY <2>1, <2>2 DEF TablePools
<1>4. TableRefs(u)'
  <2>1. ASSUME NEW i \in 1..Len(emitted[u])
        PROVE  RefsGood(u, emitted[u][i].refs)' /\ SelfGood(emitted[u], i)
    <3>1. RefsGood(u, emitted[u][i].refs) /\ SelfGood(emitted[u], i)
      BY DEF TableInv, TableRefs
    <3>2. (emitted[u][i].refs)' = emitted[u][i].refs
      OBVIOUS
    <3>3. RefsStayGood(u, emitted[u][i].refs)
      BY <3>1, RefsGoodGrows
    <3> QED
      BY <3>1, <3>2, <3>3 DEF RefsGood, RefsStayGood
  <2>2. ASSUME NEW i \in 1..Len(fork[u].buf)
        PROVE  RefsGood(u, fork[u].buf[i].refs)' /\ fork[u].buf[i].self = Null
    <3>1. RefsGood(u, fork[u].buf[i].refs) /\ fork[u].buf[i].self = Null
      BY DEF TableInv, TableRefs
    <3>2. (fork[u].buf[i].refs)' = fork[u].buf[i].refs
      OBVIOUS
    <3>3. RefsStayGood(u, fork[u].buf[i].refs)
      BY <3>1, RefsGoodGrows
    <3> QED
      BY <3>1, <3>2, <3>3 DEF RefsGood, RefsStayGood
  <2> QED
    BY <2>1, <2>2 DEF TableRefs
<1> QED
  BY <1>1, <1>2, <1>3, <1>4 DEF TableInv

\* A step that hands over nothing.
LEMMA SameRows == ASSUME atStart' = atStart, emitted' = emitted PROVE Grows
  BY DEF Grows, Referable

\* A step of a table that makes no keys.
LEMMA KeysSame ==
    ASSUME NEW t \in Tables, TableKeys(t), atStart' = atStart, loaded' = loaded, taken'[t] = taken[t],
           Made(t)' = Made(t), Making(t)' = Making(t), OwnPool(t)' = OwnPool(t), Base(t)' = Base(t)
    PROVE  TableKeys(t)'
<1>1. OldKeys(t)' = OldKeys(t) /\ Stray(t)' = Stray(t)
  BY StraySame
<1>2. Used(t)' = Used(t)
  BY <1>1 DEF Used
<1> QED
  BY <1>1, <1>2 DEF TableKeys

\* A step of a table that makes no references.
LEMMA RefsSame ==
    ASSUME NEW t \in Tables, TableRefs(t), atStart' = atStart, emitted'[t] = emitted[t],
           (fork[t].buf)' = fork[t].buf, Grows
    PROVE  TableRefs(t)'
<1>1. ASSUME NEW i \in 1..Len(emitted[t])
      PROVE  RefsGood(t, emitted[t][i].refs)' /\ SelfGood(emitted[t], i)
  <2>1. RefsGood(t, emitted[t][i].refs) /\ SelfGood(emitted[t], i)
    BY DEF TableRefs
  <2>2. (emitted[t][i].refs)' = emitted[t][i].refs
    OBVIOUS
  <2>3. RefsStayGood(t, emitted[t][i].refs)
    BY <2>1, RefsGoodGrows
  <2> QED
    BY <2>1, <2>2, <2>3 DEF RefsGood, RefsStayGood
<1>2. ASSUME NEW i \in 1..Len(fork[t].buf)
      PROVE  RefsGood(t, fork[t].buf[i].refs)' /\ fork[t].buf[i].self = Null
  <2>1. RefsGood(t, fork[t].buf[i].refs) /\ fork[t].buf[i].self = Null
    BY DEF TableRefs
  <2>2. (fork[t].buf[i].refs)' = fork[t].buf[i].refs
    OBVIOUS
  <2>3. RefsStayGood(t, fork[t].buf[i].refs)
    BY <2>1, RefsGoodGrows
  <2> QED
    BY <2>1, <2>2, <2>3 DEF RefsGood, RefsStayGood
<1> QED
  BY <1>1, <1>2 DEF TableRefs

(***************************************************************************)
(* What is stored, and the pools read from it.                             *)
(***************************************************************************)
LEMMA StoredIs ==
    ASSUME RunShape, NEW t \in Tables, TableShape(t)
    PROVE  /\ Stored(t) \in SUBSET KeyType(t) /\ IsFiniteSet(Stored(t))
           /\ OldKeys(t) \subseteq Stored(t) /\ Stored(t) \subseteq Referable(t)
           /\ emitted[t] = <<>> => Stored(t) = OldKeys(t)
<1> DEFINE S == {emitted[t][i].key : i \in 1..written[t]}
           f == [i \in 1..written[t] |-> emitted[t][i].key]
<1>1. emitted[t] \in Seq(RowType(t)) /\ written[t] <= Len(emitted[t]) /\ written[t] \in Nat
  BY DEF RunShape, TableShape
<1>2. Stored(t) = OldKeys(t) \cup S
  BY DEF Stored, OldKeys
<1>3. OldKeys(t) \subseteq KeyType(t) /\ IsFiniteSet(OldKeys(t))
  BY OldTyped DEF RunShape
<1>4. ASSUME NEW i \in 1..written[t]
      PROVE  emitted[t][i].key \in KeyType(t) /\ emitted[t][i].key \in Keys(ToSet(emitted[t]))
  <2>1. i \in 1..Len(emitted[t])
    BY <1>1
  <2>2. emitted[t][i].key \in KeyType(t) /\ emitted[t][i] \in ToSet(emitted[t])
    BY <1>1, <2>1, KeysInIs, SetOf
  <2> QED
    BY <2>2 DEF Keys
<1>5. S \subseteq KeyType(t) /\ S \subseteq Keys(ToSet(emitted[t]))
  BY <1>4
<1>6. IsFiniteSet(S)
  <2>1. f \in Surjection(1..written[t], S)
    BY DEF Surjection
  <2>2. IsFiniteSet(1..written[t])
    BY <1>1, FS_Interval
  <2> HIDE DEF f, S
  <2> QED
    BY <2>1, <2>2, FS_Surjection
<1>7. emitted[t] = <<>> => S = {}
  BY <1>1
<1> HIDE DEF S
<1>8. IsFiniteSet(Stored(t))
  BY <1>2, <1>3, <1>6, FS_Union
<1>9. Stored(t) \subseteq Referable(t)
  BY <1>2, <1>5 DEF Referable, OldKeys
<1> QED
  BY <1>2, <1>3, <1>5, <1>7, <1>8, <1>9

\* A pool read from the stored keys leads to new ones.
LEMMA PoolsAre ==
    ASSUME RunShape, NEW t \in Tables, TableShape(t), Counted(Kind[t], ToSet(Made(t))), Kind[t] # "junction",
           NEW p \in Pools(t)
    PROVE  /\ p \in Seq(Int) /\ Len(p) <= PoolLimit /\ Good(p, t)
           /\ PoolLeads(Kind[t], p, Len(p), Stored(t), <<>>, Stored(t))
           /\ PoolHolds(p, Len(p), Stored(t) \cup Stray(t))
<1> DEFINE S == Stored(t)
           stray == IF S # {} /\ \A k \in S : k < 0 THEN {0} ELSE {}
<1>1. S \in SUBSET Int /\ IsFiniteSet(S) /\ OldKeys(t) \subseteq S /\ S \subseteq Referable(t)
  BY StoredIs, TableFacts
<1>2. ASSUME Kind[t] = "sequence" PROVE stray \subseteq Stray(t)
  <2> SUFFICES ASSUME S # {}, \A k \in S : k < 0 PROVE OnlyNegative(t)
    BY DEF Stray
  <2>1. PICK k \in S : k < 0 /\ k \in Int
    BY <1>1
  <2>2. k \in OldKeys(t) \cup ToSet(Made(t))
    BY <1>1, <2>1, ReferableIs DEF TableShape, Used
  <2>3. k \in OldKeys(t)
    BY <1>2, <2>1, <2>2 DEF Counted
  <2> HIDE DEF S
  <2>4. atStart[t] # {} /\ \A j \in Keys(atStart[t]) : j < 0
    BY <1>1, <2>3 DEF OldKeys, Keys
  <2> QED
    BY <1>2, <2>4 DEF OnlyNegative
<1>3. Kind[t] \in {"sequence", "random", "identifying"}
  BY TableFacts
<1> HIDE DEF S
<1>4. CASE Kind[t] = "sequence"
  <2>1. p \in IntegerPools(S, PoolLimit)
    BY <1>4 DEF Pools, S
  <2>2. /\ p \in Seq(Int) /\ Ascends(p) /\ IsInjective(p) /\ Len(p) <= PoolLimit
        /\ \A k \in S : Len(p) >= 1 /\ k <= p[Len(p)]
        /\ \A i \in 1..Len(p) : p[i] \in S \cup stray
    BY <1>1, <2>1, Limits, IntegerPoolIs
  <2> HIDE DEF stray
  <2>3. PoolHolds(p, Len(p), S \cup Stray(t))
    BY <1>2, <1>4, <2>2 DEF PoolHolds
  <2>4. ToSet(p) \subseteq S \cup Stray(t)
    BY <2>2, <2>3, SetOf DEF PoolHolds
  <2>5. PoolLeads(Kind[t], p, Len(p), S, <<>>, S)
    BY <1>4, <2>2 DEF PoolLeads
  <2> QED
    BY <1>1, <2>2, <2>3, <2>4, <2>5 DEF Good, S
<1>5. CASE Kind[t] \in {"random", "identifying"}
  <2>1. p \in OtherPools(S, PoolLimit)
    BY <1>5 DEF Pools, S
  <2>2. p \in Seq(Int) /\ IsInjective(p) /\ Len(p) <= PoolLimit /\ ToSet(p) \subseteq S
    BY <1>1, <2>1, Limits, OtherPoolIs
  <2>3. PoolHolds(p, Len(p), S \cup Stray(t))
    BY <2>2, SetOf DEF PoolHolds
  <2>4. PoolLeads(Kind[t], p, Len(p), S, <<>>, S)
    BY <1>5, <2>2, NoKeys DEF PoolLeads
  <2> QED
    BY <1>1, <2>2, <2>3, <2>4 DEF Good, S
<1> QED
  BY <1>3, <1>4, <1>5

\* An empty pool is good.
LEMMA EmptyGood == ASSUME NEW t PROVE Good(<<>>, t) /\ \A old : NoRepeats(old, <<>>, <<>>)
<1>1. IsInjective(<<>>)
  BY DEF IsInjective
<1>2. <<>> \o <<>> = <<>>
  BY ConcatEmptySeq, EmptySeq
<1> QED
  BY <1>1, <1>2, NoKeys DEF Good, NoRepeats

\* Nothing has been read or made.
LEMMA InitHolds == Init => IInv
<1> SUFFICES ASSUME Init PROVE IInv
  OBVIOUS
<1>1. RunShape
  BY DEF Init, RunShape, Stages, IsMap
<1>2. ASSUME NEW t \in Tables PROVE TableInv(t)
  <2>1. /\ emitted[t] = <<>> /\ written[t] = 0 /\ pks[t] = <<>> /\ taken[t] = {} /\ stage[t] = "waiting"
        /\ fork[t] = NoFork /\ loaded = FALSE
    BY <1>2 DEF Init
  <2>2. fork[t].buf = <<>> /\ Len(<<>>) = 0
    BY <2>1 DEF NoFork
  <2>3. ForkShape(t, fork[t], stage[t])
    BY <2>1, Limits DEF ForkShape, NoFork
  <2>4. TableShape(t)
    <3>1. IsFiniteSet({})
      BY FS_EmptySet
    <3> QED
      BY <2>1, <2>2, <2>3, <3>1, Limits DEF TableShape
  <2>5. TableKeys(t)
    BY <2>1, <2>2, NoKeys, EmptyGood DEF TableKeys, Made, Making, Counted
  <2>6. TablePools(t)
    BY <2>1, EmptyGood DEF TablePools
  <2>7. TableRefs(t)
    BY <2>1, <2>2 DEF TableRefs
  <2> QED
    BY <2>4, <2>5, <2>6, <2>7 DEF TableInv
<1> QED
  BY <1>1, <1>2 DEF IInv

(***************************************************************************)
(* The steps.                                                              *)
(***************************************************************************)
LEMMA LoadKeeps == ASSUME IInv, Load PROVE IInv'
<1>1. RunShape /\ \A t \in Tables : TableInv(t)
  BY DEF IInv
<1>2. /\ ~loaded /\ loaded' = TRUE /\ sampled' \subseteq Tables
      /\ atStart' = atStart /\ emitted' = emitted /\ written' = written /\ cursor' = cursor
      /\ stage' = stage /\ calls' = calls /\ fork' = fork
  BY DEF Load
<1>3. pks' \in [Tables -> UNION {Pools(t) : t \in Tables}] /\ \A t \in Tables : pks'[t] \in Pools(t)
  BY DEF Load, PoolsRead
<1>4. IsMap(taken') /\ \A t \in Tables : taken'[t] = IF TracksKeys(t) THEN Stored(t) ELSE {}
  BY DEF Load, IsMap
<1>5. IsMap(tuples')
  BY DEF Load, IsMap
<1>6. seqStart' \in [Tables -> Nat]
  <2>1. seqStart' = [t \in Tables |-> IF t \in Numbered THEN StartAfter({r.num : r \in atStart[t]}) ELSE 0]
    BY DEF Load
  <2>2. ASSUME NEW t \in Tables PROVE StartAfter({r.num : r \in atStart[t]}) \in Nat
    <3> DEFINE N == {r.num : r \in atStart[t]}
    <3>1. atStart[t] \subseteq RowType(t) /\ IsFiniteSet(atStart[t])
      BY <1>1, KeyStreamAssumption DEF RunShape
    <3>2. N \in SUBSET Nat
      BY <3>1 DEF RowType
    <3>3. IsFiniteSet(N)
      <4> DEFINE f == [r \in atStart[t] |-> r.num]
      <4>1. f \in Surjection(atStart[t], N)
        BY DEF Surjection
      <4> QED
        BY <3>1, <4>1, FS_Surjection
    <3> HIDE DEF N
    <3>4. StartAfter(N) \in Nat
      BY <3>2, <3>3, StartAfterIs
    <3> QED
      BY <3>4 DEF N
  <2> QED
    BY <2>1, <2>2
<1>7. RunShape'
  <2>1. IsMap(pks')
    BY <1>3 DEF IsMap
  <2> QED
    BY <1>1, <1>2, <1>4, <1>5, <1>6, <2>1 DEF RunShape, IsMap
<1>8. Grows
  BY <1>2, SameRows
<1>9. ASSUME NEW t \in Tables PROVE TableInv(t)'
  <2>1. TableShape(t) /\ TableKeys(t) /\ TablePools(t) /\ TableRefs(t)
    BY <1>1 DEF TableInv
  <2>2. stage[t] = "waiting" /\ fork[t].buf = <<>> /\ emitted[t] = <<>>
    BY <1>2, <2>1 DEF TableShape, ForkShape
  <2>3. OldKeys(t) \in SUBSET KeyType(t) /\ Stored(t) = OldKeys(t) /\ IsFiniteSet(Stored(t))
    BY <1>1, <2>1, <2>2, StoredIs
  <2>4. pks'[t] \in Pools(t) /\ Counted(Kind[t], ToSet(Made(t)))
    BY <1>3, <2>2, NoKeys DEF Made, Counted
  <2>5. pks'[t] \in Seq(KeyType(t)) /\ Len(pks'[t]) <= PoolLimit
    <3>1. CASE Kind[t] = "junction"
      <4>1. pks'[t] = <<>>
        BY <2>4, <3>1 DEF Pools
      <4> QED
        BY <4>1, Limits
    <3>2. CASE Kind[t] # "junction"
      BY <1>1, <2>1, <2>4, <3>2, PoolsAre, TableFacts
    <3> QED
      BY <3>1, <3>2
  <2>6. IsFiniteSet(taken'[t])
    BY <1>4, <2>3, FS_EmptySet
  <2>7. TableShape(t)'
    <3>1. ForkShape(t, fork[t], stage[t])'
      BY <1>2, <2>1, <2>2 DEF TableShape, ForkShape
    <3> QED
      BY <1>2, <2>1, <2>5, <2>6, <3>1 DEF TableShape
  <2>8. Used(t) = Stored(t)
    BY <2>2, <2>3, NoKeys DEF Used, Made
  <2>9. Made(t)' = Made(t) /\ Making(t)' = <<>> /\ Used(t)' = Stored(t) /\ OwnPool(t)' = pks'[t] /\ Base(t)' = Len(pks'[t])
    BY <1>2, <2>2, <2>8, NoKeys DEF Made, Making, Used, OldKeys, OwnPool, Base
  <2>10. OldKeys(t)' = OldKeys(t) /\ Stray(t)' = Stray(t)
    BY <1>2, StraySame
  <2>11. PoolLeads(Kind[t], pks'[t], Len(pks'[t]), Stored(t), <<>>, taken'[t])
    <3>1. CASE Kind[t] = "junction"
      <4>1. taken'[t] = Stored(t)
        BY <1>4, <3>1 DEF TracksKeys
      <4> QED
        BY <3>1, <4>1, NoKeys DEF PoolLeads
    <3>2. CASE Kind[t] # "junction"
      <4>1. PoolLeads(Kind[t], pks'[t], Len(pks'[t]), Stored(t), <<>>, Stored(t))
        BY <1>1, <2>1, <2>4, <3>2, PoolsAre
      <4>2. Kind[t] # "sequence" => taken'[t] = Stored(t)
        BY <1>4 DEF TracksKeys
      <4> QED
        BY <3>2, <4>1, <4>2 DEF PoolLeads
    <3> QED
      BY <3>1, <3>2
  <2>12. ASSUME Kind[t] # "junction"
         PROVE  PoolEnds(pks'[t], Len(pks'[t]), <<>>) /\ PoolHolds(pks'[t], Len(pks'[t]), Stored(t) \cup Stray(t))
                /\ Good(pks'[t], t)
    <3>1. /\ pks'[t] \in Seq(Int) /\ PoolHolds(pks'[t], Len(pks'[t]), Stored(t) \cup Stray(t))
          /\ Good(pks'[t], t)
      BY <1>1, <2>1, <2>4, <2>12, PoolsAre
    <3>2. PoolEnds(pks'[t], Len(pks'[t]), <<>>)
      BY <3>1 DEF PoolEnds
    <3> QED
      BY <3>1, <3>2
  <2>13. Making(t) = <<>>
    BY <2>2, NoKeys DEF Making
  <2>14. TableKeys(t)'
    BY <2>1, <2>9, <2>10, <2>11, <2>12, <2>13 DEF TableKeys
  <2>15. TablePools(t)'
    <3>1. Kind[t] # "junction" => Good(pks[t], t)'
      BY <1>2, <1>8, <2>12, GoodGrows DEF Good
    <3> QED
      BY <1>2, <2>2, <3>1 DEF TablePools
  <2>16. TableRefs(t)'
    BY <1>2, <1>8, <2>1, RefsSame
  <2> QED
    BY <2>7, <2>14, <2>15, <2>16 DEF TableInv
<1> QED
  BY <1>7, <1>9 DEF IInv

\* A step of one table leaves the others what they are.
LEMMA StepsAlone ==
    ASSUME IInv, NEW t \in Tables, RunShape', TableInv(t)', Grows, atStart' = atStart, loaded' = loaded,
           \A u \in Tables : u # t =>
              /\ emitted'[u] = emitted[u] /\ written'[u] = written[u] /\ pks'[u] = pks[u] /\ taken'[u] = taken[u]
              /\ stage'[u] = stage[u] /\ fork'[u] = fork[u]
    PROVE  IInv'
<1>1. ASSUME NEW u \in Tables, u # t PROVE TableInv(u)'
  <2>1. TableInv(u)
    BY DEF IInv
  <2> QED
    BY <1>1, <2>1, Frame
<1> QED
  BY <1>1 DEF IInv

\* The fork starts with copies of the stream's pools.
LEMMA ForkKeeps == ASSUME IInv, NEW t \in Tables, ForkTable(t) PROVE IInv'
<1>1. RunShape /\ TableShape(t) /\ TableKeys(t) /\ TablePools(t) /\ TableRefs(t) /\ \A u \in Tables : TableInv(u)
  BY DEF IInv, TableInv
<1>2. /\ loaded /\ stage[t] = "waiting" /\ stage' = [stage EXCEPT ![t] = "generating"]
      /\ atStart' = atStart /\ emitted' = emitted /\ written' = written /\ pks' = pks
      /\ sampled' = sampled /\ taken' = taken /\ tuples' = tuples /\ seqStart' = seqStart
      /\ cursor' = cursor /\ loaded' = loaded
  BY DEF ForkTable, known
<1> DEFINE pools == [u \in {t} \cup ParentsOf(t) |-> pks[u]]
           f == [NoFork EXCEPT !.pools = pools, !.adds = Adds[t], !.preloaded = Len(pks[t])]
<1>3. fork' = [fork EXCEPT ![t] = f]
  BY DEF ForkTable
<1>4. /\ f.pools = pools /\ f.buf = <<>> /\ f.preloaded = Len(pks[t])
      /\ f \in [pools : {pools}, since : {0}, adds : {Adds[t]}, buf : {<<>>}, preloaded : {Len(pks[t])}, short : BOOLEAN]
  <2> HIDE DEF pools
  <2> QED
    BY DEF NoFork
<1> HIDE DEF f
<1>5. IsMap(fork') /\ fork'[t] = f /\ \A u \in Tables : u # t => fork'[u] = fork[u]
  BY <1>1, <1>3 DEF RunShape, IsMap
<1>6. stage'[t] = "generating" /\ (\A u \in Tables : u # t => stage'[u] = stage[u]) /\ stage' \in [Tables -> Stages]
  BY <1>1, <1>2 DEF RunShape, Stages
<1>7. RunShape'
  BY <1>1, <1>2, <1>5, <1>6 DEF RunShape
<1>8. Grows
  BY <1>2, SameRows
<1>9. f.pools = pools /\ f.buf = <<>> /\ f.preloaded = Len(pks[t]) /\ pools[t] = pks[t]
  BY <1>4
<1>10. \A u \in ParentsOf(t) : u \in Tables /\ pools[u] = pks[u] /\ pks[u] \in Seq(Int) /\ Good(pks[u], u)
  <2> SUFFICES ASSUME NEW u \in ParentsOf(t) PROVE u \in Tables /\ pks[u] \in Seq(Int) /\ Good(pks[u], u)
    OBVIOUS
  <2>1. u \in Tables /\ Kind[u] # "junction" /\ KeyType(u) = Int
    BY TableFacts
  <2> QED
    BY <1>1, <2>1 DEF TableInv, TableShape, TablePools
<1>11. TableShape(t)'
  <2>1. pks[t] \in Seq(KeyType(t)) /\ Len(pks[t]) <= PoolLimit /\ Len(pks[t]) \in Nat
    BY <1>1 DEF TableShape
  <2>2. f \in [pools : {f.pools}, since : Nat, adds : Seq(Nat \ {0}), buf : Seq(RowType(t)),
               preloaded : Nat, short : BOOLEAN]
    <3>1. Adds[t] \in Seq(Nat \ {0}) /\ <<>> \in Seq(RowType(t))
      BY TableFacts
    <3>2. f.pools = pools
      BY <1>4
    <3>3. f \in [pools : {pools}, since : Nat, adds : Seq(Nat \ {0}), buf : Seq(RowType(t)),
                 preloaded : Nat, short : BOOLEAN]
      <4> DEFINE P == {pools}
                 A == Seq(Nat \ {0})
                 B == Seq(RowType(t))
      <4>1. f \in [pools : P, since : {0}, adds : {Adds[t]}, buf : {<<>>}, preloaded : {Len(pks[t])}, short : BOOLEAN]
        BY <1>4
      <4>2. Adds[t] \in A /\ <<>> \in B
        BY <3>1
      <4> HIDE DEF P, A, B
      <4>3. f \in [pools : P, since : Nat, adds : A, buf : B, preloaded : Nat, short : BOOLEAN]
        BY <2>1, <4>1, <4>2
      <4> QED
        BY <4>3 DEF P, A, B
    <3> QED
      BY <3>2, <3>3
  <2>3. DOMAIN f.pools = {t} \cup ParentsOf(t) /\ f.pools = [u \in {t} \cup ParentsOf(t) |-> f.pools[u]]
    BY <1>9
  <2>4. f.pools[t] = pks[t] /\ \A u \in ParentsOf(t) : f.pools[u] \in Seq(Int)
    BY <1>9, <1>10
  <2>5. Len(f.buf) <= ChunkRows
    BY <1>9, Limits
  <2> HIDE DEF pools
  <2>6. ForkShape(t, f, "generating")
    BY <1>2, <1>9, <2>1, <2>2, <2>3, <2>4, <2>5 DEF ForkShape
  <2>7. ForkShape(t, fork[t], stage[t])'
    BY <1>2, <1>5, <1>6, <2>6 DEF ForkShape
  <2> QED
    BY <1>1, <1>2, <2>7 DEF TableShape
<1>12. TableKeys(t)'
  <2>1. fork[t].buf = <<>>
    BY <1>1, <1>2 DEF TableShape, ForkShape
  <2>2. Made(t)' = Made(t) /\ Making(t)' = Making(t)
    BY <1>2, <1>5, <1>9, <2>1 DEF Made, Making
  <2>3. OwnPool(t)' = pks[t] /\ OwnPool(t) = pks[t]
    BY <1>2, <1>5, <1>6, <1>9 DEF OwnPool
  <2>4. Base(t)' = Base(t)
    BY <1>5, <1>9, <2>1, <2>3 DEF Base
  <2> QED
    BY <1>1, <1>2, <2>2, <2>3, <2>4, KeysSame
<1>13. TablePools(t)'
  <2>1. Kind[t] # "junction" => Good(pks[t], t)'
    BY <1>1, <1>2, <1>8, GoodGrows DEF TablePools, Good
  <2>2. ASSUME NEW u \in ParentsOf(t) PROVE Good(fork[t].pools[u], u)'
    BY <1>2, <1>5, <1>8, <1>9, <1>10, GoodGrows DEF Good
  <2> QED
    BY <2>1, <2>2 DEF TablePools
<1>14. TableRefs(t)'
  <2>1. (fork[t].buf)' = fork[t].buf
    BY <1>1, <1>2, <1>5, <1>9 DEF TableShape, ForkShape
  <2> QED
    BY <1>1, <1>2, <1>8, <2>1, RefsSame
<1>15. TableInv(t)'
  BY <1>11, <1>12, <1>13, <1>14 DEF TableInv
<1> QED
  BY <1>2, <1>5, <1>6, <1>7, <1>8, <1>15, StepsAlone

\* A table stops generating: its call returned, or it failed.
LEMMA StopKeeps ==
    ASSUME IInv, NEW t \in Tables, stage[t] = "generating", NEW to \in {"returned", "failed"},
           to = "returned" => fork[t].buf = <<>>, stage' = [stage EXCEPT ![t] = to],
           UNCHANGED <<atStart, emitted, written, pks, known, cursor, calls, fork, loaded>>
    PROVE  IInv'
<1>1. RunShape /\ TableShape(t) /\ TableKeys(t) /\ TablePools(t) /\ TableRefs(t)
  BY DEF IInv, TableInv
<1>2. /\ atStart' = atStart /\ emitted' = emitted /\ written' = written /\ pks' = pks
      /\ sampled' = sampled /\ taken' = taken /\ tuples' = tuples /\ seqStart' = seqStart
      /\ cursor' = cursor /\ loaded' = loaded /\ fork' = fork
  BY DEF known
<1>3. stage'[t] = to /\ (\A u \in Tables : u # t => stage'[u] = stage[u]) /\ stage' \in [Tables -> Stages]
  BY <1>1, <1>2 DEF RunShape, Stages
<1>4. RunShape'
  BY <1>1, <1>2, <1>3 DEF RunShape, IsMap
<1>5. Grows
  BY <1>2, SameRows
<1>6. TableShape(t)'
  <2>1. ForkShape(t, fork[t], stage[t])'
    BY <1>1, <1>2, <1>3 DEF TableShape, ForkShape
  <2> QED
    BY <1>1, <1>2, <2>1 DEF TableShape
<1>7. TableKeys(t)'
  <2>1. Made(t)' = Made(t) /\ Making(t)' = Making(t)
    BY <1>2 DEF Made, Making
  <2>2. OwnPool(t)' = OwnPool(t)
    BY <1>2, <1>3 DEF OwnPool
  <2>3. Base(t)' = Base(t)
    BY <1>2, <2>2 DEF Base
  <2> QED
    BY <1>1, <1>2, <2>1, <2>2, <2>3, KeysSame
<1>8. TablePools(t)'
  <2>1. Kind[t] # "junction" => Good(pks[t], t)'
    BY <1>1, <1>2, <1>5, GoodGrows DEF TablePools, Good
  <2>2. ASSUME NEW u \in ParentsOf(t) PROVE Good(fork[t].pools[u], u)'
    <3>1. u \in Tables /\ Good(fork[t].pools[u], u)
      BY <1>1, <1>2, TableFacts DEF TablePools
    <3> QED
      BY <1>2, <1>5, <3>1, GoodGrows DEF Good
  <2> QED
    BY <2>1, <2>2 DEF TablePools
<1>9. TableRefs(t)'
  BY <1>1, <1>2, <1>5, RefsSame
<1>10. TableInv(t)'
  BY <1>6, <1>7, <1>8, <1>9 DEF TableInv
<1> QED
  BY <1>2, <1>3, <1>4, <1>5, <1>10, StepsAlone

\* A call returns, or fails: only the stage changes.
LEMMA ReturnKeeps == ASSUME IInv, NEW t \in Tables, Return(t) PROVE IInv'
  BY StopKeeps DEF Return

LEMMA FailKeeps == ASSUME IInv, NEW t \in Tables, Fail(t) PROVE IInv'
  BY StopKeeps DEF Fail, Adding

\* The next call goes on with the pools of the last.
LEMMA CallAgainKeeps == ASSUME IInv, NEW t \in Tables, CallAgain(t) PROVE IInv'
<1>1. RunShape /\ TableShape(t) /\ TableKeys(t) /\ TablePools(t) /\ TableRefs(t)
  BY DEF IInv, TableInv
<1>2. /\ stage[t] = "returned" /\ stage' = [stage EXCEPT ![t] = "generating"]
      /\ atStart' = atStart /\ emitted' = emitted /\ written' = written /\ pks' = pks
      /\ sampled' = sampled /\ taken' = taken /\ tuples' = tuples /\ seqStart' = seqStart
      /\ cursor' = cursor /\ loaded' = loaded
  BY DEF CallAgain, known
<1> DEFINE g == fork[t]
           f == [g EXCEPT !.adds = Adds[t], !.preloaded = Len(fork[t].pools[t]), !.short = FALSE]
<1>3. fork' = [fork EXCEPT ![t] = f]
  BY DEF CallAgain
<1>4. /\ ForkShape(t, g, "returned") /\ Adds[t] \in Seq(Nat \ {0})
  BY <1>1, <1>2, TableFacts DEF TableShape
<1>5. Len(g.pools[t]) \in Nat
  BY <1>4 DEF ForkShape
<1>6. /\ f.pools = g.pools /\ f.buf = g.buf
      /\ f \in [pools : {g.pools}, since : Nat, adds : Seq(Nat \ {0}), buf : Seq(RowType(t)),
                preloaded : Nat, short : BOOLEAN]
  <2>1. g \in [pools : {g.pools}, since : Nat, adds : Seq(Nat \ {0}), buf : Seq(RowType(t)),
               preloaded : Nat, short : BOOLEAN]
    BY <1>4 DEF ForkShape
  <2> DEFINE P == {g.pools}
             A == Seq(Nat \ {0})
             B == Seq(RowType(t))
             n == Len(g.pools[t])
  <2>2. g \in [pools : P, since : Nat, adds : A, buf : B, preloaded : Nat, short : BOOLEAN] /\ Adds[t] \in A /\ n \in Nat
    BY <1>4, <1>5, <2>1
  <2>3. f = [g EXCEPT !.adds = Adds[t], !.preloaded = n, !.short = FALSE]
    OBVIOUS
  <2> HIDE DEF P, A, B, n, g, f
  <2>4. /\ f.pools = g.pools /\ f.buf = g.buf
        /\ f \in [pools : P, since : Nat, adds : A, buf : B, preloaded : Nat, short : BOOLEAN]
    BY <2>2, <2>3
  <2> QED
    BY <2>4 DEF P, A, B
<1> HIDE DEF f
<1>7. IsMap(fork') /\ fork'[t] = f /\ \A u \in Tables : u # t => fork'[u] = fork[u]
  BY <1>1, <1>3 DEF RunShape, IsMap
<1>8. stage'[t] = "generating" /\ (\A u \in Tables : u # t => stage'[u] = stage[u]) /\ stage' \in [Tables -> Stages]
  BY <1>1, <1>2 DEF RunShape, Stages
<1>9. RunShape'
  BY <1>1, <1>2, <1>7, <1>8 DEF RunShape
<1>10. Grows
  BY <1>2, SameRows
<1>11. g.buf = <<>>
  BY <1>4 DEF ForkShape
<1>12. TableShape(t)'
  <2>1. ForkShape(t, f, "generating")
    BY <1>2, <1>4, <1>6, <1>11 DEF ForkShape
  <2>2. ForkShape(t, fork[t], stage[t])'
    BY <1>2, <1>7, <1>8, <2>1 DEF ForkShape
  <2> QED
    BY <1>1, <1>2, <2>2 DEF TableShape
<1>13. TableKeys(t)'
  <2>1. Made(t)' = Made(t) /\ Making(t)' = Making(t)
    BY <1>2, <1>6, <1>7 DEF Made, Making
  <2>2. OwnPool(t)' = OwnPool(t)
    BY <1>2, <1>6, <1>7, <1>8 DEF OwnPool
  <2>3. Base(t)' = Base(t)
    BY <1>6, <1>7, <1>11, <2>2 DEF Base
  <2> QED
    BY <1>1, <1>2, <2>1, <2>2, <2>3, KeysSame
<1>14. TablePools(t)'
  <2>1. Kind[t] # "junction" => Good(pks[t], t)'
    BY <1>1, <1>2, <1>10, GoodGrows DEF TablePools, Good
  <2>2. ASSUME NEW u \in ParentsOf(t) PROVE Good(fork[t].pools[u], u)'
    <3>1. u \in Tables /\ Good(fork[t].pools[u], u)
      BY <1>1, <1>2, TableFacts DEF TablePools
    <3> QED
      BY <1>2, <1>6, <1>7, <1>10, <3>1, GoodGrows DEF Good
  <2> QED
    BY <2>1, <2>2 DEF TablePools
<1>15. TableRefs(t)'
  <2>1. (fork[t].buf)' = fork[t].buf
    BY <1>6, <1>7
  <2> QED
    BY <1>1, <1>2, <1>10, <2>1, RefsSame
<1>16. TableInv(t)'
  BY <1>12, <1>13, <1>14, <1>15 DEF TableInv
<1> QED
  BY <1>2, <1>7, <1>8, <1>9, <1>10, <1>16, StepsAlone

\* The stream takes the fork's pool over.
LEMMA MergeKeeps == ASSUME IInv, NEW t \in Tables, MergeTable(t) PROVE IInv'
<1>1. RunShape /\ TableShape(t) /\ TableKeys(t) /\ TablePools(t) /\ TableRefs(t)
  BY DEF IInv, TableInv
<1>2. /\ stage[t] = "returned" /\ stage' = [stage EXCEPT ![t] = "merged"]
      /\ atStart' = atStart /\ emitted' = emitted /\ written' = written
      /\ sampled' = sampled /\ taken' = taken /\ tuples' = tuples /\ seqStart' = seqStart
      /\ cursor' = cursor /\ loaded' = loaded /\ fork' = fork
  BY DEF MergeTable, known
<1> DEFINE pool == fork[t].pools[t]
<1>3. pks' = [pks EXCEPT ![t] = pool]
  BY DEF MergeTable
<1>4. stage'[t] = "merged" /\ (\A u \in Tables : u # t => stage'[u] = stage[u]) /\ stage' \in [Tables -> Stages]
  BY <1>1, <1>2 DEF RunShape, Stages
<1>5. /\ pool \in Seq(KeyType(t)) /\ Len(pool) <= PoolLimit /\ fork[t].buf = <<>> /\ loaded
  BY <1>1, <1>2 DEF TableShape, ForkShape
<1>6. Base(t) = Len(pool) /\ OwnPool(t) = pool
  BY <1>2, <1>5 DEF Base, OwnPool
<1> HIDE DEF pool
<1>7. IsMap(pks') /\ pks'[t] = pool /\ \A u \in Tables : u # t => pks'[u] = pks[u]
  BY <1>1, <1>3 DEF RunShape, IsMap
<1>8. RunShape'
  BY <1>1, <1>2, <1>4, <1>7 DEF RunShape
<1>9. Grows
  BY <1>2, SameRows
<1>10. TableShape(t)'
  <2>1. ForkShape(t, fork[t], stage[t])'
    BY <1>1, <1>2, <1>4 DEF TableShape, ForkShape
  <2> QED
    BY <1>1, <1>2, <1>5, <1>7, <2>1 DEF TableShape
<1>11. TableKeys(t)'
  <2>1. Made(t)' = Made(t) /\ Making(t)' = Making(t)
    BY <1>2 DEF Made, Making
  <2>2. OwnPool(t)' = OwnPool(t)
    BY <1>2, <1>4 DEF OwnPool
  <2>3. Base(t)' = Base(t)
    BY <1>2, <2>2 DEF Base
  <2> QED
    BY <1>1, <1>2, <2>1, <2>2, <2>3, KeysSame
<1>12. ASSUME Kind[t] # "junction" PROVE Good(pool, t)
  <2>1. PoolLeads(Kind[t], pool, Len(pool), Used(t), Making(t), taken[t])
    BY <1>1, <1>5, <1>6 DEF TableKeys
  <2>2. PoolHolds(pool, Len(pool), Used(t) \cup Stray(t))
    BY <1>1, <1>5, <1>6, <1>12 DEF TableKeys
  <2>3. pool \in Seq(Int) /\ Kind[t] \in {"sequence", "random", "identifying"}
    BY <1>5, <1>12, TableFacts
  <2>4. IsInjective(pool)
    BY <2>1, <2>3, AscendsOnce DEF PoolLeads
  <2>5. Used(t) = Referable(t)
    BY <1>1, ReferableIs DEF TableShape
  <2>6. ToSet(pool) \subseteq Used(t) \cup Stray(t)
    BY <2>2, <2>3, SetOf DEF PoolHolds
  <2> QED
    BY <2>4, <2>5, <2>6 DEF Good
<1>13. TablePools(t)'
  <2>1. Kind[t] # "junction" => Good(pks[t], t)'
    BY <1>2, <1>7, <1>9, <1>12, GoodGrows DEF Good
  <2>2. ASSUME NEW u \in ParentsOf(t) PROVE Good(fork[t].pools[u], u)'
    <3>1. u \in Tables /\ Good(fork[t].pools[u], u)
      BY <1>1, <1>2, TableFacts DEF TablePools
    <3> QED
      BY <1>2, <1>9, <3>1, GoodGrows DEF Good
  <2> QED
    BY <2>1, <2>2 DEF TablePools
<1>14. TableRefs(t)'
  BY <1>1, <1>2, <1>9, RefsSame
<1>15. TableInv(t)'
  BY <1>10, <1>11, <1>13, <1>14 DEF TableInv
<1> QED
  BY <1>2, <1>4, <1>7, <1>8, <1>9, <1>15, StepsAlone

\* A row is stored: it was handed over, so its key is used already.
LEMMA WriteKeeps == ASSUME IInv, NEW t \in Tables, Write(t) PROVE IInv'
<1>1. RunShape /\ TableShape(t) /\ TableKeys(t) /\ TablePools(t) /\ TableRefs(t)
  BY DEF IInv, TableInv
<1>2. /\ written[t] < Len(emitted[t]) /\ written' = [written EXCEPT ![t] = @ + 1]
      /\ atStart' = atStart /\ emitted' = emitted /\ pks' = pks /\ stage' = stage
      /\ sampled' = sampled /\ taken' = taken /\ tuples' = tuples /\ seqStart' = seqStart
      /\ cursor' = cursor /\ loaded' = loaded /\ fork' = fork
  BY DEF Write, known
<1>3. written'[t] = written[t] + 1 /\ (\A u \in Tables : u # t => written'[u] = written[u]) /\ written' \in [Tables -> Nat]
  BY <1>1, <1>2 DEF RunShape
<1>4. RunShape'
  BY <1>1, <1>2, <1>3 DEF RunShape, IsMap
<1>5. Grows
  BY <1>2, SameRows
<1>6. TableShape(t)'
  <2>1. written'[t] <= Len(emitted[t])
    BY <1>1, <1>2, <1>3 DEF RunShape, TableShape
  <2>2. ForkShape(t, fork[t], stage[t])'
    BY <1>1, <1>2 DEF TableShape, ForkShape
  <2> QED
    BY <1>1, <1>2, <2>1, <2>2 DEF TableShape
<1>7. TableKeys(t)'
  <2>1. Made(t)' = Made(t) /\ Making(t)' = Making(t)
    BY <1>2 DEF Made, Making
  <2>2. OwnPool(t)' = OwnPool(t)
    BY <1>2 DEF OwnPool
  <2>3. Base(t)' = Base(t)
    BY <1>2, <2>2 DEF Base
  <2> QED
    BY <1>1, <1>2, <2>1, <2>2, <2>3, KeysSame
<1>8. TablePools(t)'
  <2>1. Kind[t] # "junction" => Good(pks[t], t)'
    BY <1>1, <1>2, <1>5, GoodGrows DEF TablePools, Good
  <2>2. ASSUME stage[t] # "waiting", NEW u \in ParentsOf(t) PROVE Good(fork[t].pools[u], u)'
    <3>1. u \in Tables /\ Good(fork[t].pools[u], u)
      BY <1>1, <2>2, TableFacts DEF TablePools
    <3> QED
      BY <1>2, <1>5, <3>1, GoodGrows DEF Good
  <2> QED
    BY <1>2, <2>1, <2>2 DEF TablePools
<1>9. TableRefs(t)'
  BY <1>1, <1>2, <1>5, RefsSame
<1>10. TableInv(t)'
  BY <1>6, <1>7, <1>8, <1>9 DEF TableInv
<1> QED
  BY <1>2, <1>3, <1>4, <1>5, <1>10, StepsAlone

(***************************************************************************)
(* A piece joins the chunk.                                                *)
(***************************************************************************)
LEMMA TwoMin ==
    ASSUME NEW a \in Int, NEW b \in Int
    PROVE  /\ Min({a, b}) \in Int /\ Min({a, b}) <= a /\ Min({a, b}) <= b
           /\ Min({a, b}) = a \/ Min({a, b}) = b
<1>1. \E x \in {a, b} : \A y \in {a, b} : x <= y
  BY a <= b \/ b <= a
<1>2. Min({a, b}) \in {a, b} /\ \A y \in {a, b} : Min({a, b}) <= y
  BY <1>1 DEF Min
<1> QED
  BY <1>2

\* The lesser of two naturals.
LEMMA LesserIs ==
    ASSUME NEW a \in Nat, NEW b \in Nat
    PROVE  Min({a, b}) \in Nat /\ Min({a, b}) <= b /\ Min({a, b}) <= a
  BY TwoMin

\* A piece is not empty and fits what is left of the chunk and of its adds.
LEMMA PieceIs ==
    ASSUME NEW t \in Tables, ForkShape(t, fork[t], stage[t]), Adding(t)
    PROVE  /\ PieceSize(t) \in Nat \ {0} /\ PieceSize(t) <= Head(fork[t].adds)
           /\ Len(fork[t].buf) + PieceSize(t) <= ChunkRows
           /\ Head(fork[t].adds) \in Nat \ {0} /\ Tail(fork[t].adds) \in Seq(Nat \ {0})
<1> DEFINE adds == fork[t].adds
           n == Len(fork[t].buf)
<1>1. adds \in Seq(Nat \ {0}) /\ fork[t].buf \in Seq(RowType(t))
  BY DEF ForkShape
<1>2. n \in Nat
  BY <1>1
<1>3. adds # <<>> /\ n < ChunkRows
  BY DEF Adding
<1>4. PieceSize(t) = Min({Head(adds), ChunkRows - n})
  BY DEF PieceSize
<1> HIDE DEF adds, n
<1>5. Head(adds) \in Nat \ {0} /\ Tail(adds) \in Seq(Nat \ {0})
  BY <1>1, <1>3
<1>6. ChunkRows \in Nat
  BY Limits
<1>7. ChunkRows - n \in Nat \ {0}
  BY <1>2, <1>3, <1>6
<1> DEFINE h == Head(adds)
           c == ChunkRows - n
           p == PieceSize(t)
<1> HIDE DEF h, c, p
<1>8. h \in Nat \ {0} /\ c \in Nat \ {0}
  BY <1>5, <1>7 DEF h, c
<1>9. p \in Int /\ p <= h /\ p <= c /\ (p = h \/ p = c)
  <2>1. p = Min({h, c})
    BY <1>4 DEF p, h, c
  <2> QED
    BY <1>8, <2>1, TwoMin
<1>10. p \in Nat \ {0}
  BY <1>8, <1>9
<1>11. n + p <= ChunkRows
  <2>1. p <= ChunkRows - n
    BY <1>9 DEF c
  <2> QED
    BY <1>2, <1>6, <1>10, <2>1
<1> QED
  BY <1>5, <1>9, <1>10, <1>11 DEF h, p, adds, n

\* The additions that are left once a piece is made.
Remaining(adds, n, size) ==
    IF n < size THEN <<>>
    ELSE IF n = Head(adds) THEN Tail(adds)
    ELSE <<Head(adds) - n>> \o Tail(adds)

\* What remains of a call once rows were added.
LEMMA RemainingIs ==
    ASSUME NEW adds \in Seq(Nat \ {0}), adds # <<>>, NEW n \in Nat, NEW size \in Nat, n <= size, size <= Head(adds)
    PROVE  Remaining(adds, n, size) \in Seq(Nat \ {0})
<1>1. Head(adds) \in Nat \ {0} /\ Tail(adds) \in Seq(Nat \ {0})
  OBVIOUS
<1>2. CASE ~(n < size) /\ n # Head(adds)
  <2>1. Head(adds) - n \in Nat \ {0}
    BY <1>1, <1>2
  <2>2. <<Head(adds) - n>> \in Seq(Nat \ {0})
    BY <2>1
  <2>3. <<Head(adds) - n>> \o Tail(adds) \in Seq(Nat \ {0})
    BY <1>1, <2>2
  <2> QED
    BY <1>2, <2>3 DEF Remaining
<1>3. CASE n < size
  <2>1. <<>> \in Seq(Nat \ {0})
    OBVIOUS
  <2> QED
    BY <1>3, <2>1 DEF Remaining
<1>4. CASE ~(n < size) /\ n = Head(adds)
  BY <1>1, <1>4 DEF Remaining
<1> QED
  BY <1>2, <1>3, <1>4

\* Rows have finitely many keys.
LEMMA KeysFinite ==
    ASSUME NEW t, NEW rows \in Seq(RowType(t)) PROVE IsFiniteSet(Keys(ToSet(rows)))
<1> DEFINE S == Keys(ToSet(rows))
           f == [i \in 1..Len(rows) |-> rows[i].key]
<1>1. Len(rows) \in Nat
  OBVIOUS
<1>2. \A i \in 1..Len(rows) : rows[i].key \in S
  BY SetOf DEF Keys
<1>3. \A k \in S : \E i \in 1..Len(rows) : rows[i].key = k
  BY SetOf DEF Keys
<1>4. f \in Surjection(1..Len(rows), S)
  <2> HIDE DEF S
  <2> QED
    BY <1>2, <1>3 DEF Surjection
<1>5. IsFiniteSet(1..Len(rows))
  BY <1>1, FS_Interval
<1> HIDE DEF f, S
<1>6. IsFiniteSet(S)
  BY <1>4, <1>5, FS_Surjection
<1> QED
  BY <1>6 DEF S

\* The fork once rows joined the chunk.
Joined(g, next, since, base, buf, adds, short) ==
    [g EXCEPT !.pools = next, !.since = since, !.preloaded = base, !.buf = buf, !.adds = adds, !.short = short]

\* The fields of a fork a piece joined.
LEMMA JoinedIs ==
    ASSUME NEW P, NEW A, NEW B, NEW g \in [pools : P, since : Nat, adds : A, buf : B, preloaded : Nat, short : BOOLEAN],
           NEW next, NEW since \in Nat, NEW base \in Nat, NEW buf \in B, NEW adds \in A, NEW short \in BOOLEAN,
           NEW f, f = Joined(g, next, since, base, buf, adds, short)
    PROVE  /\ f \in [pools : {next}, since : Nat, adds : A, buf : B, preloaded : Nat, short : BOOLEAN]
           /\ f.pools = next /\ f.buf = buf /\ f.preloaded = base
<1> DEFINE N == {next}
<1>1. next \in N
  OBVIOUS
<1> HIDE DEF N
<1>2. f \in [pools : N, since : Nat, adds : A, buf : B, preloaded : Nat, short : BOOLEAN]
  BY <1>1 DEF Joined
<1>3. f.pools = next /\ f.buf = buf /\ f.preloaded = base
  BY DEF Joined
<1> QED
  BY <1>2, <1>3 DEF N

\* The pools a piece is made from: the table's own, and good ones of its parents.
PoolsGood(t, pools) ==
    /\ pools = [u \in {t} \cup ParentsOf(t) |-> pools[u]]
    /\ pools[t] = fork[t].pools[t]
    /\ \A u \in ParentsOf(t) : pools[u] \in Seq(Int) /\ Good(pools[u], u)

\* A function on the tables S.
IsMapOf(f, S) == DOMAIN f = S /\ f = [x \in S |-> f[x]]

\* The pools once the keys of the piece joined.
NextPools(t, pools, keys) == IF Kind[t] = "junction" THEN pools ELSE [pools EXCEPT ![t] = @ \o keys]

\* The pools a piece leaves: its own table's gets the new keys,
LEMMA NextPoolsAre ==
    ASSUME NEW t \in Tables, NEW pools, PoolsGood(t, pools), NEW keys
    PROVE  /\ IsMapOf(NextPools(t, pools, keys), {t} \cup ParentsOf(t))
           /\ Kind[t] = "junction" => NextPools(t, pools, keys)[t] = fork[t].pools[t]
           /\ Kind[t] # "junction" => NextPools(t, pools, keys)[t] = fork[t].pools[t] \o keys
<1> DEFINE next == NextPools(t, pools, keys)
<1>1. t \notin ParentsOf(t)
  BY TableFacts
<1>2. DOMAIN pools = {t} \cup ParentsOf(t)
  BY DEF PoolsGood
<1>3. CASE Kind[t] = "junction"
  BY <1>2, <1>3 DEF PoolsGood, NextPools, IsMapOf
<1>4. CASE Kind[t] # "junction"
  <2>1. next = [pools EXCEPT ![t] = pools[t] \o keys] /\ pools[t] = fork[t].pools[t]
    BY <1>4 DEF PoolsGood, NextPools, IsMapOf
  <2>2. IsMapOf(next, {t} \cup ParentsOf(t))
    BY <1>2, <2>1 DEF IsMapOf
  <2>3. next[t] = fork[t].pools[t] \o keys
    BY <1>1, <1>2, <2>1
  <2> QED
    BY <1>4, <2>2, <2>3
<1> QED
  BY <1>3, <1>4

\* those of the parents stay as they were read.
LEMMA NextPoolsOfParents ==
    ASSUME NEW t \in Tables, NEW pools, PoolsGood(t, pools), NEW keys, NEW u \in ParentsOf(t)
    PROVE  NextPools(t, pools, keys)[u] = pools[u]
<1>1. u # t
  BY TableFacts
<1>2. DOMAIN pools = {t} \cup ParentsOf(t)
  BY DEF PoolsGood
<1> QED
  BY <1>1, <1>2 DEF NextPools

\* A piece of rows with new keys and good references joins its chunk.
Piece(t, pools, rows) ==
    /\ Adding(t) /\ PoolsGood(t, pools)
    /\ rows \in Seq(RowType(t)) /\ Len(rows) <= PieceSize(t)
    /\ NewKeys(Kind[t], fork[t].pools[t], taken[t], KeysIn(rows))
    /\ \A i \in 1..Len(rows) : RefsGood(t, rows[i].refs) /\ rows[i].self = Null
    /\ Add(t, pools, rows) /\ cursor' \in [Tables -> Nat]

\* It keeps the invariant.
LEMMA AddsKeep ==
    ASSUME IInv, NEW t \in Tables, NEW pools, NEW rows, Piece(t, pools, rows)
    PROVE  IInv'
<1>0. /\ Adding(t) /\ PoolsGood(t, pools)
      /\ rows \in Seq(RowType(t)) /\ Len(rows) <= PieceSize(t)
      /\ NewKeys(Kind[t], fork[t].pools[t], taken[t], KeysIn(rows))
      /\ \A i \in 1..Len(rows) : RefsGood(t, rows[i].refs) /\ rows[i].self = Null
      /\ Add(t, pools, rows) /\ cursor' \in [Tables -> Nat]
  BY DEF Piece
<1> USE <1>0
<1>1. RunShape /\ TableShape(t) /\ TableKeys(t) /\ TablePools(t) /\ TableRefs(t)
  BY DEF IInv, TableInv
<1>2. /\ atStart' = atStart /\ emitted' = emitted /\ written' = written /\ pks' = pks
      /\ sampled' = sampled /\ tuples' = tuples /\ seqStart' = seqStart /\ stage' = stage /\ loaded' = loaded
  BY DEF Add
<1>3. stage[t] = "generating" /\ fork[t].adds # <<>>
  BY DEF Adding
<1> DEFINE g     == fork[t]
           pool  == g.pools[t]
           keys  == KeysIn(rows)
           next  == NextPools(t, pools, keys)
           since == IF Redraws(t) THEN 0 ELSE g.since
           base  == IF g.buf = <<>> THEN Len(pools[t]) ELSE g.preloaded
           buf   == g.buf \o rows
           adds  == Remaining(g.adds, Len(rows), PieceSize(t))
           short == Len(rows) < PieceSize(t)
           f     == Joined(g, next, since, base, buf, adds, short)
<1>4. fork' = [fork EXCEPT ![t] = f]
  <2> DEFINE added == IF Kind[t] = "junction" THEN pools
                      ELSE [pools EXCEPT ![t] = @ \o [i \in DOMAIN rows |-> rows[i].key]]
             left  == IF Len(rows) < PieceSize(t) THEN <<>>
                      ELSE IF Len(rows) = Head(g.adds) THEN Tail(g.adds)
                      ELSE <<Head(g.adds) - Len(rows)>> \o Tail(g.adds)
  <2>1. fork' = [fork EXCEPT ![t] =
           [g EXCEPT !.pools = added, !.since = since, !.preloaded = base, !.buf = buf, !.adds = left, !.short = short]]
    BY DEF Add
  <2>2. added = next
    BY DEF NextPools, KeysIn
  <2>3. left = adds
    BY DEF Remaining
  <2> HIDE DEF added, left, since, base, buf, short, next, adds, g
  <2> QED
    BY <2>1, <2>2, <2>3 DEF Joined
<1>5. ForkShape(t, g, stage[t])
  BY <1>1 DEF TableShape
<1>6. /\ g \in [pools : {g.pools}, since : Nat, adds : Seq(Nat \ {0}), buf : Seq(RowType(t)), preloaded : Nat, short : BOOLEAN]
      /\ g.pools = [u \in {t} \cup ParentsOf(t) |-> g.pools[u]] /\ pool \in Seq(KeyType(t)) /\ loaded
      /\ pools[t] = pool
  BY <1>3, <1>5 DEF ForkShape, PoolsGood
<1>7. g.buf \in Seq(RowType(t)) /\ Len(g.buf) \in Nat /\ g.since \in Nat /\ g.preloaded \in Nat /\ Len(pool) \in Nat
  BY <1>6
<1>8. /\ PieceSize(t) \in Nat \ {0} /\ PieceSize(t) <= Head(g.adds) /\ Len(g.buf) + PieceSize(t) <= ChunkRows
  BY <1>5, PieceIs
<1>9. Len(rows) \in Nat
  OBVIOUS
<1>10. adds \in Seq(Nat \ {0})
  <2>1. g.adds \in Seq(Nat \ {0})
    BY <1>6
  <2> QED
    BY <1>3, <1>8, <1>9, <2>1, RemainingIs
<1>11. /\ buf \in Seq(RowType(t)) /\ KeysIn(buf) = KeysIn(g.buf) \o keys /\ Len(buf) = Len(g.buf) + Len(rows)
       /\ \A i \in 1..Len(g.buf) : buf[i] = g.buf[i]
       /\ \A i \in 1..Len(rows) : buf[Len(g.buf) + i] = rows[i]
  <2>1. g.buf \in Seq(RowType(t))
    BY <1>7
  <2> HIDE DEF g
  <2>2. buf \in Seq(RowType(t)) /\ KeysIn(buf) = KeysIn(g.buf) \o keys
    BY <2>1, KeysInConcat
  <2>3. buf = g.buf \o rows
    OBVIOUS
  <2> HIDE DEF buf, keys
  <2> QED
    BY <2>1, <2>2, <2>3, Concat
<1>12. keys \in Seq(KeyType(t)) /\ KeysIn(g.buf) \in Seq(KeyType(t)) /\ Made(t) \in Seq(KeyType(t))
  <2>1. emitted[t] \in Seq(RowType(t))
    BY <1>1 DEF TableShape
  <2> QED
    BY <1>7, <2>1, KeysInIs DEF Made
<1>13. /\ next = [u \in {t} \cup ParentsOf(t) |-> next[u]] /\ DOMAIN next = {t} \cup ParentsOf(t)
       /\ next[t] = IF Kind[t] = "junction" THEN pool ELSE pool \o keys
       /\ \A u \in ParentsOf(t) : next[u] = pools[u]
  <2>1. /\ IsMapOf(next, {t} \cup ParentsOf(t))
        /\ Kind[t] = "junction" => next[t] = fork[t].pools[t]
        /\ Kind[t] # "junction" => next[t] = fork[t].pools[t] \o keys
    <3> HIDE DEF keys
    <3> QED
      BY NextPoolsAre
  <2>2. ASSUME NEW u \in ParentsOf(t) PROVE next[u] = pools[u]
    <3> HIDE DEF keys
    <3> QED
      BY NextPoolsOfParents
  <2> HIDE DEF next, keys
  <2> QED
    BY <2>1, <2>2 DEF IsMapOf
<1>14. since \in Nat /\ base \in Nat /\ short \in BOOLEAN
  BY <1>6, <1>7
<1> HIDE DEF since, adds, short, next
<1>15. /\ f \in [pools : {next}, since : Nat, adds : Seq(Nat \ {0}), buf : Seq(RowType(t)), preloaded : Nat, short : BOOLEAN]
       /\ f.pools = next /\ f.buf = buf /\ f.preloaded = base
  <2> DEFINE P == {g.pools}
             A == Seq(Nat \ {0})
             B == Seq(RowType(t))
  <2>1. f = Joined(g, next, since, base, buf, adds, short)
    OBVIOUS
  <2>2. /\ g \in [pools : P, since : Nat, adds : A, buf : B, preloaded : Nat, short : BOOLEAN]
        /\ adds \in A /\ buf \in B
    BY <1>6, <1>10, <1>11
  <2> HIDE DEF base, buf, g, f, P, A, B
  <2>3. /\ f \in [pools : {next}, since : Nat, adds : A, buf : B, preloaded : Nat, short : BOOLEAN]
        /\ f.pools = next /\ f.buf = buf /\ f.preloaded = base
    BY <1>14, <2>1, <2>2, JoinedIs
  <2> QED
    BY <2>3 DEF A, B
<1> HIDE DEF f
<1>16. IsMap(fork') /\ fork'[t] = f /\ \A u \in Tables : u # t => fork'[u] = fork[u]
  BY <1>1, <1>4 DEF RunShape, IsMap
<1>17. /\ IsMap(taken') /\ (\A u \in Tables : u # t => taken'[u] = taken[u])
       /\ taken'[t] = IF Kind[t] = "sequence" THEN taken[t] ELSE taken[t] \cup ToSet(keys)
  <2>1. taken' = [taken EXCEPT ![t] = IF TracksKeys(t) THEN @ \cup Keys(ToSet(rows)) ELSE @]
    BY DEF Add
  <2>2. ToSet(keys) = Keys(ToSet(rows))
    BY KeysInIs
  <2> HIDE DEF keys
  <2> QED
    BY <1>1, <2>1, <2>2 DEF RunShape, IsMap, TracksKeys
<1>18. RunShape'
  BY <1>1, <1>2, <1>16, <1>17 DEF RunShape
<1>19. Grows
  BY <1>2, SameRows
<1>20. next[t] \in Seq(KeyType(t))
  <2>1. pool \o keys \in Seq(KeyType(t))
    BY <1>6, <1>12, Concat
  <2> QED
    BY <1>6, <1>13, <2>1
<1>21. OwnPool(t) = pool /\ OwnPool(t)' = next[t] /\ Base(t) = base
  BY <1>2, <1>3, <1>6, <1>15, <1>16 DEF OwnPool, Base
<1>22. base <= Len(pool)
  BY <1>3, <1>5, <1>6, <1>7 DEF ForkShape
<1>23. Base(t)' = base /\ (IF buf = <<>> THEN Len(next[t]) <= PoolLimit ELSE base <= Len(next[t]))
  <2>1. CASE buf = <<>>
    <3>1. Len(buf) = 0
      BY <2>1
    <3>2. Len(g.buf) = 0 /\ Len(rows) = 0
      BY <1>7, <1>9, <1>11, <3>1
    <3>3. g.buf = <<>> /\ rows = <<>>
      BY <1>7, <3>2
    <3>4. keys = <<>>
      BY <3>3, NoKeys
    <3>5. pool \o keys = pool
      BY <1>6, <3>4, ConcatEmptySeq
    <3>6. next[t] = pool
      BY <1>13, <3>5
    <3>7. Len(pool) <= PoolLimit
      BY <1>3, <1>5, <3>3 DEF ForkShape
    <3> QED
      BY <1>15, <1>16, <1>21, <2>1, <3>3, <3>6, <3>7 DEF Base
  <2>2. CASE buf # <<>>
    <3>1. Len(pool \o keys) = Len(pool) + Len(keys) /\ Len(keys) \in Nat
      BY <1>6, <1>12, Concat
    <3>2. base <= Len(next[t])
      BY <1>7, <1>13, <1>14, <1>22, <3>1, SMTT(30)
    <3> QED
      BY <1>15, <1>16, <2>2, <3>2 DEF Base
  <2> QED
    BY <2>1, <2>2
<1> HIDE DEF buf, base, pool, keys, g
<1>24. f.pools[t] = next[t] /\ \A u \in ParentsOf(t) : f.pools[u] = pools[u]
  BY <1>13, <1>15
<1>25. \A u \in ParentsOf(t) : pools[u] \in Seq(Int) /\ Good(pools[u], u)
  BY DEF PoolsGood
<1>26. TableShape(t)'
  <2>1. Len(f.buf) <= ChunkRows
    <3>1. Len(buf) = Len(g.buf) + Len(rows)
      BY <1>11
    <3>2. f.buf = buf
      BY <1>15
    <3>3. Len(buf) <= ChunkRows
      BY <1>7, <1>8, <1>9, <3>1, Limits
    <3> QED
      BY <3>2, <3>3
  <2>2. f \in [pools : {f.pools}, since : Nat, adds : Seq(Nat \ {0}), buf : Seq(RowType(t)), preloaded : Nat, short : BOOLEAN]
    BY <1>15
  <2>3. DOMAIN f.pools = {t} \cup ParentsOf(t) /\ f.pools = [u \in {t} \cup ParentsOf(t) |-> f.pools[u]]
    BY <1>13, <1>15
  <2>4. f.pools[t] \in Seq(KeyType(t)) /\ \A u \in ParentsOf(t) : f.pools[u] \in Seq(Int)
    BY <1>20, <1>24, <1>25
  <2>5. IF f.buf = <<>> THEN Len(f.pools[t]) <= PoolLimit ELSE f.preloaded <= Len(f.pools[t])
    BY <1>15, <1>23, <1>24
  <2>6. ForkShape(t, f, "generating")
    BY <1>6, <2>1, <2>2, <2>3, <2>4, <2>5 DEF ForkShape
  <2>7. IsFiniteSet(taken'[t])
    <3>1. IsFiniteSet(taken[t])
      BY <1>1 DEF TableShape
    <3>2. IsFiniteSet(ToSet(keys))
      BY KeysFinite, KeysInIs DEF keys
    <3>3. IsFiniteSet(taken[t] \cup ToSet(keys))
      BY <3>1, <3>2, FS_Union
    <3>4. taken'[t] = taken[t] \/ taken'[t] = taken[t] \cup ToSet(keys)
      BY <1>17
    <3> QED
      BY <3>1, <3>3, <3>4
  <2>8. ForkShape(t, fork[t], stage[t])'
    BY <1>2, <1>3, <1>16, <2>6 DEF ForkShape
  <2> QED
    BY <1>1, <1>2, <2>7, <2>8 DEF TableShape
<1>27. TableKeys(t)'
  <2> DEFINE made   == Made(t)
             making == KeysIn(g.buf)
             old    == OldKeys(t)
             T      == KeyType(t)
  <2>1. Making(t) = making
    BY DEF Making, g
  <2>2. Made(t)' = made /\ OldKeys(t)' = old /\ Stray(t)' = Stray(t) /\ Used(t)' = Used(t)
    BY <1>2, StraySame DEF Made, Used
  <2>3. Making(t)' = making \o keys
    BY <1>11, <1>15, <1>16 DEF Making
  <2>4. Used(t) = old \cup ToSet(made)
    BY DEF Used
  <2>5. old \in SUBSET T
    BY <1>1, OldTyped DEF RunShape
  <2>6. /\ NoRepeats(old, made, making) /\ PoolLeads(Kind[t], pool, base, old \cup ToSet(made), making, taken[t])
        /\ Kind[t] # "junction" => PoolEnds(pool, base, making) /\ PoolHolds(pool, base, Used(t) \cup Stray(t))
    BY <1>1, <1>6, <1>21, <2>1, <2>4 DEF TableKeys
  <2>7. NewKeys(Kind[t], pool, taken[t], keys)
    BY DEF pool, g, keys
  <2>8. Kind[t] = "sequence" => T = Int
    BY TableFacts
  <2>9. /\ Kind[t] # "junction" => pool \in Seq(T) /\ PoolEnds(pool, base, making)
        /\ Kind[t] # "junction" => next[t] = pool \o keys
        /\ taken'[t] = IF Kind[t] = "sequence" THEN taken[t] ELSE taken[t] \cup ToSet(keys)
        /\ made \in Seq(T) /\ making \in Seq(T) /\ keys \in Seq(T)
    BY <1>6, <1>12, <1>13, <1>17, <2>6
  <2> HIDE DEF made, making, old, T
  <2>10. /\ NoRepeats(old, made, making \o keys)
         /\ PoolLeads(Kind[t], next[t], base, old \cup ToSet(made), making \o keys, taken'[t])
         /\ Kind[t] # "junction" => PoolEnds(next[t], base, making \o keys)
    BY <2>5, <2>6, <2>7, <2>8, <2>9, AddKeeps
  <2>11. ASSUME Kind[t] # "junction" PROVE PoolHolds(next[t], base, Used(t) \cup Stray(t))
    <3>1. next[t] = pool \o keys /\ pool \in Seq(T) /\ keys \in Seq(T)
      BY <2>9, <2>11
    <3>2. \A i \in 1..Len(pool) : next[t][i] = pool[i]
      BY <3>1, Concat
    <3>3. \A i \in 1..base : i \in 1..Len(pool)
      BY <1>7, <1>14, <1>22
    <3> QED
      BY <2>6, <2>11, <3>2, <3>3 DEF PoolHolds
  <2>12. Counted(Kind[t], ToSet(made) \cup ToSet(making \o keys))
    <3> SUFFICES ASSUME Kind[t] = "sequence", NEW k \in ToSet(keys) PROVE k > 0
      BY <1>1, <2>1, <2>9, SetOfConcat DEF TableKeys, Counted, made
    <3>1. pool \in Seq(Int) /\ Len(pool) \in Nat
      BY <2>8, <2>9
    <3>2. NextSequential(pool) \in Int /\ Len(pool) <= NextSequential(pool)
      BY <3>1, NextIs
    <3>3. PICK i \in 1..Len(keys) : k = keys[i]
      BY <2>9, SetOf
    <3>4. keys[i] = NextSequential(pool) + i
      BY <2>7, <3>3 DEF NewKeys
    <3> QED
      BY <3>1, <3>2, <3>3, <3>4
  <2> QED
    BY <1>21, <1>23, <2>2, <2>3, <2>4, <2>10, <2>11, <2>12 DEF TableKeys
<1>28. TablePools(t)'
  <2>1. Kind[t] # "junction" => Good(pks[t], t)'
    BY <1>1, <1>2, <1>19, GoodGrows DEF TablePools, Good
  <2>2. ASSUME NEW u \in ParentsOf(t) PROVE Good(fork[t].pools[u], u)'
    <3>1. u \in Tables /\ Good(pools[u], u)
      BY <1>25, TableFacts
    <3> QED
      BY <1>2, <1>16, <1>19, <1>24, <3>1, GoodGrows DEF Good
  <2> QED
    BY <2>1, <2>2 DEF TablePools
<1>29. TableRefs(t)'
  <2>1. ASSUME NEW i \in 1..Len(emitted[t]) PROVE RefsGood(t, emitted[t][i].refs)' /\ SelfGood(emitted[t], i)
    <3>1. RefsGood(t, emitted[t][i].refs) /\ SelfGood(emitted[t], i)
      BY <1>1 DEF TableRefs
    <3>2. (emitted[t][i].refs)' = emitted[t][i].refs
      BY <1>2
    <3>3. RefsStayGood(t, emitted[t][i].refs)
      BY <1>2, <1>19, <3>1, RefsGoodGrows
    <3> QED
      BY <3>1, <3>2, <3>3 DEF RefsGood, RefsStayGood
  <2>2. ASSUME NEW i \in 1..Len(buf) PROVE RefsGood(t, buf[i].refs) /\ buf[i].self = Null
    <3>1. CASE i \in 1..Len(g.buf)
      BY <1>1, <1>11, <3>1 DEF TableRefs, g
    <3>2. CASE i \notin 1..Len(g.buf)
      <4>1. PICK j \in 1..Len(rows) : i = Len(g.buf) + j
        <5>1. i - Len(g.buf) \in 1..Len(rows) /\ i = Len(g.buf) + (i - Len(g.buf))
          BY <1>7, <1>9, <1>11, <2>2, <3>2
        <5> QED
          BY <5>1
      <4>2. buf[Len(g.buf) + j] = rows[j]
        BY <1>11
      <4> QED
        BY <4>1, <4>2
    <3> QED
      BY <3>1, <3>2
  <2>3. (fork[t].buf)' = buf
    BY <1>15, <1>16
  <2>4. ASSUME NEW i \in 1..Len((fork[t].buf)')
        PROVE  RefsGood(t, fork[t].buf[i].refs)' /\ (fork[t].buf[i].self)' = Null
    <3>1. RefsGood(t, buf[i].refs) /\ buf[i].self = Null
      BY <2>2, <2>3
    <3>2. (fork[t].buf[i].refs)' = buf[i].refs /\ (fork[t].buf[i].self)' = buf[i].self
      BY <2>3
    <3>3. RefsStayGood(t, buf[i].refs)
      BY <1>2, <1>19, <3>1, RefsGoodGrows
    <3> QED
      BY <3>1, <3>2, <3>3 DEF RefsStayGood, RefsGood
  <2> QED
    BY <1>2, <2>1, <2>4 DEF TableRefs, SelfGood
<1>30. TableInv(t)'
  BY <1>26, <1>27, <1>28, <1>29 DEF TableInv
<1> QED
  BY <1>2, <1>16, <1>17, <1>18, <1>19, <1>30, StepsAlone

\* Sampled parents that are read again give good pools too.
LEMMA DrawnGood ==
    ASSUME RunShape, \A u \in Tables : TableShape(u) /\ TableKeys(u), NEW t \in Tables, TablePools(t),
           stage[t] = "generating", NEW pools \in PoolsOf(t)
    PROVE  PoolsGood(t, pools)
<1> DEFINE R == IF Redraws(t) THEN sampled \cap ParentsOf(t) ELSE {}
           old == fork[t].pools
<1>1. PICK drawn \in PoolsRead(R) :
         pools = [u \in {t} \cup ParentsOf(t) |-> IF u \in R THEN drawn[u] ELSE old[u]]
  BY DEF PoolsOf
<1>2. R \subseteq ParentsOf(t) /\ ParentsOf(t) \subseteq Tables /\ t \notin ParentsOf(t)
  BY TableFacts
<1>3. \A u \in ParentsOf(t) : old[u] \in Seq(Int)
  BY DEF TableShape, ForkShape
<1>4. \A u \in ParentsOf(t) : Good(old[u], u)
  BY DEF TablePools
<1> HIDE DEF R, old
<1>5. \A u \in R : drawn[u] \in Pools(u)
  BY <1>1 DEF PoolsRead
<1>6. pools = [u \in {t} \cup ParentsOf(t) |-> pools[u]]
  BY <1>1
<1>7. DOMAIN pools = {t} \cup ParentsOf(t) /\ pools[t] = old[t]
  BY <1>1, <1>2
<1>8. ASSUME NEW u \in ParentsOf(t) PROVE pools[u] \in Seq(Int) /\ Good(pools[u], u)
  <2>1. CASE u \in R
    <3>1. pools[u] \in Pools(u) /\ u \in Tables /\ Kind[u] # "junction"
      BY <1>1, <1>2, <1>5, <2>1, TableFacts
    <3> QED
      BY <3>1, PoolsAre DEF TableKeys, Counted
  <2>2. CASE u \notin R
    <3>1. pools[u] = old[u]
      BY <1>1, <2>2
    <3> QED
      BY <1>3, <1>4, <3>1
  <2> QED
    BY <2>1, <2>2
<1> QED
  BY <1>6, <1>7, <1>8 DEF PoolsGood, old

\* References taken from good pools name rows.
LEMMA RefsFromGood ==
    ASSUME NEW t \in Tables, NEW pools, PoolsGood(t, pools), NEW refs \in RefsFrom(t, pools)
    PROVE  refs \in Seq(Int \cup {Null}) /\ RefsGood(t, refs)
<1>1. /\ DOMAIN Parents[t] = 1..Len(Parents[t]) /\ Len(Parents[t]) \in Nat
      /\ \A c \in 1..Len(Parents[t]) : Parents[t][c] \in ParentsOf(t)
  BY TableFacts
<1>2. /\ DOMAIN refs = DOMAIN Parents[t] /\ refs = [c \in DOMAIN Parents[t] |-> refs[c]]
      /\ \A c \in DOMAIN Parents[t] : refs[c] \in Referents(t, pools[Parents[t][c]])
  BY DEF RefsFrom
<1>3. ASSUME NEW c \in DOMAIN Parents[t]
      PROVE  /\ refs[c] \in Int \cup {Null}
             /\ refs[c] \in Referable(Parents[t][c]) \cup Stray(Parents[t][c]) \/ (refs[c] = Null /\ t \in Optional)
  <2> DEFINE u == Parents[t][c]
             pool == pools[u]
  <2>1. u \in ParentsOf(t)
    BY <1>1
  <2>2. pool \in Seq(Int) /\ Good(pool, u)
    BY <2>1 DEF PoolsGood
  <2>3. refs[c] \in Referents(t, pool)
    BY <1>2
  <2> HIDE DEF pool
  <2>4. CASE pool = <<>> /\ t \in Optional /\ ~Enumerated(t)
    BY <2>3, <2>4 DEF Referents
  <2>5. CASE ~(pool = <<>> /\ t \in Optional /\ ~Enumerated(t))
    <3>1. refs[c] \in ToSet(pool)
      BY <2>3, <2>5 DEF Referents
    <3>2. ToSet(pool) \subseteq Int
      BY <2>2, SetOf
    <3> QED
      BY <2>2, <3>1, <3>2 DEF Good
  <2> QED
    BY <2>4, <2>5
<1>4. refs \in [1..Len(Parents[t]) -> Int \cup {Null}]
  BY <1>1, <1>2, <1>3
<1>5. refs \in Seq(Int \cup {Null})
  BY <1>1, <1>4
<1> QED
  BY <1>2, <1>3, <1>5 DEF RefsGood

\* Rows of sequence and random keys join the chunk.
LEMMA StandardPiece ==
    ASSUME IInv, NEW t \in Tables, AddStandard(t) PROVE \E pools, rows : Piece(t, pools, rows)
<1>1. RunShape /\ (\A u \in Tables : TableShape(u) /\ TableKeys(u)) /\ TableShape(t) /\ TablePools(t)
  BY DEF IInv, TableInv
<1>2. Adding(t) /\ stage[t] = "generating" /\ Kind[t] # "junction" /\ cursor' = cursor
  BY DEF AddStandard, Adding, Enumerated
<1> DEFINE k == PieceSize(t)
<1>3. PICK pools \in PoolsOf(t) :
         \E keys \in KeysFrom(t, pools[t], k), refs \in [1..k -> RefsFrom(t, pools)], tags \in [1..k -> TagsOf(t)] :
            Add(t, pools, [i \in 1..k |-> Row(keys[i], refs[i], tags[i])])
  BY DEF AddStandard
<1>4. PICK keys \in KeysFrom(t, pools[t], k), refs \in [1..k -> RefsFrom(t, pools)], tags \in [1..k -> TagsOf(t)] :
            Add(t, pools, [i \in 1..k |-> Row(keys[i], refs[i], tags[i])])
  BY <1>3
<1>5. PoolsGood(t, pools)
  BY <1>1, <1>2, DrawnGood
<1>6. k \in Nat
  BY <1>1, <1>2, PieceIs DEF TableShape
<1> DEFINE rows == [i \in 1..k |-> Row(keys[i], refs[i], tags[i])]
           pool == fork[t].pools[t]
<1>7. Add(t, pools, rows)
  BY <1>4
<1>8. pools[t] = pool /\ pool \in Seq(Int)
  <2>1. KeyType(t) = Int
    BY <1>2, TableFacts
  <2> QED
    BY <1>1, <1>2, <1>5, <2>1 DEF PoolsGood, TableShape, ForkShape
<1> HIDE DEF k, pool
<1>9. keys \in [1..k -> Int] /\ NewKeys(Kind[t], pool, taken[t], keys)
  <2>1. CASE Kind[t] = "sequence"
    <3> DEFINE n == NextSequential(pool)
    <3>1. keys = [i \in 1..k |-> n + i]
      BY <1>4, <1>8, <2>1 DEF KeysFrom
    <3>2. n \in Int
      BY <1>8, NextIs
    <3> HIDE DEF n
    <3>3. keys \in [1..k -> Int] /\ Len(keys) = k /\ IsInjective(keys)
      BY <1>6, <3>1, <3>2 DEF IsInjective
    <3>4. \A i \in 1..Len(keys) : keys[i] = n + i
      BY <3>1, <3>3
    <3> QED
      BY <2>1, <3>3, <3>4 DEF NewKeys, n
  <2>2. CASE Kind[t] # "sequence"
    <3>1. keys \in [1..k -> RandomKeys \ taken[t]] /\ IsInjective(keys)
      BY <1>4, <2>2 DEF KeysFrom
    <3>2. keys \in [1..k -> Int]
      BY <3>1, KeyStreamAssumption
    <3>3. ToSet(keys) \cap taken[t] = {}
      BY <3>1 DEF ToSet
    <3> QED
      BY <2>2, <3>1, <3>2, <3>3 DEF NewKeys
  <2> QED
    BY <2>1, <2>2
<1>10. ASSUME NEW i \in 1..k
       PROVE  /\ rows[i] = Row(keys[i], refs[i], tags[i]) /\ rows[i] \in RowType(t)
              /\ rows[i].key = keys[i] /\ RefsGood(t, rows[i].refs) /\ rows[i].self = Null
  <2>1. rows[i] = Row(keys[i], refs[i], tags[i])
    OBVIOUS
  <2>2. refs[i] \in Seq(Int \cup {Null}) /\ RefsGood(t, refs[i])
    BY <1>5, RefsFromGood
  <2>3. tags[i] \in Tags \cup {Null}
    BY DEF TagsOf
  <2>4. keys[i] \in KeyType(t)
    BY <1>2, <1>9, TableFacts
  <2> HIDE DEF rows
  <2>5. rows[i].key = keys[i] /\ rows[i].refs = refs[i] /\ rows[i].self = Null
    BY <2>1 DEF Row
  <2>6. rows[i] \in RowType(t)
    BY <2>1, <2>2, <2>3, <2>4 DEF Row, RowType
  <2> QED
    BY <2>1, <2>2, <2>5, <2>6
<1>11. DOMAIN rows = 1..k /\ rows = [i \in 1..k |-> rows[i]]
  OBVIOUS
<1> HIDE DEF rows
<1>12. rows \in Seq(RowType(t)) /\ Len(rows) = k
  BY <1>6, <1>10, <1>11
<1>13. KeysIn(rows) = keys
  BY <1>9, <1>10, <1>11 DEF KeysIn
<1>14. NewKeys(Kind[t], fork[t].pools[t], taken[t], KeysIn(rows))
  BY <1>9, <1>13 DEF pool
<1>15. \A i \in 1..Len(rows) : RefsGood(t, rows[i].refs) /\ rows[i].self = Null
  BY <1>10, <1>12
<1>16. Len(rows) <= PieceSize(t)
  BY <1>6, <1>12 DEF k
<1>17. cursor' \in [Tables -> Nat]
  BY <1>1, <1>2 DEF RunShape
<1>18. rows \in Seq(RowType(t))
  BY <1>12
<1> QED
  BY <1>2, <1>5, <1>7, <1>14, <1>15, <1>16, <1>17, <1>18 DEF Piece

\* The greater of two integers.
LEMMA TwoMax ==
    ASSUME NEW a \in Int, NEW b \in Int
    PROVE  Max({a, b}) \in Int /\ Max({a, b}) >= a
<1>1. \E x \in {a, b} : \A y \in {a, b} : x >= y
  BY a <= b \/ b <= a
<1>2. Max({a, b}) \in {a, b} /\ \A y \in {a, b} : Max({a, b}) >= y
  BY <1>1 DEF Max
<1> QED
  BY <1>2

\* The positions a walk may take are combinations not used yet.
LEMMA FreeIs ==
    ASSUME NEW t \in Tables, PoolsTyped(t), cursor[t] \in Nat, IsFiniteSet(taken[t]), NEW k \in Nat
    PROVE  /\ Free(t, k) \in SUBSET Int /\ Free(t, k) \subseteq 0..(Combinations(t) - 1) /\ IsFiniteSet(Free(t, k))
           /\ \A i \in Free(t, k) : KeyAt(t, i) \notin taken[t]
           /\ WalkEnd(t, k) \in Int
<1>1. Combinations(t) \in Nat
  BY CombinationsDiffer
<1>2. Cardinality(taken[t]) \in Nat
  BY FS_CardinalityType
<1> DEFINE far == cursor[t] + k + Cardinality(taken[t])
           all == Combinations(t)
           end == WalkEnd(t, k)
<1>3. far \in Int /\ all \in Int
  BY <1>1, <1>2
<1>4. end = Min({all, far})
  BY DEF WalkEnd
<1> HIDE DEF far, all, end
<1>5. end \in Int /\ end <= all
  BY <1>3, <1>4, TwoMin
<1>6. Free(t, k) = {i \in cursor[t]..(end - 1) : KeyAt(t, i) \notin taken[t]}
  BY DEF Free, KeyAt, end
<1>7. Free(t, k) \subseteq cursor[t]..(end - 1) /\ cursor[t]..(end - 1) \subseteq 0..(all - 1)
  BY <1>3, <1>5, <1>6
<1>8. IsFiniteSet(Free(t, k))
  <2>1. IsFiniteSet(cursor[t]..(end - 1))
    BY <1>5, FS_Interval
  <2> QED
    BY <1>7, <2>1, FS_Subset
<1> QED
  BY <1>5, <1>6, <1>7, <1>8 DEF all, end

\* The rows a junction makes of the positions it got.
JunctionRows(t, got, tags) == [i \in DOMAIN got |-> Row(KeyAt(t, got[i]), Combination(t, got[i]), tags[i])]

\* Rows of a junction join the chunk: free positions are new keys.
LEMMA JunctionPiece ==
    ASSUME IInv, NEW t \in Tables, AddJunction(t) PROVE \E rows : Piece(t, fork[t].pools, rows)
<1>1. RunShape /\ TableShape(t) /\ TablePools(t)
  BY DEF IInv, TableInv
<1>2. Adding(t) /\ stage[t] = "generating" /\ Enumerated(t)
  BY DEF AddJunction, Adding
<1> DEFINE k == PieceSize(t)
<1>3. PICK free \in Ascending(Free(t, k)) :
         LET got == SubSeq(free, 1, Min({k, Len(free)}))
         IN  /\ \E tags \in [DOMAIN got -> TagsOf(t)] : Add(t, fork[t].pools, JunctionRows(t, got, tags))
             /\ cursor' = [cursor EXCEPT ![t] = IF Len(got) = k THEN Last(got) + 1 ELSE Max({cursor[t], WalkEnd(t, k)})]
  BY ZenonT(60) DEF AddJunction, JunctionRows, KeyAt
<1> DEFINE got == SubSeq(free, 1, Min({k, Len(free)}))
<1>p. PICK tags \in [DOMAIN got -> TagsOf(t)] : Add(t, fork[t].pools, JunctionRows(t, got, tags))
  BY <1>3
<1> DEFINE rows == JunctionRows(t, got, tags)
           last == IF Len(got) = k THEN Last(got) + 1 ELSE Max({cursor[t], WalkEnd(t, k)})
<1>4. Add(t, fork[t].pools, rows) /\ cursor' = [cursor EXCEPT ![t] = last]
  BY <1>3, <1>p
<1>t. \A i \in DOMAIN got : tags[i] \in Tags \cup {Null}
  BY <1>p DEF TagsOf
<1>5. k \in Nat \ {0}
  BY <1>1, <1>2, PieceIs DEF TableShape
<1>6. cursor[t] \in Nat /\ IsFiniteSet(taken[t])
  BY <1>1 DEF RunShape, TableShape
<1>7. PoolsGood(t, fork[t].pools)
  BY <1>1, <1>2 DEF PoolsGood, TableShape, ForkShape, TablePools
<1>8. PoolsTyped(t) /\ \A c \in 1..Len(Parents[t]) : Good(Pool(t, c), Parents[t][c])
  <2>1. Parents[t] \in Seq(Tables) /\ \A c \in 1..Len(Parents[t]) : Parents[t][c] \in ParentsOf(t)
    BY TableFacts
  <2>2. \A c \in 1..Len(Parents[t]) : Pool(t, c) \in Seq(Int) /\ Good(Pool(t, c), Parents[t][c])
    BY <1>7, <2>1 DEF Pool, PoolsGood
  <2> QED
    BY <2>1, <2>2 DEF PoolsTyped, Good
<1>9. /\ Free(t, k) \in SUBSET Int /\ Free(t, k) \subseteq 0..(Combinations(t) - 1) /\ IsFiniteSet(Free(t, k))
      /\ \A i \in Free(t, k) : KeyAt(t, i) \notin taken[t]
      /\ WalkEnd(t, k) \in Int
  BY <1>5, <1>6, <1>8, FreeIs
<1> DEFINE F == Free(t, k)
           n == Min({k, Len(free)})
<1> HIDE DEF F, k, got, n
<1>10. free \in Seq(F) /\ \A i, j \in 1..Len(free) : i < j => free[i] < free[j]
  <2>1. F \in SUBSET Int /\ IsFiniteSet(F) /\ free \in Ascending(F)
    BY <1>9 DEF F
  <2> QED
    BY <2>1, AscendingIs
<1>11. n \in Nat /\ n <= Len(free) /\ n <= k
  <2> DEFINE b == Len(free)
  <2>1. b \in Nat /\ k \in Nat
    BY <1>5, <1>10
  <2> HIDE DEF b
  <2>2. Min({k, b}) \in Nat /\ Min({k, b}) <= b /\ Min({k, b}) <= k
    BY <2>1, LesserIs
  <2> QED
    BY <2>2 DEF b, n
<1>12. got \in Seq(F) /\ Len(got) = n /\ \A i \in 1..n : got[i] = free[i] /\ got[i] \in F
  <2>1. got = SubSeq(free, 1, n)
    BY DEF got, n
  <2>2. got = [i \in 1..n |-> free[i]]
    BY <1>10, <1>11, <2>1
  <2>3. \A i \in 1..n : free[i] \in F
    BY <1>10, <1>11
  <2> QED
    BY <1>11, <2>2, <2>3
<1>13. \A i, j \in 1..n : i < j => got[i] < got[j]
  <2> SUFFICES ASSUME NEW i \in 1..n, NEW j \in 1..n, i < j PROVE got[i] < got[j]
    OBVIOUS
  <2>1. i \in 1..Len(free) /\ j \in 1..Len(free)
    BY <1>10, <1>11
  <2>2. got[i] = free[i] /\ got[j] = free[j]
    BY <1>12
  <2>3. free[i] < free[j]
    BY <1>10, <2>1
  <2> QED
    BY <2>2, <2>3
<1>14. DOMAIN got = 1..n
  BY <1>11, <1>12
<1>15. ASSUME NEW i \in 1..n
       PROVE  /\ got[i] \in 0..(Combinations(t) - 1) /\ KeyAt(t, got[i]) \notin taken[t]
              /\ Combination(t, got[i]) \in Seq(Int) /\ RefsGood(t, Combination(t, got[i]))
  <2>1. got[i] \in 0..(Combinations(t) - 1) /\ KeyAt(t, got[i]) \notin taken[t]
    BY <1>9, <1>12 DEF F
  <2> DEFINE x == Combination(t, got[i])
  <2>2. /\ x \in Seq(Int) /\ Len(x) = Len(Parents[t])
        /\ \A c \in 1..Len(Parents[t]) : x[c] \in ToSet(Pool(t, c))
    BY <1>8, <2>1, CombinationsDiffer
  <2> HIDE DEF x
  <2>3. DOMAIN x = 1..Len(Parents[t]) /\ DOMAIN Parents[t] = 1..Len(Parents[t])
    BY <2>2, TableFacts
  <2>4. RefsGood(t, x)
    BY <1>8, <2>2, <2>3 DEF RefsGood, Good
  <2> QED
    BY <2>1, <2>2, <2>4 DEF x
<1>16. ASSUME NEW i \in 1..n
       PROVE  /\ rows[i] \in RowType(t) /\ rows[i].key = KeyAt(t, got[i])
              /\ RefsGood(t, rows[i].refs) /\ rows[i].self = Null
  <2> DEFINE x == Combination(t, got[i])
             y == KeyAt(t, got[i])
             g == tags[i]
  <2>1. rows[i] = Row(y, x, g) /\ g \in Tags \cup {Null}
    BY <1>14, <1>t DEF JunctionRows
  <2>2. x \in Seq(Int) /\ RefsGood(t, x)
    BY <1>15
  <2>3. y \in KeyType(t)
    BY <1>2, <1>8, <1>15, KeysAtDiffer
  <2> HIDE DEF rows, x, y, g
  <2>4. rows[i].key = y /\ rows[i].refs = x /\ rows[i].self = Null
    BY <2>1 DEF Row
  <2>5. x \in Seq(Int \cup {Null})
    BY <2>2
  <2>6. rows[i] \in RowType(t)
    BY <2>1, <2>3, <2>5 DEF Row, RowType
  <2> QED
    BY <2>2, <2>4, <2>6 DEF y
<1>17. DOMAIN rows = 1..n /\ rows = [i \in 1..n |-> rows[i]]
  BY <1>14 DEF JunctionRows
<1> HIDE DEF rows
<1>18. rows \in Seq(RowType(t)) /\ Len(rows) = n
  BY <1>11, <1>16, <1>17
<1>19. NewKeys(Kind[t], fork[t].pools[t], taken[t], KeysIn(rows))
  <2> DEFINE keys == KeysIn(rows)
  <2>1. DOMAIN keys = 1..n /\ Len(keys) = n /\ \A i \in 1..n : keys[i] = KeyAt(t, got[i])
    BY <1>11, <1>16, <1>17 DEF KeysIn
  <2> HIDE DEF keys
  <2>2. ASSUME NEW i \in 1..n, NEW j \in 1..n, keys[i] = keys[j] PROVE i = j
    <3>1. KeyAt(t, got[i]) = KeyAt(t, got[j])
      BY <2>1, <2>2
    <3>2. got[i] \in 0..(Combinations(t) - 1) /\ got[j] \in 0..(Combinations(t) - 1)
      BY <1>15
    <3>3. got[i] = got[j]
      BY <1>2, <1>8, <3>1, <3>2, KeysAtDiffer
    <3>4. got[i] \in Int
      BY <3>2
    <3>5. ~(i < j) /\ ~(j < i)
      BY <1>13, <3>3, <3>4
    <3> QED
      BY <3>5
  <2>3. IsInjective(keys)
    BY <2>1, <2>2 DEF IsInjective
  <2>4. ToSet(keys) \cap taken[t] = {}
    BY <1>15, <2>1 DEF ToSet
  <2> QED
    BY <1>2, <2>3, <2>4, TableFacts DEF NewKeys, keys
<1>20. Len(rows) <= PieceSize(t)
  BY <1>11, <1>18 DEF k
<1>21. cursor' \in [Tables -> Nat]
  <2>1. last \in Nat
    <3>1. CASE Len(got) = k
      <4>1. n \in 1..n /\ Last(got) = got[n]
        BY <1>5, <1>11, <1>12, <3>1 DEF Last
      <4>2. got[n] \in Nat
        BY <1>15, <4>1
      <4> QED
        BY <3>1, <4>1, <4>2
    <3>2. CASE Len(got) # k
      <4>1. Max({cursor[t], WalkEnd(t, k)}) \in Int /\ Max({cursor[t], WalkEnd(t, k)}) >= cursor[t]
        BY <1>6, <1>9, TwoMax DEF k
      <4> QED
        BY <1>6, <3>2, <4>1
    <3> QED
      BY <3>1, <3>2
  <2> HIDE DEF last
  <2> QED
    BY <1>1, <1>4, <2>1 DEF RunShape
<1>22. \A i \in 1..Len(rows) : RefsGood(t, rows[i].refs) /\ rows[i].self = Null
  BY <1>16, <1>18
<1>23. Add(t, fork[t].pools, rows)
  BY <1>4
<1>24. rows \in Seq(RowType(t))
  BY <1>18
<1> QED
  BY <1>2, <1>7, <1>19, <1>20, <1>21, <1>22, <1>23, <1>24 DEF Piece

(***************************************************************************)
(* A chunk is handed over.                                                 *)
(***************************************************************************)
\* A row with another tag or number.
SameRow(a, b) == a.key = b.key /\ a.refs = b.refs /\ a.self = b.self

\* Numbering changes no key and no reference.
LEMMA NumberIs ==
    ASSUME RunShape, NEW t \in Tables, NEW rows \in Seq(RowType(t)), NEW numbered, numbered = Number(t, rows)
    PROVE  /\ numbered \in Seq(RowType(t)) /\ Len(numbered) = Len(rows)
           /\ \A i \in 1..Len(rows) : SameRow(numbered[i], rows[i])
<1>1. DOMAIN rows = 1..Len(rows) /\ Len(rows) \in Nat
  OBVIOUS
<1>2. numbered = [i \in 1..Len(rows) |->
          IF t \in Numbered THEN [rows[i] EXCEPT !.num = (seqStart[t] + i - 1) % NumberSpace] ELSE rows[i]]
  BY <1>1 DEF Number
<1>3. ASSUME NEW i \in 1..Len(rows) PROVE numbered[i] \in RowType(t) /\ SameRow(numbered[i], rows[i])
  <2>1. rows[i] \in RowType(t)
    OBVIOUS
  <2>2. CASE t \in Numbered
    <3> DEFINE at == seqStart[t] + i - 1
               m == at % NumberSpace
    <3>1. at \in Nat /\ NumberSpace \in Nat \ {0}
      BY Limits DEF RunShape
    <3>2. m \in Nat
      <4> HIDE DEF at
      <4> QED
        BY <3>1
    <3>3. numbered[i] = [rows[i] EXCEPT !.num = m]
      BY <1>2, <2>2
    <3> HIDE DEF m
    <3> QED
      BY <2>1, <3>2, <3>3 DEF RowType, SameRow
  <2>3. CASE t \notin Numbered
    <3>1. numbered[i] = rows[i]
      BY <1>2, <2>3
    <3> QED
      BY <2>1, <3>1 DEF SameRow
  <2> QED
    BY <2>2, <2>3
<1>4. DOMAIN numbered = 1..Len(rows) /\ numbered = [i \in 1..Len(rows) |-> numbered[i]]
  BY <1>2
<1>5. numbered \in [1..Len(rows) -> RowType(t)]
  BY <1>3, <1>4
<1>6. numbered \in Seq(RowType(t)) /\ Len(numbered) = Len(rows)
  BY <1>1, <1>5
<1> QED
  BY <1>3, <1>6

\* A settled row keeps its key and references, or is dropped.
LEMMA SettledIs ==
    ASSUME NEW t \in Tables, NEW rows \in Seq(RowType(t)), NEW out \in Settled(t, rows)
    PROVE  /\ DOMAIN out = 1..Len(rows) /\ Len(out) = Len(rows)
           /\ \A i \in 1..Len(rows) : out[i] # Null => out[i] \in RowType(t) /\ SameRow(out[i], rows[i])
<1>1. DOMAIN rows = 1..Len(rows) /\ Len(rows) \in Nat
  OBVIOUS
<1> DEFINE U == UNION {{[rows[i] EXCEPT !.tag = g] : g \in TagsOf(t) \cup {rows[i].tag}} : i \in DOMAIN rows}
           Kept(i, row, before) ==
               IF Clashes(t, rows[i], before)
                 THEN \/ row = Null
                      \/ row # Null /\ row = [rows[i] EXCEPT !.tag = row.tag] /\ ~Clashes(t, row, before)
                 ELSE row = rows[i]
<1>2. out \in [DOMAIN rows -> {Null} \cup U] /\ \A i \in DOMAIN rows : \E before : Kept(i, out[i], before)
  BY DEF Settled
<1>3. DOMAIN out = 1..Len(rows) /\ Len(out) = Len(rows)
  BY <1>1, <1>2
<1>4. ASSUME NEW i \in 1..Len(rows), out[i] # Null PROVE out[i] \in RowType(t) /\ SameRow(out[i], rows[i])
  <2>1. rows[i] \in RowType(t)
    OBVIOUS
  <2>2. PICK before : Kept(i, out[i], before)
    BY <1>1, <1>2
  <2>3. CASE out[i] = rows[i]
    BY <2>1, <2>3 DEF SameRow
  <2>4. CASE out[i] # rows[i]
    <3>1. out[i] = [rows[i] EXCEPT !.tag = out[i].tag]
      BY <1>4, <2>2, <2>4
    <3>2. out[i] \in U
      BY <1>1, <1>2, <1>4
    <3>3. PICK j \in 1..Len(rows) : \E g \in TagsOf(t) \cup {rows[j].tag} : out[i] = [rows[j] EXCEPT !.tag = g]
      BY <1>1, <3>2
    <3>4. PICK g \in TagsOf(t) \cup {rows[j].tag} : out[i] = [rows[j] EXCEPT !.tag = g]
      BY <3>3
    <3>5. rows[j] \in RowType(t)
      OBVIOUS
    <3>6. out[i].tag = g /\ g \in Tags \cup {Null}
      BY <3>4, <3>5 DEF TagsOf, RowType
    <3> DEFINE tag == out[i].tag
    <3>7. tag \in Tags \cup {Null} /\ out[i] = [rows[i] EXCEPT !.tag = tag]
      BY <3>1, <3>6
    <3> HIDE DEF tag
    <3> QED
      BY <2>1, <3>7 DEF RowType, SameRow
  <2> QED
    BY <2>3, <2>4
<1> QED
  BY <1>3, <1>4

\* The rows kept of a chunk, in order.
KeptAt(out) == {i \in DOMAIN out : out[i] # Null}
KeptRows(out, left) == [i \in DOMAIN left |-> out[left[i]]]

\* The rows that are kept have keys picked from those of the chunk.
LEMMA KeptIs ==
    ASSUME NEW t \in Tables, NEW rows \in Seq(RowType(t)), NEW out,
           DOMAIN out = 1..Len(rows),
           \A i \in 1..Len(rows) : out[i] # Null => out[i] \in RowType(t) /\ SameRow(out[i], rows[i]),
           NEW left \in Ascending(KeptAt(out)), NEW kept, kept = KeptRows(out, left)
    PROVE  /\ kept \in Seq(RowType(t)) /\ Picks(left, KeysIn(kept), KeysIn(rows))
           /\ \A i \in 1..Len(kept) : \E j \in 1..Len(rows) : SameRow(kept[i], rows[j])
<1> DEFINE L == KeptAt(out)
<1>1. L \subseteq 1..Len(rows) /\ Len(rows) \in Nat /\ \A i \in L : out[i] # Null
  BY DEF KeptAt
<1>2. L \in SUBSET Int /\ left \in Ascending(L)
  BY <1>1
<1> HIDE DEF L
<1>3. IsFiniteSet(L)
  <2>1. IsFiniteSet(1..Len(rows))
    BY <1>1, FS_Interval
  <2> QED
    BY <1>1, <2>1, FS_Subset
<1>4. left \in Seq(L) /\ \A i, j \in 1..Len(left) : i < j => left[i] < left[j]
  BY <1>2, <1>3, AscendingIs
<1> DEFINE n == Len(left)
<1>5. n \in Nat /\ DOMAIN left = 1..n /\ \A i \in 1..n : left[i] \in L
  BY <1>4
<1> HIDE DEF n
<1>6. kept = [i \in 1..n |-> out[left[i]]]
  BY <1>5 DEF KeptRows
<1>7. ASSUME NEW i \in 1..n
      PROVE  /\ kept[i] = out[left[i]] /\ kept[i] \in RowType(t)
             /\ left[i] \in 1..Len(rows) /\ SameRow(kept[i], rows[left[i]])
  <2>1. left[i] \in 1..Len(rows) /\ out[left[i]] # Null
    BY <1>1, <1>5
  <2>2. kept[i] = out[left[i]]
    BY <1>6
  <2> QED
    BY <2>1, <2>2
<1>8. DOMAIN kept = 1..n /\ kept \in [1..n -> RowType(t)]
  BY <1>6, <1>7
<1>9. kept \in Seq(RowType(t)) /\ Len(kept) = n
  BY <1>5, <1>8
<1>10. /\ Len(KeysIn(kept)) = n /\ \A i \in 1..n : KeysIn(kept)[i] = kept[i].key
  BY <1>9, KeysInIs
<1>11. Len(KeysIn(rows)) = Len(rows) /\ \A i \in 1..Len(rows) : KeysIn(rows)[i] = rows[i].key
  BY KeysInIs
<1>12. left \in [1..n -> 1..Len(rows)]
  BY <1>4, <1>5, <1>7
<1>13. \A i \in 1..n : KeysIn(kept)[i] = KeysIn(rows)[left[i]]
  BY <1>7, <1>10, <1>11 DEF SameRow
<1>14. \A i, j \in 1..n : i < j => left[i] < left[j]
  BY <1>4 DEF n
<1>15. Picks(left, KeysIn(kept), KeysIn(rows))
  BY <1>10, <1>11, <1>12, <1>13, <1>14 DEF Picks
<1>16. \A i \in 1..Len(kept) : \E j \in 1..Len(rows) : SameRow(kept[i], rows[j])
  BY <1>7, <1>9
<1> QED
  BY <1>9, <1>15, <1>16

\* A self-reference is the key of the row itself or of an earlier one, or NULL.
LEMMA SelfReferenceIs ==
    ASSUME NEW t, NEW rows, NEW i \in Nat \ {0}
    PROVE  SelfReference(t, rows, i) = Null \/ \E j \in 1..i : SelfReference(t, rows, i) = rows[j].key
<1> DEFINE E == {j \in 1..(i - 1) : Levels(i)[j] < SelfRefDepth}
<1>1. SelfReference(t, rows, i) = IF E # {} THEN rows[Max(E)].key
                                  ELSE IF t \in Optional THEN Null ELSE rows[i].key
  BY DEF SelfReference
<1>2. E \subseteq 1..(i - 1)
  OBVIOUS
<1> HIDE DEF E
<1>3. CASE E = {}
  <2>1. i \in 1..i
    OBVIOUS
  <2> QED
    BY <1>1, <1>3, <2>1
<1>4. CASE E # {}
  <2>1. IsFiniteSet(1..(i - 1))
    BY FS_Interval
  <2>2. E \in SUBSET Int /\ IsFiniteSet(E)
    <3>1. 1..(i - 1) \subseteq Int
      OBVIOUS
    <3>2. IsFiniteSet(E)
      BY <1>2, <2>1, FS_Subset
    <3> QED
      BY <1>2, <3>1, <3>2
  <2>3. \E m \in E : \A n \in E : n <= m
    BY <1>4, <2>2, Greatest
  <2>4. Max(E) \in E
    BY <2>2, <2>3 DEF Max
  <2>5. Max(E) \in 1..i
    <3>1. \A j \in 1..(i - 1) : j \in 1..i
      OBVIOUS
    <3> QED
      BY <1>2, <2>4, <3>1
  <2> QED
    BY <1>1, <1>4, <2>5
<1> QED
  BY <1>3, <1>4

\* Self-references fit the rows kept, and change no key and no other reference.
LEMMA BackfilledIs ==
    ASSUME NEW t \in Tables, NEW rows \in Seq(RowType(t)), NEW done, done = Backfilled(t, rows),
           \A i \in 1..Len(rows) : rows[i].self = Null
    PROVE  /\ done \in Seq(RowType(t)) /\ KeysIn(done) = KeysIn(rows) /\ Len(done) = Len(rows)
           /\ \A i \in 1..Len(rows) : done[i].refs = rows[i].refs /\ SelfGood(done, i)
<1>1. DOMAIN rows = 1..Len(rows) /\ Len(rows) \in Nat
  OBVIOUS
<1>2. done = [i \in 1..Len(rows) |->
         IF t \in SelfRefs THEN [rows[i] EXCEPT !.self = SelfReference(t, rows, i)] ELSE rows[i]]
  BY <1>1 DEF Backfilled
<1>3. ASSUME NEW i \in 1..Len(rows)
      PROVE  /\ done[i] \in RowType(t) /\ done[i].key = rows[i].key /\ done[i].refs = rows[i].refs
             /\ done[i].self = Null \/ \E j \in 1..i : done[i].self = rows[j].key
  <2>1. rows[i] \in RowType(t)
    OBVIOUS
  <2>2. CASE t \in SelfRefs
    <3> DEFINE ref == SelfReference(t, rows, i)
    <3>1. done[i] = [rows[i] EXCEPT !.self = ref]
      BY <1>2, <2>2
    <3>2. ref = Null \/ \E j \in 1..i : ref = rows[j].key
      BY SelfReferenceIs
    <3> HIDE DEF ref
    <3>3. KeyType(t) = Int
      <4>1. Kind[t] # "junction"
        BY <2>2, KeyStreamAssumption
      <4> QED
        BY <4>1, TableFacts
    <3>4. \A j \in 1..i : rows[j].key \in Int
      <4>1. \A j \in 1..i : j \in 1..Len(rows)
        BY <1>1
      <4> QED
        BY <3>3, <4>1, KeysInIs
    <3>5. ref \in Int \cup {Null}
      BY <3>2, <3>4
    <3>6. done[i] \in RowType(t) /\ done[i].key = rows[i].key /\ done[i].refs = rows[i].refs /\ done[i].self = ref
      BY <2>1, <3>1, <3>5 DEF RowType
    <3> QED
      BY <3>2, <3>6
  <2>3. CASE t \notin SelfRefs
    <3>1. done[i] = rows[i]
      BY <1>2, <2>3
    <3> QED
      BY <2>1, <3>1
  <2> QED
    BY <2>2, <2>3
<1>4. DOMAIN done = 1..Len(rows) /\ done = [i \in 1..Len(rows) |-> done[i]]
  BY <1>2
<1>5. done \in [1..Len(rows) -> RowType(t)]
  BY <1>3, <1>4
<1>6. done \in Seq(RowType(t)) /\ Len(done) = Len(rows)
  BY <1>1, <1>5
<1>7. KeysIn(done) = KeysIn(rows)
  BY <1>1, <1>3, <1>4 DEF KeysIn
<1>8. ASSUME NEW i \in 1..Len(rows) PROVE SelfGood(done, i)
  <2>1. CASE done[i].self = Null
    BY <2>1 DEF SelfGood
  <2>2. CASE done[i].self # Null
    <3>1. PICK j \in 1..i : done[i].self = rows[j].key
      BY <1>3, <2>2
    <3>2. j \in 1..Len(rows)
      BY <1>1
    <3>3. done[j].key = rows[j].key
      BY <1>3, <3>2
    <3> QED
      BY <3>1, <3>3 DEF SelfGood
  <2> QED
    BY <2>1, <2>2
<1> QED
  BY <1>3, <1>6, <1>7, <1>8

\* A table's pool while a chunk is being made.
ChunkPool(kind, T, old, made, making, pool, m, spent, stray) ==
    /\ kind \in {"sequence", "random", "identifying", "junction"} /\ (kind # "junction" => T = Int)
    /\ old \in SUBSET T /\ made \in Seq(T) /\ making \in Seq(T) /\ pool \in Seq(T) /\ m \in Nat /\ m <= Len(pool)
    /\ kind # "junction" => PoolEnds(pool, m, making) /\ PoolHolds(pool, m, old \cup ToSet(made) \cup stray)
    /\ PoolLeads(kind, pool, m, old \cup ToSet(made), making, spent)

\* The pool of a chunk that was handed over, cut to its limit.
LEMMA FlushedPool ==
    ASSUME NEW kind, NEW T, NEW old, NEW made, NEW making, NEW pool, NEW m, NEW spent, NEW stray,
           ChunkPool(kind, T, old, made, making, pool, m, spent, stray),
           NEW kept \in Seq(T), NEW at, Picks(at, kept, making),
           NEW limit \in Nat \ {0}, NEW capped \in CappedPools(Dropped(pool, m, making, kept), limit)
    PROVE  /\ capped \in Seq(T) /\ Len(capped) <= limit
           /\ PoolLeads(kind, capped, Len(capped), old \cup (ToSet(made) \cup ToSet(kept)), <<>>, spent)
           /\ kind # "junction" =>
                PoolHolds(capped, Len(capped), old \cup (ToSet(made) \cup ToSet(kept)) \cup stray)
<1> DEFINE used == old \cup (ToSet(made) \cup ToSet(kept))
           next == Dropped(pool, m, making, kept)
<1>0. /\ kind \in {"sequence", "random", "identifying", "junction"} /\ (kind # "junction" => T = Int)
      /\ old \in SUBSET T /\ made \in Seq(T) /\ making \in Seq(T) /\ pool \in Seq(T) /\ m \in Nat /\ m <= Len(pool)
      /\ PoolLeads(kind, pool, m, old \cup ToSet(made), making, spent)
  BY DEF ChunkPool
<1>1. CASE kind = "junction"
  <2>1. next \in Seq(T)
    <3>1. CASE Len(kept) < Len(making)
      <4>1. next = SubSeq(pool, 1, m) \o kept
        BY <3>1 DEF Dropped, Rebuilt
      <4>2. SubSeq(pool, 1, m) = [i \in 1..m |-> pool[i]]
        BY <1>0
      <4>3. \A i \in 1..m : pool[i] \in T
        BY <1>0
      <4>4. SubSeq(pool, 1, m) \in Seq(T)
        BY <1>0, <4>2, <4>3
      <4> QED
        BY <1>0, <4>1, <4>4, Concat
    <3>2. CASE ~(Len(kept) < Len(making))
      BY <1>0, <3>2 DEF Dropped
    <3> QED
      BY <3>1, <3>2
  <2>2. capped \in Seq(T) /\ Len(capped) <= limit
    BY <2>1, CappedIs
  <2>3. ToSet(kept) \subseteq ToSet(making)
    BY <1>0, PickedKeeps
  <2>4. old \cup ToSet(made) \cup ToSet(making) \subseteq spent
    BY <1>0, <1>1 DEF PoolLeads
  <2>5. used \cup ToSet(<<>>) \subseteq spent
    BY <2>3, <2>4, NoKeys
  <2>6. PoolLeads(kind, capped, Len(capped), used, <<>>, spent)
    BY <1>1, <2>5 DEF PoolLeads
  <2> QED
    BY <1>1, <2>2, <2>6
<1>2. CASE kind # "junction"
  <2>1. T \in SUBSET Int
    BY <1>0, <1>2
  <2>2. PoolEnds(pool, m, making) /\ PoolHolds(pool, m, old \cup ToSet(made) \cup stray)
    BY <1>2 DEF ChunkPool
  <2>3. /\ next \in Seq(T)
        /\ PoolLeads(kind, next, Len(next), used, <<>>, spent)
        /\ PoolHolds(next, Len(next), used \cup stray)
    BY <1>0, <1>2, <2>1, <2>2, RebuiltLeads
  <2>5. capped \in CappedPools(next, limit)
    OBVIOUS
  <2> HIDE DEF used, next
  <2>4. /\ capped \in Seq(T) /\ Len(capped) <= limit
        /\ PoolLeads(kind, capped, Len(capped), used, <<>>, spent)
        /\ PoolHolds(capped, Len(capped), used \cup stray)
    BY <2>1, <2>3, <2>5, CappedLeads
  <2> QED
    BY <2>4 DEF used
<1> QED
  BY <1>1, <1>2

\* The fork's pools once its own was cut.
Cut(pools, t, capped) == [pools EXCEPT ![t] = capped]

\* The fork once its chunk was handed over.
Flushed(g, t, capped, kept) ==
    [g EXCEPT !.pools[t] = capped, !.preloaded = Len(capped), !.since = @ + Len(kept), !.buf = <<>>]

\* The fields of a fork.
ForkIn(f, P, A, B) ==
    f \in [pools : P, since : Nat, adds : A, buf : B, preloaded : Nat, short : BOOLEAN]

\* The fields of a fork whose chunk was handed over.
LEMMA FlushedIs ==
    ASSUME NEW t, NEW P, NEW A, NEW B, <<>> \in B,
           NEW g, ForkIn(g, P, A, B),
           NEW capped, Len(capped) \in Nat, NEW kept, Len(kept) \in Nat, NEW N, Cut(g.pools, t, capped) \in N,
           NEW f, f = Flushed(g, t, capped, kept)
    PROVE  /\ ForkIn(f, N, A, B)
           /\ f.pools = Cut(g.pools, t, capped) /\ f.buf = <<>> /\ f.preloaded = Len(capped)
<1> DEFINE next == Cut(g.pools, t, capped)
           m == Len(capped)
           since == g.since + Len(kept)
           b == <<>>
<1>1. f = [g EXCEPT !.pools = next, !.preloaded = m, !.since = since, !.buf = b]
  BY DEF Flushed, Cut
<1>2. next \in N /\ m \in Nat /\ since \in Nat /\ b \in B
  BY DEF ForkIn
<1> HIDE DEF next, m, since, b
<1>3. ForkIn(f, N, A, B)
  BY <1>1, <1>2 DEF ForkIn
<1>4. f.pools = next /\ f.buf = b /\ f.preloaded = m
  BY <1>1 DEF ForkIn
<1> QED
  BY <1>3, <1>4 DEF next, m, b

\* A chunk is handed over: kept rows are used now, dropped ones left the pool.
LEMMA FlushKeeps == ASSUME IInv, NEW t \in Tables, Flush(t) PROVE IInv'
<1>1. RunShape /\ TableShape(t) /\ TableKeys(t) /\ TablePools(t) /\ TableRefs(t)
  BY DEF IInv, TableInv
<1>2. /\ stage[t] = "generating" /\ fork[t].buf # <<>>
      /\ seqStart' = [seqStart EXCEPT ![t] = @ + Len(fork[t].buf)]
      /\ atStart' = atStart /\ written' = written /\ pks' = pks /\ sampled' = sampled /\ taken' = taken
      /\ cursor' = cursor /\ stage' = stage /\ calls' = calls /\ loaded' = loaded
  BY DEF Flush
<1> DEFINE g == fork[t]
           buf == g.buf
           pool == g.pools[t]
           m == g.preloaded
<1>3. PICK out \in Settled(t, Number(t, buf)) :
       \E left \in Ascending({i \in DOMAIN out : out[i] # Null}) :
         LET kept == [i \in DOMAIN left |-> out[left[i]]]
             next == IF Len(kept) < Len(out) THEN Rebuilt(pool, m, KeysIn(kept)) ELSE pool
         IN  /\ emitted' = [emitted EXCEPT ![t] = @ \o Backfilled(t, kept)]
             /\ tuples' = [tuples EXCEPT ![t] = IF t \in Grouped THEN @ \cup TuplesOf(t, ToSet(kept)) ELSE @]
             /\ \E capped \in CappedPools(next, PoolLimit) : fork' = [fork EXCEPT ![t] = Flushed(g, t, capped, kept)]
  BY DEF Flush, Flushed
<1>4. PICK left \in Ascending({i \in DOMAIN out : out[i] # Null}) :
         LET kept == [i \in DOMAIN left |-> out[left[i]]]
             next == IF Len(kept) < Len(out) THEN Rebuilt(pool, m, KeysIn(kept)) ELSE pool
         IN  /\ emitted' = [emitted EXCEPT ![t] = @ \o Backfilled(t, kept)]
             /\ tuples' = [tuples EXCEPT ![t] = IF t \in Grouped THEN @ \cup TuplesOf(t, ToSet(kept)) ELSE @]
             /\ \E capped \in CappedPools(next, PoolLimit) : fork' = [fork EXCEPT ![t] = Flushed(g, t, capped, kept)]
  BY <1>3
<1> DEFINE kept == [i \in DOMAIN left |-> out[left[i]]]
           next == IF Len(kept) < Len(out) THEN Rebuilt(pool, m, KeysIn(kept)) ELSE pool
           done == Backfilled(t, kept)
<1>0. left \in Ascending(KeptAt(out)) /\ kept = KeptRows(out, left)
  BY DEF KeptAt, KeptRows
<1>5. PICK capped \in CappedPools(next, PoolLimit) : fork' = [fork EXCEPT ![t] = Flushed(g, t, capped, kept)]
  BY <1>4
<1>6. /\ emitted' = [emitted EXCEPT ![t] = emitted[t] \o done]
      /\ tuples' = [tuples EXCEPT ![t] = IF t \in Grouped THEN @ \cup TuplesOf(t, ToSet(kept)) ELSE @]
  BY <1>4
<1>7. ForkShape(t, g, "generating")
  BY <1>1, <1>2 DEF TableShape
<1>8. /\ g \in [pools : {g.pools}, since : Nat, adds : Seq(Nat \ {0}), buf : Seq(RowType(t)), preloaded : Nat, short : BOOLEAN]
      /\ g.pools = [u \in {t} \cup ParentsOf(t) |-> g.pools[u]] /\ DOMAIN g.pools = {t} \cup ParentsOf(t)
      /\ pool \in Seq(KeyType(t)) /\ \A u \in ParentsOf(t) : g.pools[u] \in Seq(Int)
      /\ m <= Len(pool) /\ loaded
  BY <1>2, <1>7 DEF ForkShape
<1>9. buf \in Seq(RowType(t)) /\ m \in Nat /\ Len(buf) \in Nat
  BY <1>8
<1> HIDE DEF kept, next, done
<1>10. /\ DOMAIN out = 1..Len(buf) /\ Len(out) = Len(buf)
       /\ \A i \in 1..Len(buf) : out[i] # Null => out[i] \in RowType(t) /\ SameRow(out[i], buf[i])
  <2> DEFINE rows == Number(t, buf)
  <2> HIDE DEF buf
  <2>1. rows \in Seq(RowType(t)) /\ Len(rows) = Len(buf) /\ \A i \in 1..Len(buf) : SameRow(rows[i], buf[i])
    BY <1>1, <1>9, NumberIs
  <2>2. out \in Settled(t, rows)
    OBVIOUS
  <2> HIDE DEF rows
  <2>3. /\ DOMAIN out = 1..Len(rows) /\ Len(out) = Len(rows)
        /\ \A i \in 1..Len(rows) : out[i] # Null => out[i] \in RowType(t) /\ SameRow(out[i], rows[i])
    BY <2>1, <2>2, SettledIs
  <2> QED
    BY <2>1, <2>3 DEF SameRow
<1>11. /\ kept \in Seq(RowType(t)) /\ Picks(left, KeysIn(kept), KeysIn(buf))
       /\ \A i \in 1..Len(kept) : \E j \in 1..Len(buf) : SameRow(kept[i], buf[j])
  <2> HIDE DEF buf
  <2> QED
    BY <1>0, <1>9, <1>10, KeptIs
<1>12. \A i \in 1..Len(kept) : RefsGood(t, kept[i].refs) /\ kept[i].self = Null
  <2>1. \A j \in 1..Len(buf) : RefsGood(t, buf[j].refs) /\ buf[j].self = Null
    BY <1>1 DEF TableRefs
  <2> QED
    BY <1>11, <2>1 DEF SameRow
<1>13. /\ done \in Seq(RowType(t)) /\ KeysIn(done) = KeysIn(kept) /\ Len(done) = Len(kept)
       /\ \A i \in 1..Len(kept) : done[i].refs = kept[i].refs /\ SelfGood(done, i)
  <2>1. done = Backfilled(t, kept)
    BY DEF done
  <2> QED
    BY <1>11, <1>12, <2>1, BackfilledIs
<1> DEFINE old == OldKeys(t)
           made == Made(t)
           making == KeysIn(buf)
           keys == KeysIn(kept)
           f == Flushed(g, t, capped, kept)
<1> HIDE DEF f
<1>14. /\ made \in Seq(KeyType(t)) /\ making \in Seq(KeyType(t)) /\ keys \in Seq(KeyType(t))
       /\ Len(making) = Len(buf) /\ Len(keys) = Len(kept) /\ old \in SUBSET KeyType(t)
  <2>1. emitted[t] \in Seq(RowType(t))
    BY <1>1 DEF TableShape
  <2> QED
    BY <1>1, <1>9, <1>11, <2>1, KeysInIs, OldTyped DEF Made, RunShape
<1>15. next = Dropped(pool, m, making, keys)
  BY <1>10, <1>14 DEF next, Dropped
<1>16. OwnPool(t) = pool /\ Base(t) = m /\ Making(t) = making /\ Used(t) = old \cup ToSet(made)
  BY <1>2 DEF OwnPool, Base, Making, Used
<1>17. /\ NoRepeats(old, made, making)
       /\ PoolLeads(Kind[t], pool, m, old \cup ToSet(made), making, taken[t])
       /\ Kind[t] # "junction" => PoolEnds(pool, m, making) /\ PoolHolds(pool, m, old \cup ToSet(made) \cup Stray(t))
  BY <1>1, <1>8, <1>16 DEF TableKeys
<1>18. /\ capped \in Seq(KeyType(t)) /\ Len(capped) <= PoolLimit
       /\ PoolLeads(Kind[t], capped, Len(capped), old \cup (ToSet(made) \cup ToSet(keys)), <<>>, taken[t])
       /\ Kind[t] # "junction" =>
            PoolHolds(capped, Len(capped), old \cup (ToSet(made) \cup ToSet(keys)) \cup Stray(t))
  <2> DEFINE T == KeyType(t)
  <2>1. Kind[t] \in {"sequence", "random", "identifying", "junction"} /\ (Kind[t] # "junction" => T = Int)
    BY TableFacts
  <2>2. PoolLimit \in Nat \ {0} /\ m <= Len(pool) /\ m \in Nat /\ Picks(left, keys, making)
    BY <1>8, <1>9, <1>11, Limits
  <2>3. pool \in Seq(T) /\ made \in Seq(T) /\ making \in Seq(T) /\ keys \in Seq(T) /\ old \in SUBSET T
    BY <1>8, <1>14
  <2>5. ChunkPool(Kind[t], T, old, made, making, pool, m, taken[t], Stray(t))
    <3> HIDE DEF T, old, made, making, keys, pool, m
    <3> QED
      BY <1>17, <2>1, <2>2, <2>3 DEF ChunkPool
  <2>6. capped \in CappedPools(Dropped(pool, m, making, keys), PoolLimit)
    BY <1>5, <1>15
  <2> HIDE DEF T, old, made, making, keys, pool, m
  <2>4. /\ capped \in Seq(T) /\ Len(capped) <= PoolLimit
        /\ PoolLeads(Kind[t], capped, Len(capped), old \cup (ToSet(made) \cup ToSet(keys)), <<>>, taken[t])
        /\ Kind[t] # "junction" =>
             PoolHolds(capped, Len(capped), old \cup (ToSet(made) \cup ToSet(keys)) \cup Stray(t))
    BY <2>2, <2>3, <2>5, <2>6, FlushedPool
  <2> QED
    BY <2>4 DEF T
<1>19. Len(capped) \in Nat /\ Len(kept) \in Nat /\ Len(done) \in Nat
  BY <1>11, <1>13, <1>18
<1>20. /\ f \in [pools : {f.pools}, since : Nat, adds : Seq(Nat \ {0}), buf : Seq(RowType(t)), preloaded : Nat, short : BOOLEAN]
       /\ f.pools = [g.pools EXCEPT ![t] = capped] /\ f.buf = <<>> /\ f.preloaded = Len(capped)
  <2> DEFINE P == {g.pools}
             A == Seq(Nat \ {0})
             B == Seq(RowType(t))
  <2>1. <<>> \in B
    OBVIOUS
  <2>2. ForkIn(g, P, A, B)
    BY <1>8 DEF ForkIn
  <2>3. f = Flushed(g, t, capped, kept)
    BY DEF f
  <2> HIDE DEF g, P, A, B
  <2> DEFINE N == {Cut(g.pools, t, capped)}
  <2>6. Cut(g.pools, t, capped) \in N
    OBVIOUS
  <2> HIDE DEF N
  <2>4. /\ ForkIn(f, N, A, B)
        /\ f.pools = Cut(g.pools, t, capped) /\ f.buf = <<>> /\ f.preloaded = Len(capped)
    BY <1>19, <2>1, <2>2, <2>3, <2>6, FlushedIs
  <2>5. N = {f.pools}
    BY <2>4 DEF N
  <2> QED
    BY <2>4, <2>5 DEF A, B, Cut, ForkIn
<1>21. t \notin ParentsOf(t)
  BY TableFacts
<1>22. /\ DOMAIN f.pools = {t} \cup ParentsOf(t) /\ f.pools = [u \in {t} \cup ParentsOf(t) |-> f.pools[u]]
       /\ f.pools[t] = capped /\ \A u \in ParentsOf(t) : f.pools[u] = g.pools[u]
  BY <1>8, <1>20, <1>21
<1>23. IsMap(fork') /\ fork'[t] = f /\ \A u \in Tables : u # t => fork'[u] = fork[u]
  BY <1>1, <1>5 DEF RunShape, IsMap, f
<1>24. /\ IsMap(emitted') /\ emitted'[t] = emitted[t] \o done /\ \A u \in Tables : u # t => emitted'[u] = emitted[u]
  BY <1>1, <1>6 DEF RunShape, IsMap
<1>25. IsMap(tuples')
  BY <1>1, <1>6 DEF RunShape, IsMap
<1>26. seqStart' \in [Tables -> Nat]
  <2>1. seqStart[t] + Len(buf) \in Nat
    BY <1>1, <1>9, SMTT(30) DEF RunShape
  <2> QED
    BY <1>1, <1>2, <2>1 DEF RunShape
<1>27. RunShape'
  BY <1>1, <1>2, <1>23, <1>24, <1>25, <1>26 DEF RunShape
<1> DEFINE rows == emitted[t] \o done
<1>28. /\ rows \in Seq(RowType(t)) /\ Len(rows) = Len(emitted[t]) + Len(done) /\ KeysIn(rows) = made \o keys
       /\ \A i \in 1..Len(emitted[t]) : rows[i] = emitted[t][i]
       /\ \A i \in 1..Len(done) : rows[Len(emitted[t]) + i] = done[i]
       /\ Len(emitted[t]) \in Nat
  <2>1. emitted[t] \in Seq(RowType(t))
    BY <1>1 DEF TableShape
  <2>2. rows \in Seq(RowType(t)) /\ KeysIn(rows) = KeysIn(emitted[t]) \o KeysIn(done)
    BY <1>13, <2>1, KeysInConcat
  <2>3. done \in Seq(RowType(t))
    BY <1>13
  <2> DEFINE e == emitted[t]
             T == RowType(t)
  <2>4. rows = e \o done /\ e \in Seq(T) /\ done \in Seq(T)
    BY <2>1, <2>3
  <2> HIDE DEF rows, e, T
  <2>5. /\ Len(rows) = Len(e) + Len(done) /\ Len(e) \in Nat
        /\ \A i \in 1..Len(e) : rows[i] = e[i]
        /\ \A i \in 1..Len(done) : rows[Len(e) + i] = done[i]
    BY <2>4, Concat
  <2> QED
    BY <1>13, <2>2, <2>5 DEF Made, e
<1> HIDE DEF rows
<1>29. emitted'[t] = rows
  BY <1>24 DEF rows
<1>30. /\ NoRepeats(old, made \o keys, <<>>)
       /\ ToSet(made \o keys) = ToSet(made) \cup ToSet(keys)
  <2> DEFINE T == KeyType(t)
  <2>1. made \in Seq(T) /\ making \in Seq(T) /\ keys \in Seq(T) /\ Picks(left, keys, making)
    BY <1>11, <1>14
  <2>2. NoRepeats(old, made, making)
    BY <1>17
  <2> HIDE DEF T, made, making, keys, old
  <2>3. NoRepeats(old, made \o keys, <<>>)
    BY <2>1, <2>2, FlushKeepsKeys
  <2>4. ToSet(made \o keys) = ToSet(made) \cup ToSet(keys)
    BY <2>1, SetOfConcat
  <2> QED
    BY <2>3, <2>4
<1>31. Grows
  <2>1. Referable(t) = old \cup ToSet(made)
    BY <1>1, <1>16, ReferableIs DEF TableShape
  <2>2. Referable(t)' = old \cup ToSet(made \o keys)
    <3>1. Keys(ToSet(rows)) = ToSet(KeysIn(rows))
      BY <1>28, KeysInIs
    <3>2. Referable(t)' = old \cup Keys(ToSet(rows))
      BY <1>2, <1>29 DEF Referable, OldKeys
    <3> QED
      BY <1>28, <3>1, <3>2
  <2>3. \A u \in Tables : u # t => Referable(u)' = Referable(u)
    BY <1>2, <1>24 DEF Referable
  <2> QED
    BY <1>30, <2>1, <2>2, <2>3 DEF Grows
<1>32. TableShape(t)'
  <2>1. Len(f.buf) <= ChunkRows
    BY <1>20, Limits
  <2>2. f.pools[t] \in Seq(KeyType(t)) /\ (\A u \in ParentsOf(t) : f.pools[u] \in Seq(Int)) /\ Len(f.pools[t]) <= PoolLimit
    BY <1>8, <1>18, <1>22
  <2>3. ForkShape(t, f, "generating")
    BY <1>8, <1>20, <1>22, <2>1, <2>2 DEF ForkShape
  <2>4. ForkShape(t, fork[t], stage[t])'
    BY <1>2, <1>23, <2>3 DEF ForkShape
  <2>5. emitted'[t] \in Seq(RowType(t)) /\ written[t] <= Len(emitted'[t])
    <3>1. written[t] <= Len(emitted[t]) /\ written[t] \in Nat
      BY <1>1 DEF TableShape, RunShape
    <3> QED
      BY <1>19, <1>28, <1>29, <3>1
  <2> QED
    BY <1>1, <1>2, <1>8, <2>4, <2>5 DEF TableShape
<1>33. TableKeys(t)'
  <2>1. OldKeys(t)' = old /\ Stray(t)' = Stray(t)
    BY <1>2, StraySame
  <2>2. Made(t)' = made \o keys
    BY <1>28, <1>29 DEF Made
  <2>3. Making(t)' = <<>>
    BY <1>20, <1>23, NoKeys DEF Making
  <2>4. OwnPool(t)' = capped /\ Base(t)' = Len(capped)
    BY <1>2, <1>20, <1>22, <1>23 DEF OwnPool, Base
  <2>5. Used(t)' = old \cup (ToSet(made) \cup ToSet(keys))
    BY <1>30, <2>1, <2>2 DEF Used
  <2>6. PoolEnds(capped, Len(capped), <<>>)
    BY <1>18, <1>19 DEF PoolEnds
  <2>7. Counted(Kind[t], (ToSet(made) \cup ToSet(keys)) \cup ToSet(<<>>))
    <3>1. Counted(Kind[t], ToSet(made) \cup ToSet(making))
      BY <1>1, <1>16 DEF TableKeys
    <3>2. ToSet(keys) \subseteq ToSet(making)
      <4> DEFINE T == KeyType(t)
      <4>1. making \in Seq(T) /\ keys \in Seq(T) /\ Picks(left, keys, making)
        BY <1>11, <1>14
      <4> HIDE DEF T, making, keys
      <4> QED
        BY <4>1, PickedKeeps
    <3>3. ToSet(<<>>) = {}
      BY NoKeys
    <3> HIDE DEF made, making, keys
    <3> QED
      BY <3>1, <3>2, <3>3 DEF Counted
  <2> HIDE DEF old, made, keys
  <2> QED
    BY <1>2, <1>18, <1>30, <2>1, <2>2, <2>3, <2>4, <2>5, <2>6, <2>7 DEF TableKeys
<1>34. TablePools(t)'
  <2>1. Kind[t] # "junction" => Good(pks[t], t)'
    BY <1>1, <1>2, <1>31, GoodGrows DEF TablePools, Good
  <2>2. ASSUME NEW u \in ParentsOf(t) PROVE Good(fork[t].pools[u], u)'
    <3>1. u \in Tables /\ Good(g.pools[u], u)
      BY <1>1, <1>2, TableFacts DEF TablePools
    <3> QED
      BY <1>2, <1>22, <1>23, <1>31, <3>1, GoodGrows DEF Good
  <2> QED
    BY <2>1, <2>2 DEF TablePools
<1>35. TableRefs(t)'
  <2>1. ASSUME NEW i \in 1..Len(rows) PROVE RefsGood(t, rows[i].refs) /\ SelfGood(rows, i)
    <3>1. CASE i \in 1..Len(emitted[t])
      <4>1. RefsGood(t, emitted[t][i].refs) /\ SelfGood(emitted[t], i)
        BY <1>1, <3>1 DEF TableRefs
      <4>2. \A j \in 1..i : j \in 1..Len(emitted[t])
        BY <1>28, <3>1
      <4>3. \A j \in 1..i : rows[j] = emitted[t][j]
        BY <1>28, <4>2
      <4>4. SelfGood(rows, i)
        BY <1>28, <3>1, <4>1, <4>3 DEF SelfGood
      <4> QED
        BY <1>28, <3>1, <4>1, <4>4
    <3>2. CASE i \notin 1..Len(emitted[t])
      <4> DEFINE n == Len(emitted[t])
      <4>1. PICK j \in 1..Len(done) : i = n + j
        <5>1. i - n \in 1..Len(done) /\ i = n + (i - n)
          BY <1>19, <1>28, <3>2
        <5> QED
          BY <5>1
      <4>2. rows[n + j] = done[j] /\ n \in Nat
        BY <1>28
      <4>3. j \in 1..Len(kept) /\ RefsGood(t, done[j].refs) /\ SelfGood(done, j)
        BY <1>12, <1>13
      <4>4. ASSUME NEW l \in 1..j PROVE n + l \in 1..i /\ rows[n + l] = done[l]
        <5>1. l \in 1..Len(done)
          BY <1>19
        <5>2. n + l \in 1..i
          BY <4>1, <4>2
        <5> QED
          BY <1>28, <5>1, <5>2
      <4> HIDE DEF n
      <4>5. SelfGood(rows, i)
        BY <4>1, <4>2, <4>3, <4>4 DEF SelfGood
      <4> QED
        BY <4>1, <4>2, <4>3, <4>5
    <3> QED
      BY <3>1, <3>2
  <2>2. ASSUME NEW i \in 1..Len(emitted[t]')
        PROVE  RefsGood(t, emitted[t][i].refs)' /\ SelfGood(emitted[t], i)'
    <3>1. RefsGood(t, rows[i].refs) /\ SelfGood(rows, i)
      BY <1>29, <2>1
    <3>2. (emitted[t][i].refs)' = rows[i].refs
      BY <1>29
    <3>3. RefsStayGood(t, rows[i].refs)
      BY <1>2, <1>31, <3>1, RefsGoodGrows
    <3> QED
      BY <1>29, <3>1, <3>2, <3>3 DEF RefsStayGood, RefsGood, SelfGood
  <2>3. (fork[t].buf)' = <<>>
    BY <1>20, <1>23
  <2> QED
    BY <2>2, <2>3 DEF TableRefs
<1>36. TableInv(t)'
  BY <1>32, <1>33, <1>34, <1>35 DEF TableInv
<1> QED
  BY <1>2, <1>23, <1>24, <1>27, <1>31, <1>36, StepsAlone

(***************************************************************************)
(* The invariant holds in every reachable state.                           *)
(***************************************************************************)
\* A step that changes nothing keeps the invariant.
LEMMA StutterKeeps == ASSUME IInv, UNCHANGED vars PROVE IInv'
<1>1. RunShape /\ \A u \in Tables : TableInv(u)
  BY DEF IInv
<1>2. /\ atStart' = atStart /\ emitted' = emitted /\ written' = written /\ pks' = pks
      /\ sampled' = sampled /\ taken' = taken /\ tuples' = tuples /\ seqStart' = seqStart
      /\ cursor' = cursor /\ stage' = stage /\ fork' = fork /\ loaded' = loaded
  BY DEF vars, known
<1>3. RunShape'
  BY <1>1, <1>2 DEF RunShape, IsMap
<1>4. ASSUME NEW u \in Tables PROVE TableInv(u)'
  BY <1>1, <1>2, SameRows, Frame
<1> QED
  BY <1>3, <1>4 DEF IInv

\* Every step keeps the invariant.
LEMMA StepKeeps == ASSUME IInv, [Next]_vars PROVE IInv'
<1>1. CASE Load
  BY <1>1, LoadKeeps
<1>2. ASSUME NEW t \in Tables, ForkTable(t) PROVE IInv'
  BY <1>2, ForkKeeps
<1>3. ASSUME NEW t \in Tables, Generate(t) PROVE IInv'
  <2>1. CASE AddStandard(t)
    BY <2>1, StandardPiece, AddsKeep
  <2>2. CASE AddJunction(t)
    BY <2>2, JunctionPiece, AddsKeep
  <2>3. CASE Fail(t)
    BY <2>3, FailKeeps
  <2>4. CASE Flush(t)
    BY <2>4, FlushKeeps
  <2>5. CASE Return(t)
    BY <2>5, ReturnKeeps
  <2> QED
    BY <1>3, <2>1, <2>2, <2>3, <2>4, <2>5 DEF Generate
<1>4. ASSUME NEW t \in Tables, CallAgain(t) PROVE IInv'
  BY <1>4, CallAgainKeeps
<1>5. ASSUME NEW t \in Tables, MergeTable(t) PROVE IInv'
  BY <1>5, MergeKeeps
<1>6. ASSUME NEW t \in Tables, Write(t) PROVE IInv'
  BY <1>6, WriteKeeps
<1>7. CASE UNCHANGED vars
  BY <1>7, StutterKeeps
<1> QED
  BY <1>1, <1>2, <1>3, <1>4, <1>5, <1>6, <1>7 DEF Next

\* The invariant holds throughout every run.
LEMMA Invariance == Spec => []IInv
<1>1. Init => IInv
  BY InitHolds
<1>2. IInv /\ [Next]_vars => IInv'
  BY StepKeeps
<1> QED
  BY <1>1, <1>2, PTL DEF Spec

(***************************************************************************)
(* What the invariant says of the rows handed over.                        *)
(***************************************************************************)
\* The variables keep their types, whatever the tables and limits: a pool never
\* outgrows its limit between chunks, nor a chunk its own.
THEOREM TypeCorrect == Spec => []TypeOK
<1>1. IInv => TypeOK
  <2> SUFFICES ASSUME IInv PROVE TypeOK
    OBVIOUS
  <2>1. ASSUME NEW t \in Tables
        PROVE  /\ emitted[t] \in Seq(RowType(t))
               /\ written[t] \in 0..Len(emitted[t])
               /\ Len(pks[t]) <= PoolLimit
               /\ cursor[t] \in Nat /\ seqStart[t] \in Nat
               /\ fork[t].buf \in Seq(RowType(t)) /\ Len(fork[t].buf) <= ChunkRows
    <3>1. RunShape /\ TableShape(t)
      BY DEF IInv, TableInv
    <3>2. emitted[t] \in Seq(RowType(t)) /\ written[t] \in Nat /\ written[t] <= Len(emitted[t])
      BY <3>1 DEF RunShape, TableShape
    <3>3. Len(emitted[t]) \in Nat
      BY <3>2, LenProperties
    <3>4. Len(pks[t]) <= PoolLimit /\ cursor[t] \in Nat /\ seqStart[t] \in Nat
      BY <3>1 DEF RunShape, TableShape
    <3>5. fork[t].buf \in Seq(RowType(t)) /\ Len(fork[t].buf) <= ChunkRows
      BY <3>1 DEF TableShape, ForkShape
    <3> QED
      BY <3>2, <3>3, <3>4, <3>5
  <2> QED
    BY <2>1 DEF IInv, RunShape, Stages, TypeOK
<1> QED
  BY <1>1, Invariance, PTL

\* No key is handed out twice, and none that the database held when the run
\* started: across calls and chunks, for integer, other and junction keys, for
\* samples of any size and whatever rows are dropped.
THEOREM KeysAreNew == Spec => []KeysNeverRepeat
<1>1. IInv => KeysNeverRepeat
  <2> SUFFICES ASSUME IInv, NEW t \in Tables
               PROVE  /\ IsInjective(KeysIn(emitted[t]))
                      /\ \A i \in DOMAIN emitted[t] : emitted[t][i].key \notin Keys(atStart[t])
    BY DEF KeysNeverRepeat
  <2> DEFINE made == Made(t)
             making == Making(t)
             old == OldKeys(t)
  <2>1. TableShape(t) /\ TableKeys(t)
    BY DEF IInv, TableInv
  <2>2. emitted[t] \in Seq(RowType(t)) /\ fork[t].buf \in Seq(RowType(t))
    BY <2>1 DEF TableShape, ForkShape
  <2>3. made \in Seq(KeyType(t)) /\ making \in Seq(KeyType(t))
    BY <2>2, KeysInIs DEF Made, Making
  <2>4. IsInjective(made \o making) /\ ToSet(made \o making) \cap old = {}
    BY <2>1 DEF TableKeys, NoRepeats
  <2>5. \A i \in DOMAIN emitted[t] : emitted[t][i].key \in ToSet(made)
    <3>1. DOMAIN emitted[t] = 1..Len(emitted[t])
      BY <2>2
    <3>2. DOMAIN KeysIn(emitted[t]) = DOMAIN emitted[t]
      BY DEF KeysIn
    <3>3. \A i \in DOMAIN emitted[t] : KeysIn(emitted[t])[i] = emitted[t][i].key
      BY DEF KeysIn
    <3> QED
      BY <3>2, <3>3 DEF ToSet, Made
  <2> HIDE DEF made, making, old
  <2>6. IsInjective(made)
    BY <2>3, <2>4, ConcatSplits
  <2>7. ToSet(made \o making) = ToSet(made) \cup ToSet(making)
    BY <2>3, SetOfConcat
  <2>8. ToSet(made) \cap old = {}
    BY <2>4, <2>7
  <2> QED
    BY <2>5, <2>6, <2>8 DEF made, old, Made, OldKeys
<1> QED
  BY <1>1, Invariance, PTL

\* Every reference handed over names a row stored at the start or handed over
\* before it, whatever was dropped, sampled or read again meanwhile.
THEOREM ReferencesFit == Spec => []RefsFit
<1>1. IInv => RefsFit
  <2> DEFINE strays == [t \in Tables |-> IF OnlyNegative(t) THEN {0} ELSE {}]
  <2> SUFFICES ASSUME IInv, NEW t \in Tables, NEW i \in DOMAIN emitted[t]
               PROVE  /\ \A c \in DOMAIN emitted[t][i].refs :
                           \/ emitted[t][i].refs[c] \in Referable(Parents[t][c]) \cup strays[Parents[t][c]]
                           \/ emitted[t][i].refs[c] = Null /\ t \in Optional
                      /\ emitted[t][i].self = Null \/ \E j \in 1..i : emitted[t][i].self = emitted[t][j].key
    BY DEF RefsFit, RefsName
  <2>1. emitted[t] \in Seq(RowType(t)) /\ TableRefs(t)
    BY DEF IInv, TableInv, TableShape
  <2>2. i \in 1..Len(emitted[t])
    BY <2>1
  <2>3. RefsGood(t, emitted[t][i].refs) /\ SelfGood(emitted[t], i)
    BY <2>1, <2>2 DEF TableRefs
  <2>4. ASSUME NEW c \in DOMAIN emitted[t][i].refs
        PROVE  \/ emitted[t][i].refs[c] \in Referable(Parents[t][c]) \cup strays[Parents[t][c]]
               \/ emitted[t][i].refs[c] = Null /\ t \in Optional
    <3>1. c \in DOMAIN Parents[t] /\ Parents[t][c] \in Tables
      BY <2>3, TableFacts DEF RefsGood
    <3>2. Stray(Parents[t][c]) = strays[Parents[t][c]]
      BY <3>1 DEF Stray
    <3> QED
      BY <2>3, <3>2 DEF RefsGood
  <2> QED
    BY <2>3, <2>4 DEF SelfGood
<1> QED
  BY <1>1, Invariance, PTL

(***************************************************************************)
(* UNIQUE values.                                                          *)
(***************************************************************************)
\* Two rows a table may hold together; its numbers are below at so far.
Differ(t, at, a, b) ==
    /\ t \in Grouped /\ ~HasNull(t, a) /\ ~HasNull(t, b) => Tuple(t, a) # Tuple(t, b)
    /\ t \in Numbered /\ at <= NumberSpace => a.num # b.num

\* What the stream knows of a row.
TupleKnown(t, row, seen) == t \in Grouped /\ ~HasNull(t, row) => Tuple(t, row) \in seen
NumberPassed(t, row, at)   == t \in Numbered => row.num < at

\* A row handed over differs from those before it, and the stream knows all.
TableUnique(t) ==
    /\ \A i \in 1..Len(emitted[t]) :
        /\ \A r \in atStart[t] : Differ(t, seqStart[t], emitted[t][i], r)
        /\ \A j \in 1..(i - 1) : Differ(t, seqStart[t], emitted[t][i], emitted[t][j])
    /\ loaded =>
        /\ \A r \in atStart[t] : TupleKnown(t, r, tuples[t]) /\ NumberPassed(t, r, seqStart[t])
        /\ \A i \in 1..Len(emitted[t]) :
            /\ TupleKnown(t, emitted[t][i], tuples[t])
            /\ seqStart[t] <= NumberSpace => NumberPassed(t, emitted[t][i], seqStart[t])
UniqueInv == \A t \in Tables : TableUnique(t)

\* A step that hands over no rows and learns nothing keeps it.
LEMMA UniqueSame ==
    ASSUME UniqueInv, atStart' = atStart, loaded' = loaded, emitted' = emitted, tuples' = tuples, seqStart' = seqStart
    PROVE  UniqueInv'
<1>1. ASSUME NEW t \in Tables PROVE TableUnique(t)'
  <2>1. TableUnique(t)
    BY DEF UniqueInv
  <2> QED
    BY <2>1 DEF TableUnique
<1> QED
  BY <1>1 DEF UniqueInv

\* NewStream reads every stored tuple and goes on past every stored number.
LEMMA LoadUnique == ASSUME IInv, Load PROVE UniqueInv'
<1>1. ASSUME NEW t \in Tables PROVE TableUnique(t)'
  <2>1. /\ ~loaded /\ atStart' = atStart /\ emitted' = emitted
        /\ tuples' = [u \in Tables |-> IF u \in Grouped THEN TuplesOf(u, atStart[u]) ELSE {}]
        /\ seqStart' = [u \in Tables |-> IF u \in Numbered THEN StartAfter({r.num : r \in atStart[u]}) ELSE 0]
    BY DEF Load
  <2>2. emitted[t] = <<>> /\ atStart \in StoredRows
    BY <2>1 DEF IInv, RunShape, TableInv, TableShape
  <2>3. Len(emitted'[t]) = 0
    BY <2>1, <2>2
  <2>4. ASSUME NEW r \in atStart[t] PROVE TupleKnown(t, r, tuples'[t])
    BY <2>1 DEF TupleKnown, TuplesOf
  <2>5. ASSUME NEW r \in atStart[t] PROVE NumberPassed(t, r, seqStart'[t])
    <3> DEFINE N == {q.num : q \in atStart[t]}
    <3>1. atStart[t] \subseteq RowType(t) /\ IsFiniteSet(atStart[t])
      BY <2>2, KeyStreamAssumption
    <3>2. N \in SUBSET Nat
      BY <3>1 DEF RowType
    <3>3. IsFiniteSet(N)
      <4> DEFINE f == [q \in atStart[t] |-> q.num]
      <4>1. f \in Surjection(atStart[t], N)
        BY DEF Surjection
      <4> HIDE DEF f, N
      <4> QED
        BY <3>1, <4>1, FS_Surjection
    <3>4. r.num \in N
      OBVIOUS
    <3>5. t \in Numbered => seqStart'[t] = StartAfter(N)
      BY <2>1
    <3> HIDE DEF N
    <3> QED
      BY <3>2, <3>3, <3>4, <3>5, StartAfterIs DEF NumberPassed
  <2>6. \A i \in 1..Len(emitted'[t]) : FALSE
    BY <2>3
  <2>7. \A r \in atStart'[t] : TupleKnown(t, r, tuples'[t]) /\ NumberPassed(t, r, seqStart'[t])
    <3>1. atStart' = atStart
      BY <2>1
    <3> QED
      BY <2>4, <2>5, <3>1
  <2> QED
    BY <2>6, <2>7 DEF TableUnique
<1> QED
  BY <1>1 DEF UniqueInv

\* While they last, numbers count up from where the sequence stands.
LEMMA NumbersAre ==
    ASSUME RunShape, NEW t \in Tables, t \in Numbered, NEW rows \in Seq(RowType(t)),
           seqStart[t] + Len(rows) <= NumberSpace, NEW i \in 1..Len(rows)
    PROVE  Number(t, rows)[i].num = seqStart[t] + i - 1
<1> DEFINE at == seqStart[t] + i - 1
           m == at % NumberSpace
<1>1. at \in Nat /\ at < NumberSpace /\ NumberSpace \in Nat /\ NumberSpace > 0
  BY Limits DEF RunShape
<1>2. rows[i] \in RowType(t) /\ i \in DOMAIN rows
  OBVIOUS
<1>3. Number(t, rows)[i] = [rows[i] EXCEPT !.num = m]
  BY <1>2 DEF Number
<1>4. m = at
  <2> HIDE DEF at
  <2>1. at = NumberSpace * 0 + at
    BY <1>1
  <2> QED
    BY <1>1, <2>1, RemainderIs
<1> HIDE DEF m
<1> QED
  BY <1>2, <1>3, <1>4 DEF RowType

\* A row that is kept clashes with nothing, and keeps its number.
LEMMA SettledDiffer ==
    ASSUME NEW t \in Tables, NEW rows \in Seq(RowType(t)), NEW out \in Settled(t, rows),
           NEW i \in 1..Len(rows), out[i] # Null
    PROVE  out[i].num = rows[i].num /\ ~Clashes(t, out[i], {out[j] : j \in 1..(i - 1)} \ {Null})
<1> DEFINE before == {out[j] : j \in 1..(i - 1)} \ {Null}
<1>1. i \in DOMAIN rows /\ rows[i] \in RowType(t)
  OBVIOUS
<1>2. IF Clashes(t, rows[i], before)
        THEN out[i] = [rows[i] EXCEPT !.tag = out[i].tag] /\ ~Clashes(t, out[i], before)
        ELSE out[i] = rows[i]
  BY <1>1 DEF Settled
<1> HIDE DEF before
<1>3. CASE Clashes(t, rows[i], before)
  <2> DEFINE tag == out[i].tag
  <2>1. out[i] = [rows[i] EXCEPT !.tag = tag] /\ ~Clashes(t, out[i], before)
    BY <1>2, <1>3
  <2> HIDE DEF tag
  <2>2. out[i].num = rows[i].num
    BY <1>1, <2>1 DEF RowType
  <2> QED
    BY <2>1, <2>2 DEF before
<1>4. CASE ~Clashes(t, rows[i], before)
  BY <1>2, <1>4 DEF before
<1> QED
  BY <1>3, <1>4

\* So the rows kept of a chunk have values nothing else has.
LEMMA KeptDiffer ==
    ASSUME NEW t \in Tables, NEW rows \in Seq(RowType(t)), NEW out \in Settled(t, rows),
           NEW left \in Ascending(KeptAt(out)), NEW kept, kept = KeptRows(out, left)
    PROVE  \A i \in 1..Len(kept) :
             /\ \A j \in 1..(i - 1) : Differ(t, 0, kept[i], kept[j])
             /\ t \in Grouped /\ ~HasNull(t, kept[i]) => Tuple(t, kept[i]) \notin tuples[t]
             /\ \E l \in 1..Len(rows) : kept[i].num = rows[l].num
<1> SUFFICES ASSUME NEW i \in 1..Len(kept)
             PROVE  /\ \A j \in 1..(i - 1) : Differ(t, 0, kept[i], kept[j])
                    /\ t \in Grouped /\ ~HasNull(t, kept[i]) => Tuple(t, kept[i]) \notin tuples[t]
                    /\ \E l \in 1..Len(rows) : kept[i].num = rows[l].num
  OBVIOUS
<1> DEFINE L == KeptAt(out)
<1>1. Len(rows) \in Nat
  OBVIOUS
<1>2. L \subseteq 1..Len(rows) /\ \A l \in L : out[l] # Null
  BY SettledIs DEF KeptAt
<1>3. L \in SUBSET Int /\ IsFiniteSet(L)
  <2> HIDE DEF L
  <2>1. IsFiniteSet(1..Len(rows))
    BY <1>1, FS_Interval
  <2>2. IsFiniteSet(L)
    BY <1>2, <2>1, FS_Subset
  <2>3. 1..Len(rows) \subseteq Int
    OBVIOUS
  <2> QED
    BY <1>2, <2>2, <2>3
<1>4. left \in Ascending(L)
  OBVIOUS
<1> HIDE DEF L
<1>5. left \in Seq(L) /\ \A a, b \in 1..Len(left) : a < b => left[a] < left[b]
  BY <1>3, <1>4, AscendingIs
<1>6. Len(kept) = Len(left) /\ \A a \in 1..Len(left) : kept[a] = out[left[a]] /\ left[a] \in L
  BY <1>5 DEF KeptRows
<1>7. left[i] \in 1..Len(rows) /\ out[left[i]] # Null /\ kept[i] = out[left[i]]
  BY <1>2, <1>6
<1> DEFINE before == {out[j] : j \in 1..(left[i] - 1)} \ {Null}
<1>8. kept[i].num = rows[left[i]].num /\ ~Clashes(t, kept[i], before)
  BY <1>7, SettledDiffer
<1>9. ASSUME NEW j \in 1..(i - 1) PROVE kept[j] \in before
  <2>1. j \in 1..Len(left) /\ j < i /\ i \in 1..Len(left)
    BY <1>5, <1>6
  <2>2. left[j] < left[i] /\ left[j] \in L /\ kept[j] = out[left[j]]
    BY <1>5, <1>6, <2>1
  <2>3. left[j] \in 1..Len(rows) /\ out[left[j]] # Null
    BY <1>2, <2>2
  <2>4. left[j] \in 1..(left[i] - 1)
    BY <1>1, <1>7, <2>2, <2>3
  <2> QED
    BY <2>2, <2>3, <2>4
<1> HIDE DEF before
<1>10. ASSUME NEW j \in 1..(i - 1) PROVE Differ(t, 0, kept[i], kept[j])
  BY <1>8, <1>9 DEF Clashes, TuplesOf, Differ
<1>11. t \in Grouped /\ ~HasNull(t, kept[i]) => Tuple(t, kept[i]) \notin tuples[t]
  BY <1>8 DEF Clashes
<1> QED
  BY <1>7, <1>8, <1>10, <1>11

\* A self-reference is of no UNIQUE group.
SameValues(a, b) == a.refs = b.refs /\ a.tag = b.tag /\ a.num = b.num

LEMMA BackfilledSame ==
    ASSUME NEW t \in Tables, NEW rows \in Seq(RowType(t)), NEW i \in 1..Len(rows)
    PROVE  SameValues(Backfilled(t, rows)[i], rows[i])
<1>1. i \in DOMAIN rows /\ rows[i] \in RowType(t)
  OBVIOUS
<1> DEFINE ref == SelfReference(t, rows, i)
<1>2. Backfilled(t, rows)[i] = IF t \in SelfRefs THEN [rows[i] EXCEPT !.self = ref] ELSE rows[i]
  BY <1>1 DEF Backfilled
<1> HIDE DEF ref
<1>3. CASE t \in SelfRefs
  BY <1>1, <1>2, <1>3 DEF RowType, SameValues
<1>4. CASE t \notin SelfRefs
  BY <1>2, <1>4 DEF SameValues
<1> QED
  BY <1>3, <1>4

\* Rows of the same values differ from what those differ from.
LEMMA SameDiffers ==
    ASSUME NEW t, NEW at, NEW a, NEW b, NEW c, NEW d, SameValues(a, c), SameValues(b, d), Differ(t, at, c, d)
    PROVE  Differ(t, at, a, b)
  BY DEF SameValues, Differ, Tuple, HasNull

\* A value no earlier row has, told from what the stream knows of those.
LEMMA NewDiffers ==
    ASSUME NEW t, NEW at \in Nat, NEW next \in Nat, NEW seen, NEW row, row.num \in Nat, NEW r, r.num \in Nat,
           t \in Grouped /\ ~HasNull(t, row) => Tuple(t, row) \notin seen,
           t \in Numbered /\ next <= NumberSpace => at <= row.num,
           TupleKnown(t, r, seen), next <= NumberSpace => NumberPassed(t, r, at)
    PROVE  Differ(t, next, row, r)
<1>1. t \in Numbered /\ next <= NumberSpace => row.num # r.num
  BY DEF NumberPassed
<1>2. ASSUME t \in Grouped, ~HasNull(t, row), ~HasNull(t, r) PROVE Tuple(t, row) # Tuple(t, r)
  BY <1>2 DEF TupleKnown
<1> QED
  BY <1>1, <1>2 DEF Differ

\* What differs while numbers below at last, differs while those below next do.
LEMMA DifferLater ==
    ASSUME NEW t, NEW at \in Nat, NEW next \in Nat, at <= next, NEW a, NEW b, Differ(t, at, a, b)
    PROVE  Differ(t, next, a, b)
<1>1. next <= NumberSpace => at <= NumberSpace
  BY Limits
<1> QED
  BY <1>1 DEF Differ

\* A chunk is handed over: what its flush does to a table.
HandedOver(t, kept) ==
    /\ kept \in Seq(RowType(t)) /\ Backfilled(t, kept) \in Seq(RowType(t))
    /\ Len(Backfilled(t, kept)) = Len(kept) /\ KeysIn(Backfilled(t, kept)) = KeysIn(kept)
    /\ emitted' = [emitted EXCEPT ![t] = emitted[t] \o Backfilled(t, kept)]
    /\ tuples' = [tuples EXCEPT ![t] = IF t \in Grouped THEN tuples[t] \cup TuplesOf(t, ToSet(kept)) ELSE tuples[t]]
    /\ \E capped \in CappedPools(Dropped(fork[t].pools[t], fork[t].preloaded, KeysIn(fork[t].buf), KeysIn(kept)), PoolLimit) :
         fork' = [fork EXCEPT ![t] = Flushed(fork[t], t, capped, kept)]

\* Every flush hands over the rows kept of the numbered and settled chunk.
LEMMA FlushIs ==
    ASSUME IInv, NEW t \in Tables, Flush(t)
    PROVE  \E out \in Settled(t, Number(t, fork[t].buf)) : \E left \in Ascending(KeptAt(out)) :
             HandedOver(t, KeptRows(out, left))
<1> DEFINE buf == fork[t].buf
           rows == Number(t, buf)
<1>1. RunShape /\ buf \in Seq(RowType(t)) /\ \A i \in 1..Len(buf) : buf[i].self = Null
  BY DEF IInv, TableInv, TableShape, ForkShape, TableRefs
<1> DEFINE pool == fork[t].pools[t]
<1>2. PICK out \in Settled(t, rows) :
       \E left \in Ascending({i \in DOMAIN out : out[i] # Null}) :
         LET kept == [i \in DOMAIN left |-> out[left[i]]]
             next == IF Len(kept) < Len(out) THEN Rebuilt(pool, fork[t].preloaded, KeysIn(kept)) ELSE pool
         IN  /\ emitted' = [emitted EXCEPT ![t] = @ \o Backfilled(t, kept)]
             /\ tuples' = [tuples EXCEPT ![t] = IF t \in Grouped THEN @ \cup TuplesOf(t, ToSet(kept)) ELSE @]
             /\ \E capped \in CappedPools(next, PoolLimit) : fork' = [fork EXCEPT ![t] = Flushed(fork[t], t, capped, kept)]
  BY DEF Flush, Flushed
<1>0. PICK left \in Ascending({i \in DOMAIN out : out[i] # Null}) :
         LET kept == [i \in DOMAIN left |-> out[left[i]]]
             next == IF Len(kept) < Len(out) THEN Rebuilt(pool, fork[t].preloaded, KeysIn(kept)) ELSE pool
         IN  /\ emitted' = [emitted EXCEPT ![t] = @ \o Backfilled(t, kept)]
             /\ tuples' = [tuples EXCEPT ![t] = IF t \in Grouped THEN @ \cup TuplesOf(t, ToSet(kept)) ELSE @]
             /\ \E capped \in CappedPools(next, PoolLimit) : fork' = [fork EXCEPT ![t] = Flushed(fork[t], t, capped, kept)]
  BY <1>2
<1>3. /\ left \in Ascending(KeptAt(out))
      /\ emitted' = [emitted EXCEPT ![t] = emitted[t] \o Backfilled(t, KeptRows(out, left))]
      /\ tuples' = [tuples EXCEPT ![t] = IF t \in Grouped THEN tuples[t] \cup TuplesOf(t, ToSet(KeptRows(out, left))) ELSE tuples[t]]
      /\ LET kept == KeptRows(out, left)
             next == IF Len(kept) < Len(out) THEN Rebuilt(pool, fork[t].preloaded, KeysIn(kept)) ELSE pool
         IN  \E capped \in CappedPools(next, PoolLimit) : fork' = [fork EXCEPT ![t] = Flushed(fork[t], t, capped, kept)]
  BY <1>0 DEF KeptAt, KeptRows
<1> DEFINE kept == KeptRows(out, left)
           next == IF Len(kept) < Len(out) THEN Rebuilt(pool, fork[t].preloaded, KeysIn(kept)) ELSE pool
           last == Dropped(pool, fork[t].preloaded, KeysIn(buf), KeysIn(kept))
<1>p. \E capped \in CappedPools(next, PoolLimit) : fork' = [fork EXCEPT ![t] = Flushed(fork[t], t, capped, kept)]
  BY <1>3
<1>4. /\ rows \in Seq(RowType(t)) /\ Len(rows) = Len(buf)
      /\ \A i \in 1..Len(buf) : SameRow(rows[i], buf[i])
  <2> HIDE DEF buf
  <2> QED
    BY <1>1, NumberIs
<1> HIDE DEF rows
<1>5. kept \in Seq(RowType(t)) /\ \A i \in 1..Len(kept) : kept[i].self = Null
  <2>1. /\ DOMAIN out = 1..Len(rows)
        /\ \A i \in 1..Len(rows) : out[i] # Null => out[i] \in RowType(t) /\ SameRow(out[i], rows[i])
    BY <1>4, SettledIs
  <2>2. kept \in Seq(RowType(t)) /\ \A i \in 1..Len(kept) : \E j \in 1..Len(rows) : SameRow(kept[i], rows[j])
    <3>1. left \in Ascending(KeptAt(out)) /\ kept = KeptRows(out, left)
      BY <1>3
    <3> HIDE DEF kept, buf
    <3> QED
      BY <1>4, <2>1, <3>1, KeptIs
  <2> HIDE DEF kept, buf
  <2> QED
    BY <1>1, <1>4, <2>2 DEF SameRow
<1>n. next = last
  <2>1. Len(out) = Len(rows)
    BY <1>4, SettledIs
  <2>2. Len(KeysIn(kept)) = Len(kept) /\ Len(KeysIn(buf)) = Len(buf)
    <3> HIDE DEF kept, buf
    <3> QED
      BY <1>1, <1>5, KeysInIs
  <2> HIDE DEF kept, buf, pool
  <2> QED
    BY <1>4, <2>1, <2>2 DEF Dropped
<1> HIDE DEF next, last
<1>q. \E capped \in CappedPools(last, PoolLimit) : fork' = [fork EXCEPT ![t] = Flushed(fork[t], t, capped, kept)]
  BY <1>p, <1>n
<1> HIDE DEF kept
<1>6. Backfilled(t, kept) \in Seq(RowType(t)) /\ Len(Backfilled(t, kept)) = Len(kept) /\ KeysIn(Backfilled(t, kept)) = KeysIn(kept)
  BY <1>5, BackfilledIs
<1>7. HandedOver(t, kept)
  <2>1. /\ emitted' = [emitted EXCEPT ![t] = emitted[t] \o Backfilled(t, kept)]
        /\ tuples' = [tuples EXCEPT ![t] = IF t \in Grouped THEN tuples[t] \cup TuplesOf(t, ToSet(kept)) ELSE tuples[t]]
    BY <1>3 DEF kept
  <2> QED
    BY <1>5, <1>6, <1>q, <2>1 DEF HandedOver, last
<1>8. left \in Ascending(KeptAt(out)) /\ HandedOver(t, KeptRows(out, left))
  BY <1>3, <1>7 DEF kept
<1> QED
  BY <1>8 DEF rows

\* Every row handed over differs from those before it, and is known after.
LEMMA FlushUnique == ASSUME IInv, UniqueInv, NEW t \in Tables, Flush(t) PROVE UniqueInv'
<1> DEFINE buf == fork[t].buf
           rows == Number(t, buf)
           at == seqStart[t]
           next == at + Len(buf)
           n == Len(emitted[t])
<1>1. /\ RunShape /\ TableUnique(t) /\ loaded /\ at \in Nat
      /\ emitted[t] \in Seq(RowType(t)) /\ buf \in Seq(RowType(t)) /\ n \in Nat /\ Len(buf) \in Nat
      /\ \A i \in 1..Len(buf) : buf[i].self = Null
  <2>1. RunShape /\ TableShape(t) /\ TableRefs(t) /\ TableUnique(t) /\ stage[t] = "generating"
    BY DEF IInv, TableInv, UniqueInv, Flush
  <2>2. emitted[t] \in Seq(RowType(t)) /\ ForkShape(t, fork[t], "generating")
    BY <2>1 DEF TableShape
  <2>3. loaded /\ fork[t].buf \in Seq(RowType(t)) /\ seqStart[t] \in Nat
    BY <2>1, <2>2 DEF ForkShape, RunShape
  <2> QED
    BY <2>1, <2>2, <2>3 DEF TableRefs
<1>2. /\ atStart' = atStart /\ loaded' = loaded
      /\ seqStart' = [seqStart EXCEPT ![t] = next]
  BY DEF Flush
<1>0. PICK out \in Settled(t, rows) : \E left \in Ascending(KeptAt(out)) : HandedOver(t, KeptRows(out, left))
  BY FlushIs
<1>3. PICK left \in Ascending(KeptAt(out)) : HandedOver(t, KeptRows(out, left))
  BY <1>0
<1> DEFINE kept == KeptRows(out, left)
           done == Backfilled(t, kept)
<1>4. HandedOver(t, kept)
  BY <1>3
<1>5. rows \in Seq(RowType(t)) /\ Len(rows) = Len(buf)
  <2> HIDE DEF buf
  <2> QED
    BY <1>1, NumberIs
<1> HIDE DEF rows
<1>6. kept \in Seq(RowType(t))
  BY <1>4 DEF HandedOver
<1>7. /\ \A i \in 1..Len(kept) : \A j \in 1..(i - 1) : Differ(t, next, kept[i], kept[j])
      /\ \A i \in 1..Len(kept) : t \in Grouped /\ ~HasNull(t, kept[i]) => Tuple(t, kept[i]) \notin tuples[t]
      /\ \A i \in 1..Len(kept) : \E l \in 1..Len(rows) : kept[i].num = rows[l].num
  <2>1. kept = KeptRows(out, left)
    OBVIOUS
  <2> HIDE DEF next, kept, buf
  <2>2. rows \in Seq(RowType(t)) /\ out \in Settled(t, rows) /\ left \in Ascending(KeptAt(out))
    BY <1>5
  <2>3. \A i \in 1..Len(kept) :
          /\ \A j \in 1..(i - 1) : Differ(t, 0, kept[i], kept[j])
          /\ t \in Grouped /\ ~HasNull(t, kept[i]) => Tuple(t, kept[i]) \notin tuples[t]
          /\ \E l \in 1..Len(rows) : kept[i].num = rows[l].num
    BY <2>1, <2>2, KeptDiffer
  <2>4. 0 <= next /\ next \in Nat
    BY <1>1 DEF next
  <2> QED
    BY <2>3, <2>4, DifferLater
<1> HIDE DEF kept
<1>8. /\ done \in Seq(RowType(t)) /\ Len(done) = Len(kept)
      /\ \A i \in 1..Len(kept) : SameValues(done[i], kept[i])
  BY <1>4, <1>6, BackfilledSame DEF HandedOver
<1> HIDE DEF done
<1>9. /\ emitted'[t] = emitted[t] \o done /\ seqStart'[t] = next
      /\ tuples'[t] = IF t \in Grouped THEN tuples[t] \cup TuplesOf(t, ToSet(kept)) ELSE tuples[t]
      /\ \A u \in Tables : u # t => emitted'[u] = emitted[u] /\ tuples'[u] = tuples[u] /\ seqStart'[u] = seqStart[u]
  <2>1. IsMap(emitted) /\ IsMap(tuples) /\ seqStart \in [Tables -> Nat]
    BY <1>1 DEF RunShape
  <2> HIDE DEF next
  <2> QED
    BY <1>2, <1>4, <2>1 DEF IsMap, HandedOver, done
<1> DEFINE all == emitted[t] \o done
<1> HIDE DEF all
<1>10. /\ Len(all) = n + Len(done) /\ Len(done) \in Nat
       /\ \A i \in 1..n : all[i] = emitted[t][i]
       /\ \A i \in 1..Len(done) : all[n + i] = done[i]
  <2>1. all = emitted[t] \o done
    BY DEF all
  <2>2. emitted[t] \in Seq(RowType(t)) /\ done \in Seq(RowType(t))
    BY <1>1, <1>8
  <2>3. /\ Len(all) = Len(emitted[t]) + Len(done) /\ Len(done) \in Nat
        /\ \A i \in 1..Len(emitted[t]) : all[i] = emitted[t][i]
        /\ \A i \in 1..Len(done) : all[Len(emitted[t]) + i] = done[i]
    BY <2>1, <2>2, Concat
  <2> QED
    BY <2>3
<1>11. at <= next /\ next \in Nat
  BY <1>1
<1>12. ASSUME NEW j \in 1..Len(done)
       PROVE  /\ done[j].num \in Nat
              /\ t \in Numbered /\ next <= NumberSpace => at <= done[j].num /\ done[j].num < next
  <2>1. done[j] \in RowType(t)
    BY <1>8
  <2>2. done[j].num = kept[j].num /\ j \in 1..Len(kept)
    BY <1>8 DEF SameValues
  <2>3. PICK l \in 1..Len(rows) : kept[j].num = rows[l].num
    BY <1>7, <2>2
  <2>4. ASSUME t \in Numbered, next <= NumberSpace PROVE rows[l].num = at + l - 1
    BY <1>1, <1>5, <2>3, <2>4, NumbersAre DEF rows
  <2>5. done[j].num \in Nat
    BY <2>1 DEF RowType
  <2> QED
    BY <1>1, <1>5, <2>2, <2>3, <2>4, <2>5
<1>13. ASSUME NEW j \in 1..Len(done) PROVE t \in Grouped /\ ~HasNull(t, done[j]) => Tuple(t, done[j]) \notin tuples[t]
  BY <1>7, <1>8 DEF SameValues, Tuple, HasNull
\* What the stream knew.
<1>14. \A r \in atStart[t] : r.num \in Nat /\ TupleKnown(t, r, tuples[t]) /\ NumberPassed(t, r, at)
  <2>1. atStart[t] \subseteq RowType(t)
    BY <1>1, KeyStreamAssumption DEF RunShape
  <2>2. \A r \in atStart[t] : TupleKnown(t, r, tuples[t]) /\ NumberPassed(t, r, at)
    BY <1>1 DEF TableUnique
  <2> QED
    BY <2>1, <2>2 DEF RowType
<1>15. \A i \in 1..n : /\ emitted[t][i].num \in Nat /\ TupleKnown(t, emitted[t][i], tuples[t])
                       /\ next <= NumberSpace => NumberPassed(t, emitted[t][i], at)
  <2>1. at \in Nat /\ NumberSpace \in Nat /\ (next <= NumberSpace => at <= NumberSpace)
    BY <1>1, <1>11, Limits
  <2>2. \A i \in 1..n : /\ TupleKnown(t, emitted[t][i], tuples[t])
                        /\ at <= NumberSpace => NumberPassed(t, emitted[t][i], at)
    BY <1>1 DEF TableUnique
  <2>3. \A i \in 1..n : emitted[t][i] \in RowType(t)
    BY <1>1
  <2> QED
    BY <2>1, <2>2, <2>3 DEF RowType
<1> HIDE DEF n, at, next
\* The new rows differ from everything before them.
<1>16. ASSUME NEW j \in 1..Len(done) PROVE \A r \in atStart[t] : Differ(t, next, done[j], r)
  BY <1>1, <1>11, <1>12, <1>13, <1>14, NewDiffers
<1>17. ASSUME NEW j \in 1..Len(done) PROVE \A i \in 1..n : Differ(t, next, done[j], emitted[t][i])
  BY <1>1, <1>11, <1>12, <1>13, <1>15, NewDiffers
<1>18. ASSUME NEW j \in 1..Len(done) PROVE \A l \in 1..(j - 1) : Differ(t, next, done[j], done[l])
  <2> TAKE l \in 1..(j - 1)
  <2>1. l \in 1..Len(kept) /\ j \in 1..Len(kept)
    BY <1>8, <1>10
  <2> QED
    BY <1>7, <1>8, <2>1, SameDiffers
<1>19. ASSUME NEW i \in 1..Len(all)
       PROVE  /\ \A r \in atStart[t] : Differ(t, next, all[i], r)
              /\ \A j \in 1..(i - 1) : Differ(t, next, all[i], all[j])
              /\ TupleKnown(t, all[i], tuples'[t])
              /\ next <= NumberSpace => NumberPassed(t, all[i], next)
  <2>1. CASE i \in 1..n
    <3>1. /\ \A r \in atStart[t] : Differ(t, at, all[i], r)
          /\ \A j \in 1..(i - 1) : Differ(t, at, all[i], emitted[t][j])
      BY <1>1, <1>10, <2>1 DEF TableUnique, n, at
    <3>2. \A j \in 1..(i - 1) : all[j] = emitted[t][j]
      <4>1. \A j \in 1..(i - 1) : j \in 1..n
        BY <1>1, <2>1
      <4> QED
        BY <1>10, <4>1
    <3>3. /\ \A r \in atStart[t] : Differ(t, next, all[i], r)
          /\ \A j \in 1..(i - 1) : Differ(t, next, all[i], all[j])
      BY <1>1, <1>11, <3>1, <3>2, DifferLater
    <3>4. TupleKnown(t, all[i], tuples'[t])
      BY <1>9, <1>10, <1>15, <2>1 DEF TupleKnown
    <3>5. next <= NumberSpace => NumberPassed(t, all[i], next)
      BY <1>1, <1>10, <1>11, <1>15, <2>1, SMTT(60) DEF NumberPassed
    <3> QED
      BY <3>3, <3>4, <3>5
  <2>2. CASE i \notin 1..n
    <3>1. PICK k \in 1..Len(done) : i = n + k
      <4>1. i - n \in 1..Len(done) /\ i = n + (i - n)
        BY <1>1, <1>10, <2>2
      <4> QED
        BY <4>1
    <3>2. all[i] = done[k]
      BY <1>10, <3>1
    <3>3. ASSUME NEW j \in 1..(i - 1) PROVE Differ(t, next, all[i], all[j])
      <4>1. CASE j \in 1..n
        BY <1>10, <1>17, <3>2, <4>1
      <4>2. CASE j \notin 1..n
        <5>1. PICK l \in 1..(k - 1) : j = n + l
          <6>1. j - n \in 1..(k - 1) /\ j = n + (j - n)
            BY <1>1, <1>10, <3>1, <4>2
          <6> QED
            BY <6>1
        <5>2. l \in 1..Len(done)
          BY <1>10
        <5>3. all[j] = done[l]
          BY <1>10, <5>1, <5>2
        <5> QED
          BY <1>18, <3>2, <5>3
      <4> QED
        BY <4>1, <4>2
    <3>4. TupleKnown(t, done[k], tuples'[t])
      <4>1. k \in 1..Len(kept) /\ SameValues(done[k], kept[k])
        BY <1>8
      <4>2. kept[k] \in ToSet(kept)
        BY <1>6, <4>1, SetOf
      <4>3. ~HasNull(t, kept[k]) => Tuple(t, kept[k]) \in TuplesOf(t, ToSet(kept))
        BY <4>2 DEF TuplesOf
      <4> QED
        BY <1>9, <4>1, <4>3 DEF TupleKnown, SameValues, Tuple, HasNull
    <3>5. next <= NumberSpace => NumberPassed(t, done[k], next)
      BY <1>12 DEF NumberPassed
    <3> QED
      BY <1>16, <3>2, <3>3, <3>4, <3>5
  <2> QED
    BY <2>1, <2>2
<1>20. ASSUME NEW r \in atStart[t] PROVE TupleKnown(t, r, tuples'[t]) /\ NumberPassed(t, r, next)
  <2>1. TupleKnown(t, r, tuples'[t])
    BY <1>9, <1>14 DEF TupleKnown
  <2>2. NumberPassed(t, r, next)
    BY <1>1, <1>11, <1>14 DEF NumberPassed
  <2> QED
    BY <2>1, <2>2
<1>21. TableUnique(t)'
  <2>1. emitted'[t] = all /\ seqStart'[t] = next
    BY <1>9 DEF all
  <2> QED
    BY <1>2, <1>19, <1>20, <2>1 DEF TableUnique
<1>22. ASSUME NEW u \in Tables, u # t PROVE TableUnique(u)'
  <2>1. TableUnique(u)
    BY DEF UniqueInv
  <2> QED
    BY <1>2, <1>9, <1>22, <2>1 DEF TableUnique
<1> QED
  BY <1>21, <1>22 DEF UniqueInv

\* No UNIQUE tuple or number is handed over twice, nor one the database held,
\* as long as the numbers of a sequence last.
THEOREM UniqueValuesAreNew == Spec => []UniqueNeverRepeats
<1>1. Init => UniqueInv
  <2> SUFFICES ASSUME Init, NEW t \in Tables PROVE TableUnique(t)
    BY DEF UniqueInv
  <2>1. Len(emitted[t]) = 0 /\ ~loaded
    BY DEF Init
  <2>2. \A i \in 1..Len(emitted[t]) : FALSE
    BY <2>1
  <2> QED
    BY <2>1, <2>2 DEF TableUnique
<1>2. ASSUME IInv, UniqueInv, [Next]_vars PROVE UniqueInv'
  <2>1. CASE Load
    BY <1>2, <2>1, LoadUnique
  <2>2. ASSUME NEW t \in Tables, Flush(t) PROVE UniqueInv'
    BY <1>2, <2>2, FlushUnique
  <2>3. CASE UNCHANGED vars
    BY <1>2, <2>3, UniqueSame DEF vars, known
  <2>4. ASSUME NEW t \in Tables,
               \/ ForkTable(t) \/ AddStandard(t) \/ AddJunction(t) \/ Fail(t) \/ Return(t)
               \/ CallAgain(t) \/ MergeTable(t) \/ Write(t)
        PROVE  UniqueInv'
    <3>1. atStart' = atStart /\ loaded' = loaded /\ emitted' = emitted /\ tuples' = tuples /\ seqStart' = seqStart
      <4>1. CASE ForkTable(t) \/ CallAgain(t) \/ MergeTable(t)
        BY <4>1 DEF ForkTable, CallAgain, MergeTable, known
      <4>2. CASE Fail(t) \/ Return(t) \/ Write(t)
        BY <4>2 DEF Fail, Return, Write, known
      <4>3. CASE AddStandard(t)
        <5>1. PICK pools, rows : Add(t, pools, rows)
          BY <4>3 DEF AddStandard
        <5> QED
          BY <5>1 DEF Add
      <4>4. CASE AddJunction(t)
        <5>1. PICK pools, rows : Add(t, pools, rows)
          BY <4>4 DEF AddJunction
        <5> QED
          BY <5>1 DEF Add
      <4> QED
        BY <2>4, <4>1, <4>2, <4>3, <4>4
    <3> QED
      BY <1>2, <3>1, UniqueSame
  <2> QED
    BY <1>2, <2>1, <2>2, <2>3, <2>4 DEF Next, Generate
<1>3. IInv /\ UniqueInv => UniqueNeverRepeats
  <2> SUFFICES ASSUME IInv, UniqueInv, NEW t \in Tables, NEW i \in DOMAIN emitted[t],
                      NEW r \in atStart[t] \cup {emitted[t][j] : j \in 1..(i - 1)}
               PROVE  Differ(t, seqStart[t], emitted[t][i], r)
    <3>1. ASSUME NEW t \in Tables, NEW i \in DOMAIN emitted[t],
                 \A r \in atStart[t] \cup {emitted[t][j] : j \in 1..(i - 1)} : Differ(t, seqStart[t], emitted[t][i], r)
          PROVE  LET row   == emitted[t][i]
                     other == atStart[t] \cup {emitted[t][j] : j \in 1..(i - 1)}
                 IN  /\ t \in Grouped /\ ~HasNull(t, row) => Tuple(t, row) \notin TuplesOf(t, other)
                     /\ t \in Numbered /\ seqStart[t] <= NumberSpace => row.num \notin {q.num : q \in other}
      <4> DEFINE other == atStart[t] \cup {emitted[t][j] : j \in 1..(i - 1)}
      <4>1. \A r \in other : Differ(t, seqStart[t], emitted[t][i], r)
        BY <3>1
      <4> HIDE DEF other
      <4>2. t \in Grouped /\ ~HasNull(t, emitted[t][i]) => Tuple(t, emitted[t][i]) \notin TuplesOf(t, other)
        BY <4>1 DEF Differ, TuplesOf
      <4>3. t \in Numbered /\ seqStart[t] <= NumberSpace => emitted[t][i].num \notin {q.num : q \in other}
        BY <4>1 DEF Differ
      <4> QED
        BY <4>2, <4>3 DEF other
    <3> QED
      BY <3>1 DEF UniqueNeverRepeats
  <2>1. emitted[t] \in Seq(RowType(t)) /\ TableUnique(t)
    BY DEF IInv, TableInv, TableShape, UniqueInv
  <2>2. i \in 1..Len(emitted[t])
    BY <2>1
  <2> QED
    BY <2>1, <2>2 DEF TableUnique
<1> QED
  BY <1>1, <1>2, <1>3, Invariance, PTL DEF Spec

(***************************************************************************)
(* Junctions are complete.                                                 *)
(***************************************************************************)
\* What Strides computes, in a state and in the next.
StridesCount(t) ==
    Widths(t) \in [1..Len(Parents[t]) -> Nat] =>
      /\ Strides(t) \in [0..Len(Parents[t]) -> Nat] /\ Strides(t)[0] = 1
      /\ \A c \in 1..Len(Parents[t]) : Strides(t)[c] = Strides(t)[c - 1] * Widths(t)[c]

\* Strides counts, in every state.
LEMMA StridesCounted == \A t \in Tables : StridesCount(t) /\ StridesCount(t)'
<1>1. \A t \in Tables : StridesCount(t)
  <2> SUFFICES ASSUME NEW t \in Tables, Widths(t) \in [1..Len(Parents[t]) -> Nat]
               PROVE  /\ Strides(t) \in [0..Len(Parents[t]) -> Nat] /\ Strides(t)[0] = 1
                      /\ \A c \in 1..Len(Parents[t]) : Strides(t)[c] = Strides(t)[c - 1] * Widths(t)[c]
    BY DEF StridesCount
  <2> DEFINE n == Len(Parents[t])
  <2>1. n \in Nat /\ Len(Parents[t]) = n /\ Widths(t) \in [1..n -> Nat]
    BY TableFacts
  <2> HIDE DEF n
  <2> QED
    BY <2>1, StridesAre
<1>2. (\A t \in Tables : StridesCount(t))'
  BY <1>1, PTL
<1> QED
  BY <1>1, <1>2

\* A recursion has one solution.
LEMMA SameProducts ==
    ASSUME NEW n \in Nat, NEW W, NEW f \in [0..n -> Nat], NEW g \in [0..n -> Nat], f[0] = g[0],
           \A c \in 1..n : f[c] = f[c - 1] * W[c], \A c \in 1..n : g[c] = g[c - 1] * W[c]
    PROVE  f = g
<1> DEFINE G == {c \in 0..n : f[c] = g[c]}
<1>1. 0 \in G
  OBVIOUS
<1>2. ASSUME NEW c \in 1..n, c - 1 \in G PROVE c \in G
  <2>1. f[c] = f[c - 1] * W[c] /\ g[c] = g[c - 1] * W[c] /\ f[c - 1] = g[c - 1] /\ c \in 0..n
    BY <1>2
  <2> QED
    BY <2>1
<1>3. 0..n \subseteq G
  <2> HIDE DEF G
  <2> QED
    BY <1>1, <1>2, UpTo
<1> QED
  BY <1>3

\* As long as its pools stay, a junction's positions stay the same combinations.
LEMMA CombinationsKept ==
    ASSUME NEW t \in Tables, PoolsTyped(t), \A c \in 1..Len(Parents[t]) : Pool(t, c)' = Pool(t, c)
    PROVE  Combinations(t)' = Combinations(t) /\ \A i : KeyAt(t, i)' = KeyAt(t, i)
<1> DEFINE n == Len(Parents[t])
<1>1. n \in Nat /\ DOMAIN Parents[t] = 1..n
  BY TableFacts
<1>2. Widths(t)' = Widths(t)
  BY DEF Widths
<1>3. Widths(t) \in [1..n -> Nat]
  BY DEF Widths, PoolsTyped
<1>4. /\ Strides(t) \in [0..n -> Nat] /\ Strides(t)[0] = 1
      /\ \A c \in 1..n : Strides(t)[c] = Strides(t)[c - 1] * Widths(t)[c]
  BY <1>3, StridesCounted DEF StridesCount
<1>5. /\ Strides(t)' \in [0..n -> Nat] /\ Strides(t)'[0] = 1
      /\ \A c \in 1..n : Strides(t)'[c] = Strides(t)'[c - 1] * Widths(t)[c]
  <2>1. StridesCount(t)' /\ Widths(t)' \in [1..n -> Nat]
    BY <1>2, <1>3, StridesCounted
  <2> QED
    BY <1>2, <2>1 DEF StridesCount
<1>6. Strides(t)' = Strides(t)
  <2> DEFINE f == Strides(t)'
             g == Strides(t)
             W == Widths(t)
  <2>1. f \in [0..n -> Nat] /\ g \in [0..n -> Nat] /\ f[0] = g[0]
    BY <1>4, <1>5
  <2>2. (\A c \in 1..n : f[c] = f[c - 1] * W[c]) /\ \A c \in 1..n : g[c] = g[c - 1] * W[c]
    BY <1>4, <1>5
  <2> HIDE DEF f, g, W, n
  <2>3. f = g
    BY <1>1, <2>1, <2>2, SameProducts
  <2> QED
    BY <2>3 DEF f, g
<1>7. Combinations(t)' = Combinations(t)
  BY <1>6 DEF Combinations
<1>8. ASSUME NEW i PROVE Combination(t, i)' = Combination(t, i)
  <2>1. Combination(t, i)  = [c \in 1..n |-> Pool(t, c)[1 + ((i \div Strides(t)[c - 1]) % Len(Pool(t, c)))]]
    BY <1>1 DEF Combination
  <2>2. Combination(t, i)' = [c \in 1..n |-> Pool(t, c)'[1 + ((i \div Strides(t)'[c - 1]) % Len(Pool(t, c)'))]]
    BY <1>1 DEF Combination
  <2> HIDE DEF n
  <2> QED
    BY <1>6, <2>1, <2>2 DEF n
<1> QED
  BY <1>7, <1>8 DEF KeyAt, KeyOf

\* A fork in use has pools to combine.
LEMMA PoolsAreTyped == ASSUME IInv, NEW t \in Tables, stage[t] # "waiting" PROVE PoolsTyped(t)
<1>1. TableShape(t) /\ TablePools(t) /\ RunShape
  BY DEF IInv, TableInv
<1>2. \A u \in ParentsOf(t) : fork[t].pools[u] \in Seq(Int) /\ Good(fork[t].pools[u], u)
  BY <1>1 DEF TableShape, ForkShape, TablePools
<1>3. Parents[t] \in Seq(Tables) /\ \A c \in 1..Len(Parents[t]) : Parents[t][c] \in ParentsOf(t)
  BY TableFacts
<1> QED
  BY <1>2, <1>3 DEF PoolsTyped, Pool, Good

\* The walk stops short of the last combination only with enough free ones: as
\* many positions as keys are taken cannot all hide one.
LEMMA WalkEnds ==
    ASSUME NEW t \in Tables, Enumerated(t), PoolsTyped(t), cursor[t] \in Nat, IsFiniteSet(taken[t]),
           NEW k \in Nat, Cardinality(Free(t, k)) < k
    PROVE  WalkEnd(t, k) = Combinations(t)
<1> DEFINE a == cursor[t]
           c == Cardinality(taken[t])
           far == a + k + c
           all == Combinations(t)
           end == WalkEnd(t, k)
           W == a..(end - 1)
           F == Free(t, k)
           B == {i \in W : KeyAt(t, i) \in taken[t]}
           size == Cardinality(B)
<1>1. all \in Nat /\ c \in Nat /\ a \in Nat /\ far \in Nat
  BY CombinationsDiffer, FS_CardinalityType
<1>2. end = Min({all, far})
  BY DEF WalkEnd
<1>3. F = {i \in W : KeyAt(t, i) \notin taken[t]}
  BY DEF Free, KeyAt
<1>4. IsFiniteSet(F) /\ Cardinality(F) \in Nat
  BY FreeIs, FS_CardinalityType
<1>5. Cardinality(F) < k
  OBVIOUS
<1> SUFFICES ASSUME end # all PROVE FALSE
  OBVIOUS
<1> HIDE DEF all, end, F
<1>6. end = far /\ far <= all
  <2> HIDE DEF far
  <2>1. all \in Int /\ far \in Int
    BY <1>1
  <2>2. /\ Min({all, far}) <= all /\ Min({all, far}) <= far
        /\ Min({all, far}) = all \/ Min({all, far}) = far
    BY <2>1, TwoMin
  <2> QED
    BY <1>2, <2>2
<1>7. IsFiniteSet(W) /\ Cardinality(W) = k + c
  <2>1. a \in Int /\ end - 1 \in Int /\ (a > end - 1 => k + c = 0) /\ (end - 1) - a + 1 = k + c
    BY <1>1, <1>6
  <2> DEFINE last == end - 1
  <2> HIDE DEF a, last
  <2>2. IsFiniteSet(a..last) /\ Cardinality(a..last) = IF a > last THEN 0 ELSE last - a + 1
    BY <2>1, FS_Interval DEF last
  <2> QED
    BY <2>1, <2>2 DEF last
<1>8. IsFiniteSet(B) /\ size \in Nat /\ size <= c
  <2> DEFINE f == [i \in B |-> KeyAt(t, i)]
  <2>1. \A i \in B : i \in 0..(Combinations(t) - 1)
    BY <1>1, <1>6 DEF all
  <2>2. \A i, j \in B : KeyAt(t, i) = KeyAt(t, j) => i = j
    BY <2>1, KeysAtDiffer
  <2>3. \A i \in B : f[i] = KeyAt(t, i) /\ f[i] \in taken[t]
    OBVIOUS
  <2>4. f \in [B -> taken[t]]
    OBVIOUS
  <2> HIDE DEF f, B
  <2>5. f \in Injection(B, taken[t])
    BY <2>2, <2>3, <2>4 DEF Injection, IsInjective
  <2>6. IsFiniteSet(B) /\ Cardinality(B) <= Cardinality(taken[t])
    BY <2>5, FS_Injection
  <2> QED
    BY <2>6, FS_CardinalityType
<1>9. W = F \cup B /\ F \cap B = {}
  BY <1>3
<1> HIDE DEF W, B, a, c, far, size
<1>10. Cardinality(F \cap B) = 0
  BY <1>9, FS_EmptySet
<1>11. Cardinality(W) = Cardinality(F) + Cardinality(B) - Cardinality(F \cap B)
  BY <1>4, <1>8, <1>9, FS_Union
<1>12. size = Cardinality(B)
  BY DEF size
<1> QED
  BY <1>1, <1>4, <1>5, <1>7, <1>8, <1>10, <1>11, <1>12

\* What a walk picks of the free positions: the first k, or all there are.
Got(free, k) == SubSeq(free, 1, Min({k, Len(free)}))

\* It takes all positions up to the last it picks, or all there are.
LEMMA GotIs ==
    ASSUME NEW F \in SUBSET Int, IsFiniteSet(F), NEW free \in Ascending(F), NEW k \in Nat \ {0}
    PROVE  LET got == Got(free, k)
           IN  /\ got \in Seq(F) /\ Len(got) <= k
               /\ Len(got) < k => Cardinality(F) < k /\ \A x \in F : \E i \in 1..Len(got) : got[i] = x
               /\ Len(got) = k => /\ Last(got) \in F
                                  /\ \A x \in F : x <= Last(got) => \E i \in 1..Len(got) : got[i] = x
<1> DEFINE got == Got(free, k)
           m == Len(free)
           n == Min({k, m})
<1>1. /\ free \in Seq(F) /\ Len(free) = Cardinality(F) /\ ToSet(free) = F
      /\ \A i, j \in 1..Len(free) : i < j => free[i] < free[j]
  BY AscendingIs
<1>2. m \in Nat /\ k \in Nat
  BY <1>1
<1> HIDE DEF m
<1>3. n \in Nat /\ n <= k /\ n <= m /\ (n = k \/ n = m)
  <2>1. k \in Int /\ m \in Int
    BY <1>2
  <2>2. /\ Min({k, m}) <= k /\ Min({k, m}) <= m
        /\ Min({k, m}) = k \/ Min({k, m}) = m
    BY <2>1, TwoMin
  <2> QED
    BY <1>2, <2>2
<1>4. got = [i \in 1..n |-> free[i]]
  <2>1. got = SubSeq(free, 1, n)
    BY DEF Got, m
  <2> HIDE DEF got, n
  <2>2. free \in Seq(F)
    BY <1>1
  <2> QED
    BY <1>2, <1>3, <2>1, <2>2
<1> HIDE DEF got, n
<1>5. \A i \in 1..n : free[i] \in F /\ i \in 1..m
  BY <1>1, <1>2, <1>3 DEF m
<1>6. got \in Seq(F) /\ Len(got) = n /\ \A i \in 1..n : got[i] = free[i]
  <2>1. \A i \in 1..n : got[i] = free[i] /\ got[i] \in F
    BY <1>4, <1>5
  <2>2. DOMAIN got = 1..n /\ got \in [1..n -> F]
    BY <1>4, <1>5
  <2> QED
    BY <1>3, <2>1, <2>2
<1>7. \A x \in F : \E i \in 1..m : free[i] = x
  BY <1>1, SetOf DEF m
<1>8. ASSUME n < k PROVE Cardinality(F) < k /\ \A x \in F : \E i \in 1..n : got[i] = x
  <2>1. n = m
    BY <1>3, <1>8
  <2> QED
    BY <1>1, <1>6, <1>7, <1>8, <2>1 DEF m
<1>9. ASSUME n = k PROVE Last(got) \in F /\ \A x \in F : x <= Last(got) => \E i \in 1..n : got[i] = x
  <2>1. n \in 1..n /\ Last(got) = got[n] /\ got[n] = free[n] /\ free[n] \in F
    BY <1>2, <1>3, <1>5, <1>6, <1>9 DEF Last
  <2>2. ASSUME NEW x \in F, x <= free[n] PROVE \E i \in 1..n : got[i] = x
    <3>1. PICK i \in 1..m : free[i] = x
      BY <1>7
    <3>2. i <= n
      <4>1. ASSUME i > n PROVE FALSE
        <5>1. free[n] < free[i]
          BY <1>1, <1>5, <2>1, <3>1, <4>1 DEF m
        <5>2. free[n] \in Int /\ x \in Int
          BY <2>1
        <5> QED
          BY <2>2, <3>1, <5>1, <5>2
      <4> QED
        BY <1>3, <3>1, <4>1
    <3>3. i \in 1..n
      BY <1>3, <3>1, <3>2
    <3> QED
      BY <1>6, <3>1, <3>3
  <2> QED
    BY <2>1, <2>2
<1> QED
  BY <1>3, <1>6, <1>8, <1>9 DEF got

\* What is taken was stored or made, where no row is dropped, and the walk has
\* passed no key that is not taken; it is short only where it has passed all.
JunctionInv(t) ==
    /\ stage[t] = "waiting" => cursor[t] = 0 /\ ~fork[t].short
    /\ loaded /\ ~MayDrop(t) => taken[t] \subseteq Referable(t) \cup ToSet(Making(t))
    /\ stage[t] # "waiting" =>
         \A i \in 0..(Combinations(t) - 1) : i < cursor[t] \/ fork[t].short => KeyAt(t, i) \in taken[t]
JunctionsInv == \A t \in Tables : Enumerated(t) => JunctionInv(t)

\* Whether rows may be dropped does not change.
LEMMA StaysDropping == ASSUME NEW t PROVE MayDrop(t)' <=> MayDrop(t)
  BY DEF MayDrop

\* A step that takes no keys and leaves a fork's pools keeps it.
LEMMA JunctionFrame ==
    ASSUME IInv, NEW t \in Tables, JunctionInv(t),
           stage[t] = "waiting" <=> stage'[t] = "waiting", loaded' = loaded,
           cursor'[t] = cursor[t], taken'[t] = taken[t],
           \A c \in 1..Len(Parents[t]) : Pool(t, c)' = Pool(t, c), (fork[t].short)' => fork[t].short,
           ~MayDrop(t) => Referable(t) \cup ToSet(Making(t)) \subseteq Referable(t)' \cup ToSet(Making(t)')
    PROVE  JunctionInv(t)'
<1>1. stage'[t] = "waiting" => cursor'[t] = 0 /\ ~(fork[t].short)'
  BY DEF JunctionInv
<1>2. loaded' /\ ~MayDrop(t) => taken'[t] \subseteq Referable(t)' \cup ToSet(Making(t)')
  BY DEF JunctionInv
<1>3. ASSUME stage'[t] # "waiting", NEW i \in 0..(Combinations(t)' - 1), i < cursor'[t] \/ (fork[t].short)'
      PROVE  KeyAt(t, i)' \in taken'[t]
  <2>1. stage[t] # "waiting" /\ PoolsTyped(t)
    BY <1>3, PoolsAreTyped
  <2>2. Combinations(t)' = Combinations(t) /\ KeyAt(t, i)' = KeyAt(t, i)
    BY <2>1, CombinationsKept
  <2>3. i \in 0..(Combinations(t) - 1) /\ (i < cursor[t] \/ fork[t].short)
    BY <1>3, <2>2
  <2>4. KeyAt(t, i) \in taken[t]
    BY <2>1, <2>3 DEF JunctionInv
  <2> QED
    BY <2>2, <2>4
<1> QED
  BY <1>1, <1>2, <1>3, StaysDropping DEF JunctionInv

\* Nothing was walked.
LEMMA JunctionInit == Init => JunctionsInv
<1> SUFFICES ASSUME Init, NEW t \in Tables, Enumerated(t) PROVE JunctionInv(t)
  BY DEF JunctionsInv
<1>1. stage[t] = "waiting" /\ cursor[t] = 0 /\ fork[t] = NoFork /\ ~loaded
  BY DEF Init
<1> QED
  BY <1>1 DEF JunctionInv, NoFork

\* What is taken is stored.
LEMMA JunctionLoad == ASSUME IInv, JunctionsInv, Load PROVE JunctionsInv'
<1> SUFFICES ASSUME NEW t \in Tables, Enumerated(t) PROVE JunctionInv(t)'
  BY DEF JunctionsInv
<1>1. RunShape /\ TableShape(t) /\ JunctionInv(t) /\ ~loaded
  BY DEF IInv, TableInv, JunctionsInv, Load
<1>2. stage' = stage /\ cursor' = cursor /\ fork' = fork /\ atStart' = atStart /\ emitted' = emitted
  BY DEF Load
<1>3. taken'[t] = Stored(t)
  <2>1. TracksKeys(t)
    BY TableFacts DEF TracksKeys
  <2> QED
    BY <2>1 DEF Load
<1>4. stage[t] = "waiting"
  BY <1>1 DEF TableShape, ForkShape, RunShape, Stages
<1>5. Stored(t) \subseteq Referable(t)
  BY <1>1, StoredIs
<1>6. Referable(t)' = Referable(t)
  BY <1>2 DEF Referable
<1> QED
  BY <1>1, <1>2, <1>3, <1>4, <1>5, <1>6 DEF JunctionInv

\* The walk starts at the first position.
LEMMA JunctionFork == ASSUME IInv, JunctionsInv, NEW t \in Tables, ForkTable(t), Enumerated(t) PROVE JunctionInv(t)'
<1>1. RunShape /\ TableShape(t) /\ JunctionInv(t) /\ stage[t] = "waiting" /\ loaded
  BY DEF IInv, TableInv, JunctionsInv, ForkTable
<1>2. cursor' = cursor /\ taken' = taken /\ loaded' = loaded /\ emitted' = emitted /\ atStart' = atStart
  BY DEF ForkTable, known
<1>3. stage'[t] = "generating"
  BY <1>1 DEF ForkTable, RunShape
<1>4. fork'[t] = [NoFork EXCEPT !.pools = [u \in {t} \cup ParentsOf(t) |-> pks[u]],
                                !.adds = Adds[t], !.preloaded = Len(pks[t])]
  BY <1>1 DEF ForkTable, RunShape, IsMap
<1>5. (fork[t].short)' = FALSE /\ (fork[t].buf)' = <<>>
  BY <1>4 DEF NoFork
<1>6. fork[t].buf = <<>>
  BY <1>1 DEF TableShape, ForkShape
<1>7. Making(t)' = Making(t) /\ Referable(t)' = Referable(t)
  BY <1>2, <1>5, <1>6 DEF Making, Referable
<1>8. cursor[t] = 0 /\ (~MayDrop(t) => taken[t] \subseteq Referable(t) \cup ToSet(Making(t)))
  BY <1>1 DEF JunctionInv
<1> QED
  BY <1>2, <1>3, <1>5, <1>7, <1>8, StaysDropping DEF JunctionInv

\* The rows of a walk are rows, with the keys of their positions.
LEMMA JunctionRowsAre ==
    ASSUME NEW t \in Tables, Enumerated(t), PoolsTyped(t), NEW got \in Seq(0..(Combinations(t) - 1)),
           NEW tags \in [DOMAIN got -> TagsOf(t)]
    PROVE  /\ JunctionRows(t, got, tags) \in Seq(RowType(t)) /\ Len(JunctionRows(t, got, tags)) = Len(got)
           /\ \A i \in 1..Len(got) : KeyAt(t, got[i]) \in Keys(ToSet(JunctionRows(t, got, tags)))
<1> DEFINE rows == JunctionRows(t, got, tags)
           n == Len(got)
<1>1. n \in Nat /\ DOMAIN got = 1..n
  OBVIOUS
<1>2. ASSUME NEW i \in 1..n
      PROVE  rows[i] \in RowType(t) /\ rows[i].key = KeyAt(t, got[i])
  <2> DEFINE x == Combination(t, got[i])
             y == KeyAt(t, got[i])
             g == tags[i]
  <2>1. got[i] \in 0..(Combinations(t) - 1)
    <3> DEFINE S == 0..(Combinations(t) - 1)
    <3>1. got \in Seq(S)
      OBVIOUS
    <3> HIDE DEF S
    <3>2. got[i] \in S
      BY <3>1
    <3> QED
      BY <3>2 DEF S
  <2>2. x \in Seq(Int) /\ y \in KeyType(t)
    BY <2>1, CombinationsDiffer, KeysAtDiffer
  <2>3. rows[i] = Row(y, x, g) /\ g \in Tags \cup {Null}
    BY <1>1 DEF JunctionRows, TagsOf
  <2> HIDE DEF x, y, g
  <2>4. x \in Seq(Int \cup {Null})
    BY <2>2
  <2> HIDE DEF rows
  <2> QED
    BY <2>2, <2>3, <2>4 DEF Row, RowType, y
<1>3. rows = [i \in 1..n |-> rows[i]] /\ DOMAIN rows = 1..n
  BY <1>1 DEF JunctionRows
<1> HIDE DEF rows, n
<1>4. rows \in [1..n -> RowType(t)]
  BY <1>2, <1>3
<1>5. rows \in Seq(RowType(t)) /\ Len(rows) = n
  BY <1>1, <1>3, <1>4
<1>6. ASSUME NEW i \in 1..n PROVE KeyAt(t, got[i]) \in Keys(ToSet(rows))
  <2>1. rows[i] \in ToSet(rows)
    BY <1>3 DEF ToSet
  <2> QED
    BY <1>2, <2>1 DEF Keys
<1> QED
  BY <1>5, <1>6 DEF rows, n

\* What rows that join a chunk do to their table's fork.
LEMMA Joins ==
    ASSUME IInv, NEW t \in Tables, NEW rows \in Seq(RowType(t)), stage[t] = "generating",
           NEW pools, Add(t, pools, rows)
    PROVE  /\ (fork[t].pools)' = NextPools(t, pools, KeysIn(rows))
           /\ (fork[t].short)' = (Len(rows) < PieceSize(t))
           /\ ToSet(Making(t))' = ToSet(Making(t)) \cup Keys(ToSet(rows))
           /\ TracksKeys(t) => taken'[t] = taken[t] \cup Keys(ToSet(rows))
           /\ stage' = stage /\ loaded' = loaded /\ atStart' = atStart /\ emitted' = emitted
<1>1. RunShape /\ ForkShape(t, fork[t], "generating")
  BY DEF IInv, TableInv, TableShape
<1>2. fork[t].buf \in Seq(RowType(t)) /\ IsMap(fork) /\ IsMap(taken)
  BY <1>1 DEF ForkShape, RunShape
<1>3. stage' = stage /\ loaded' = loaded /\ atStart' = atStart /\ emitted' = emitted
  BY DEF Add
<1>4. TracksKeys(t) => taken'[t] = taken[t] \cup Keys(ToSet(rows))
  <2> SUFFICES ASSUME TracksKeys(t) PROVE taken'[t] = taken[t] \cup Keys(ToSet(rows))
    OBVIOUS
  <2>1. taken' = [taken EXCEPT ![t] = taken[t] \cup Keys(ToSet(rows))]
    BY DEF Add
  <2> QED
    BY <1>2, <2>1 DEF IsMap
<1> DEFINE g     == fork[t]
           next  == NextPools(t, pools, KeysIn(rows))
           since == IF Redraws(t) THEN 0 ELSE g.since
           base  == IF g.buf = <<>> THEN Len(pools[t]) ELSE g.preloaded
           buf   == g.buf \o rows
           short == Len(rows) < PieceSize(t)
           left  == IF Len(rows) < PieceSize(t) THEN <<>>
                    ELSE IF Len(rows) = Head(g.adds) THEN Tail(g.adds)
                    ELSE <<Head(g.adds) - Len(rows)>> \o Tail(g.adds)
<1>5. fork' = [fork EXCEPT ![t] = [g EXCEPT !.pools = next, !.since = since, !.preloaded = base,
                                            !.buf = buf, !.adds = left, !.short = short]]
  <2> DEFINE added == IF Kind[t] = "junction" THEN pools
                      ELSE [pools EXCEPT ![t] = @ \o [i \in DOMAIN rows |-> rows[i].key]]
  <2>1. fork' = [fork EXCEPT ![t] =
           [g EXCEPT !.pools = added, !.since = since, !.preloaded = base, !.buf = buf, !.adds = left, !.short = short]]
    BY DEF Add
  <2>2. added = next
    BY DEF NextPools, KeysIn
  <2> HIDE DEF added, left, since, base, buf, short, next, g
  <2> QED
    BY <2>1, <2>2
<1>6. g \in [pools : {g.pools}, since : Nat, adds : Seq(Nat \ {0}), buf : Seq(RowType(t)),
             preloaded : Nat, short : BOOLEAN]
  BY <1>1 DEF ForkShape
<1>7. fork'[t] = [g EXCEPT !.pools = next, !.since = since, !.preloaded = base,
                           !.buf = buf, !.adds = left, !.short = short]
  <2> HIDE DEF g, next, since, base, buf, left, short
  <2> QED
    BY <1>2, <1>5 DEF IsMap
<1>8. fork'[t].pools = next /\ fork'[t].buf = buf /\ fork'[t].short = short
  <2> HIDE DEF g, next, since, base, buf, left, short
  <2> QED
    BY <1>6, <1>7
<1>9. KeysIn(buf) = KeysIn(g.buf) \o KeysIn(rows)
  <2> DEFINE b == g.buf
  <2>1. b \in Seq(RowType(t))
    BY <1>2
  <2> HIDE DEF b
  <2> QED
    BY <2>1, KeysInConcat DEF b
<1>10. ToSet(KeysIn(g.buf) \o KeysIn(rows)) = ToSet(KeysIn(g.buf)) \cup ToSet(KeysIn(rows))
  <2>1. KeysIn(g.buf) \in Seq(KeyType(t)) /\ KeysIn(rows) \in Seq(KeyType(t))
    BY <1>2, KeysInIs
  <2> QED
    BY <2>1, SetOfConcat
<1>11. ToSet(KeysIn(rows)) = Keys(ToSet(rows))
  BY KeysInIs
<1>12. ToSet(Making(t))' = ToSet(Making(t)) \cup Keys(ToSet(rows))
  <2>1. Making(t)' = KeysIn(buf) /\ Making(t) = KeysIn(g.buf)
    BY <1>8 DEF Making
  <2>2. ToSet(Making(t))' = ToSet(KeysIn(buf))
    BY <2>1 DEF ToSet
  <2> QED
    BY <1>9, <1>10, <1>11, <2>1, <2>2
<1> QED
  BY <1>3, <1>4, <1>8, <1>12

\* Rows of a walk leave the pools it combines.
LEMMA JunctionJoins ==
    ASSUME IInv, NEW t \in Tables, Enumerated(t), NEW rows \in Seq(RowType(t)), stage[t] = "generating",
           Add(t, fork[t].pools, rows)
    PROVE  /\ \A u \in ParentsOf(t) : (fork[t].pools[u])' = fork[t].pools[u]
           /\ (fork[t].short)' = (Len(rows) < PieceSize(t))
           /\ ToSet(Making(t))' = ToSet(Making(t)) \cup Keys(ToSet(rows))
           /\ taken'[t] = taken[t] \cup Keys(ToSet(rows))
           /\ stage' = stage /\ loaded' = loaded /\ atStart' = atStart /\ emitted' = emitted
<1>1. TableShape(t) /\ TablePools(t)
  BY DEF IInv, TableInv
<1>2. PoolsGood(t, fork[t].pools)
  BY <1>1 DEF PoolsGood, TableShape, ForkShape, TablePools
<1> DEFINE pools == fork[t].pools
           keys == KeysIn(rows)
<1>3. /\ (fork[t].pools)' = NextPools(t, pools, keys)
      /\ (fork[t].short)' = (Len(rows) < PieceSize(t))
      /\ ToSet(Making(t))' = ToSet(Making(t)) \cup Keys(ToSet(rows))
      /\ TracksKeys(t) => taken'[t] = taken[t] \cup Keys(ToSet(rows))
      /\ stage' = stage /\ loaded' = loaded /\ atStart' = atStart /\ emitted' = emitted
  BY Joins
<1>4. TracksKeys(t)
  BY TableFacts DEF TracksKeys
<1>5. \A u \in ParentsOf(t) : NextPools(t, pools, keys)[u] = pools[u]
  <2> HIDE DEF keys
  <2> QED
    BY <1>2, NextPoolsOfParents
<1>6. \A u \in ParentsOf(t) : (fork[t].pools[u])' = fork[t].pools[u]
  BY <1>3, <1>5
<1> QED
  BY <1>3, <1>4, <1>6

\* A walk leaves no key behind that is not taken.
LEMMA JunctionWalks == ASSUME IInv, JunctionsInv, NEW t \in Tables, AddJunction(t) PROVE JunctionInv(t)'
<1> DEFINE k == PieceSize(t)
           F == Free(t, k)
<1>1. RunShape /\ TableShape(t) /\ Adding(t) /\ stage[t] = "generating" /\ Enumerated(t) /\ JunctionInv(t)
  BY DEF IInv, TableInv, AddJunction, Adding, JunctionsInv
<1>2. k \in Nat \ {0} /\ cursor[t] \in Nat /\ IsFiniteSet(taken[t]) /\ PoolsTyped(t) /\ loaded
  BY <1>1, PieceIs, PoolsAreTyped DEF RunShape, TableShape, ForkShape
<1>3. PICK free \in Ascending(F) :
        /\ \E tags \in [DOMAIN Got(free, k) -> TagsOf(t)] : Add(t, fork[t].pools, JunctionRows(t, Got(free, k), tags))
        /\ cursor' = [cursor EXCEPT ![t] = IF Len(Got(free, k)) = k THEN Last(Got(free, k)) + 1
                                           ELSE Max({cursor[t], WalkEnd(t, k)})]
  BY ZenonT(60) DEF AddJunction, JunctionRows, KeyAt, Got
<1> DEFINE got == Got(free, k)
<1>4. F \in SUBSET Int /\ F \subseteq 0..(Combinations(t) - 1) /\ IsFiniteSet(F)
  BY <1>2, FreeIs
<1> HIDE DEF F
<1>5. /\ got \in Seq(F) /\ Len(got) <= k
      /\ Len(got) < k => Cardinality(F) < k /\ \A x \in F : \E i \in 1..Len(got) : got[i] = x
      /\ Len(got) = k => Last(got) \in F /\ \A x \in F : x <= Last(got) => \E i \in 1..Len(got) : got[i] = x
  <2> HIDE DEF k
  <2> QED
    BY <1>2, <1>4, GotIs
<1>t. PICK tags \in [DOMAIN got -> TagsOf(t)] : Add(t, fork[t].pools, JunctionRows(t, got, tags))
  BY <1>3
<1> DEFINE rows == JunctionRows(t, got, tags)
<1> HIDE DEF got
<1>6. got \in Seq(0..(Combinations(t) - 1))
  <2> DEFINE S == 0..(Combinations(t) - 1)
  <2>1. got \in Seq(F) /\ F \subseteq S
    BY <1>4, <1>5
  <2> HIDE DEF S
  <2>2. got \in Seq(S)
    BY <2>1
  <2> QED
    BY <2>2 DEF S
<1>7. /\ rows \in Seq(RowType(t)) /\ Len(rows) = Len(got)
      /\ \A i \in 1..Len(got) : KeyAt(t, got[i]) \in Keys(ToSet(rows))
  BY <1>1, <1>2, <1>6, <1>t, JunctionRowsAre
<1> HIDE DEF rows
<1>8. Add(t, fork[t].pools, rows)
  BY <1>t DEF rows
<1>9. /\ \A u \in ParentsOf(t) : (fork[t].pools[u])' = fork[t].pools[u]
      /\ (fork[t].short)' = (Len(rows) < PieceSize(t))
      /\ ToSet(Making(t))' = ToSet(Making(t)) \cup Keys(ToSet(rows))
      /\ taken'[t] = taken[t] \cup Keys(ToSet(rows))
      /\ stage' = stage /\ loaded' = loaded /\ atStart' = atStart /\ emitted' = emitted
  BY <1>1, <1>7, <1>8, JunctionJoins
<1>10. Combinations(t)' = Combinations(t) /\ \A i : KeyAt(t, i)' = KeyAt(t, i)
  <2>1. \A c \in 1..Len(Parents[t]) : Pool(t, c)' = Pool(t, c)
    BY <1>9, TableFacts DEF Pool
  <2> QED
    BY <1>2, <2>1, CombinationsKept
<1>11. ~MayDrop(t) => taken'[t] \subseteq Referable(t)' \cup ToSet(Making(t))'
  <2>1. Referable(t)' = Referable(t)
    BY <1>9 DEF Referable
  <2> QED
    BY <1>1, <1>2, <1>9, <2>1 DEF JunctionInv
<1>12. cursor'[t] = IF Len(got) = k THEN Last(got) + 1 ELSE Max({cursor[t], WalkEnd(t, k)})
  <2>1. cursor \in [Tables -> Nat]
    BY <1>1 DEF RunShape
  <2> QED
    BY <1>3, <2>1 DEF got
<1>13. ASSUME NEW i \in 0..(Combinations(t) - 1), i < cursor'[t] \/ (fork[t].short)' PROVE KeyAt(t, i) \in taken'[t]
  <2>1. CASE i < cursor[t]
    <3>1. KeyAt(t, i) \in taken[t]
      BY <1>1, <2>1 DEF JunctionInv
    <3> QED
      BY <1>9, <3>1
  <2>2. ASSUME i \in F, \E j \in 1..Len(got) : got[j] = i PROVE KeyAt(t, i) \in taken'[t]
    BY <1>7, <1>9, <2>2
  <2>3. ASSUME i \in cursor[t]..(WalkEnd(t, k) - 1), i \notin F PROVE KeyAt(t, i) \in taken'[t]
    <3>1. KeyAt(t, i) \in taken[t]
      BY <2>3 DEF F, Free, KeyAt
    <3> QED
      BY <1>9, <3>1
  <2>4. Len(got) \in Nat
    BY <1>5
  <2>5. CASE i >= cursor[t] /\ Len(got) = k
    <3>1. i <= Last(got) /\ Last(got) \in F
      <4>1. ~(fork[t].short)'
        <5>1. Len(rows) = k /\ ~(k < k)
          BY <1>2, <1>7, <2>5
        <5>2. ~(Len(rows) < PieceSize(t))
          BY <5>1
        <5> QED
          BY <1>9, <5>2
      <4>2. Last(got) \in F /\ Last(got) \in Int /\ i < Last(got) + 1
        BY <1>4, <1>5, <1>12, <1>13, <2>5, <4>1
      <4> QED
        BY <4>2
    <3>2. i \in cursor[t]..(WalkEnd(t, k) - 1)
      <4>1. Last(got) \in cursor[t]..(WalkEnd(t, k) - 1) /\ WalkEnd(t, k) \in Int
        BY <1>2, <3>1, FreeIs DEF F, Free
      <4> QED
        BY <1>2, <2>5, <3>1, <4>1
    <3> QED
      BY <1>5, <2>2, <2>3, <2>5, <3>1, <3>2
  <2>6. CASE i >= cursor[t] /\ Len(got) < k
    <3>1. WalkEnd(t, k) = Combinations(t)
      <4>1. Cardinality(Free(t, k)) < k
        BY <1>5, <2>6 DEF F
      <4>2. k \in Nat
        BY <1>2
      <4> HIDE DEF k
      <4> QED
        BY <1>1, <1>2, <4>1, <4>2, WalkEnds
    <3>2. i \in cursor[t]..(WalkEnd(t, k) - 1)
      BY <1>2, <2>6, <3>1
    <3> QED
      BY <1>5, <2>2, <2>3, <2>6, <3>2
  <2> QED
    BY <1>2, <1>5, <2>1, <2>4, <2>5, <2>6
<1> QED
  BY <1>1, <1>9, <1>10, <1>11, <1>13, StaysDropping DEF JunctionInv

\* Numbers less than a whole round apart differ.
LEMMA NumbersApart ==
    ASSUME NEW a \in Nat, NEW b \in Nat, NEW n \in Nat, a < b, b - a < n PROVE a % n # b % n
<1> DEFINE p == a \div n
           q == b \div n
           r == a % n
           s == b % n
<1>1. n > 0 /\ a = n * p + r /\ b = n * q + s /\ p \in Nat /\ q \in Nat /\ r \in Nat /\ s \in Nat
  BY Division
<1> HIDE DEF p, q, r, s
<1> SUFFICES ASSUME r = s PROVE FALSE
  BY DEF r, s
<1>2. n * q > n * p /\ n * q < n * p + n
  <2> DEFINE x == n * p
             y == n * q
  <2>1. x \in Nat /\ y \in Nat /\ a = x + r /\ b = y + r
    BY <1>1
  <2> HIDE DEF x, y
  <2> QED
    BY <2>1, <1>1 DEF x, y
<1>3. CASE q <= p
  <2>1. n * q <= n * p
    BY <1>1, <1>3
  <2> QED
    BY <1>1, <1>2, <2>1
<1>4. CASE q >= p + 1
  <2>1. n * q >= n * (p + 1)
    BY <1>1, <1>4
  <2>2. n * (p + 1) = n * p + n
    BY <1>1
  <2> QED
    BY <1>1, <1>2, <2>1, <2>2
<1> QED
  BY <1>1, <1>3, <1>4

\* Numbers of one chunk are all different unless they wrap around within it, so
\* no row of a table without a UNIQUE group is dropped.
LEMMA NothingDropped ==
    ASSUME RunShape, NEW t \in Tables, ~MayDrop(t),
           NEW buf \in Seq(RowType(t)), Len(buf) <= ChunkRows, NEW out \in Settled(t, Number(t, buf)), NEW i \in 1..Len(buf)
    PROVE  out[i] # Null
<1> DEFINE rows == Number(t, buf)
           before == {out[j] : j \in 1..(i - 1)} \ {Null}
<1>1. rows \in Seq(RowType(t)) /\ Len(rows) = Len(buf) /\ DOMAIN rows = 1..Len(buf)
  BY NumberIs
<1>2. out \in Settled(t, rows) /\ i \in DOMAIN rows
  BY <1>1
<1>3. t \notin Grouped
  BY DEF MayDrop
<1>4. ASSUME t \in Numbered, NEW j \in 1..Len(buf)
      PROVE  rows[j].num = (seqStart[t] + j - 1) % NumberSpace
  <2> DEFINE m == (seqStart[t] + j - 1) % NumberSpace
  <2>1. buf[j] \in RowType(t) /\ j \in DOMAIN buf
    OBVIOUS
  <2>2. rows[j] = [buf[j] EXCEPT !.num = m]
    BY <1>4, <2>1 DEF Number
  <2> HIDE DEF m
  <2>3. rows[j].num = m
    BY <2>1, <2>2 DEF RowType
  <2> QED
    BY <2>3 DEF m
<1> HIDE DEF rows
<1>5. ASSUME t \in Numbered, NEW j \in 1..(i - 1) PROVE rows[j].num # rows[i].num
  <2>1. NumberSpace \in Nat /\ ChunkRows \in Nat /\ ChunkRows <= NumberSpace
    BY <1>5, Limits DEF MayDrop
  <2>2. j \in 1..Len(buf) /\ Len(buf) \in Nat /\ seqStart[t] \in Nat
    BY DEF RunShape
  <2> DEFINE a == seqStart[t] + j - 1
             b == seqStart[t] + i - 1
  <2>3. a \in Nat /\ b \in Nat /\ a < b /\ b - a < NumberSpace
    BY <2>1, <2>2, SMTT(60)
  <2> HIDE DEF a, b
  <2>4. a % NumberSpace # b % NumberSpace
    BY <2>1, <2>3, NumbersApart
  <2> QED
    BY <1>4, <1>5, <2>2, <2>4 DEF a, b
<1>6. ~Clashes(t, rows[i], before)
  <2> SUFFICES ASSUME t \in Numbered, NEW r \in before, rows[i].num = r.num PROVE FALSE
    BY <1>3 DEF Clashes
  <2>1. PICK j \in 1..(i - 1) : r = out[j] /\ out[j] # Null
    OBVIOUS
  <2>2. j \in 1..Len(rows)
    BY <1>1
  <2>3. out[j].num = rows[j].num
    BY <1>1, <1>2, <2>1, <2>2, SettledDiffer
  <2> QED
    BY <1>5, <2>1, <2>3
<1>7. out[i] = rows[i]
  BY <1>2, <1>6 DEF Settled
<1>8. rows[i] \in RowType(t)
  BY <1>1
<1> QED
  BY <1>7, <1>8, KeyStreamAssumption

\* Every key of such a table's chunk is one of the rows kept of it.
LEMMA KeysAreKept ==
    ASSUME RunShape, NEW t \in Tables, ~MayDrop(t),
           NEW buf \in Seq(RowType(t)), Len(buf) <= ChunkRows, NEW out \in Settled(t, Number(t, buf)),
           NEW left \in Ascending(KeptAt(out))
    PROVE  ToSet(KeysIn(buf)) \subseteq ToSet(KeysIn(KeptRows(out, left)))
<1> DEFINE rows == Number(t, buf)
           L    == KeptAt(out)
           kept == KeptRows(out, left)
<1>1. rows \in Seq(RowType(t)) /\ Len(rows) = Len(buf) /\ \A i \in 1..Len(buf) : SameRow(rows[i], buf[i])
  BY NumberIs
<1>2. \A i \in 1..Len(buf) : out[i] # Null
  BY NothingDropped
<1>3. out \in Settled(t, rows)
  OBVIOUS
<1> HIDE DEF rows
<1>4. /\ DOMAIN out = 1..Len(rows)
      /\ \A i \in 1..Len(rows) : out[i] # Null => out[i] \in RowType(t) /\ SameRow(out[i], rows[i])
  BY <1>1, <1>3, SettledIs
<1>5. 1..Len(buf) \subseteq L /\ L \subseteq 1..Len(rows)
  BY <1>1, <1>2, <1>4 DEF KeptAt
<1>6. L \in SUBSET Int /\ IsFiniteSet(L) /\ left \in Ascending(L)
  <2>1. Len(rows) \in Nat
    BY <1>1
  <2>2. IsFiniteSet(1..Len(rows)) /\ 1..Len(rows) \subseteq Int
    BY <2>1, FS_Interval
  <2>3. left \in Ascending(L)
    OBVIOUS
  <2> HIDE DEF L
  <2> QED
    BY <1>5, <2>2, <2>3, FS_Subset
<1>7. kept \in Seq(RowType(t))
  <2>1. kept = KeptRows(out, left)
    OBVIOUS
  <2> HIDE DEF kept, L
  <2> QED
    BY <1>1, <1>4, <2>1, KeptIs
<1>8. DOMAIN kept = DOMAIN left /\ \A a \in DOMAIN left : kept[a] = out[left[a]]
  BY DEF KeptRows
<1> HIDE DEF L, kept
<1>9. left \in Seq(L) /\ \A i \in L : \E a \in 1..Len(left) : left[a] = i
  <2>1. left \in Seq(L) /\ ToSet(left) = L
    BY <1>6, AscendingIs
  <2> QED
    BY <2>1, SetOf
<1>10. ASSUME NEW x \in ToSet(KeysIn(buf)) PROVE x \in ToSet(KeysIn(kept))
  <2>1. PICK i \in 1..Len(buf) : x = buf[i].key
    BY <1>10, KeysInIs DEF ToSet
  <2>2. PICK a \in 1..Len(left) : left[a] = i
    BY <1>5, <1>9
  <2>3. a \in DOMAIN left /\ a \in 1..Len(kept)
    BY <1>7, <1>8, <1>9
  <2>4. kept[a].key = x
    BY <1>1, <1>2, <1>4, <1>8, <2>1, <2>2, <2>3 DEF SameRow
  <2>5. KeysIn(kept)[a] = x /\ KeysIn(kept) \in Seq(KeyType(t)) /\ a \in 1..Len(KeysIn(kept))
    BY <1>7, <2>3, <2>4, KeysInIs
  <2> QED
    BY <2>5, SetOf
<1> QED
  BY <1>10 DEF kept

\* What a flush leaves of a fork.
LEMMA FlushedLeaves ==
    ASSUME NEW t, NEW P, NEW A, NEW B, NEW g, ForkIn(g, P, A, B), NEW capped, NEW kept,
           NEW f, f = Flushed(g, t, capped, kept)
    PROVE  f.pools = Cut(g.pools, t, capped) /\ f.short = g.short
<1> DEFINE next == Cut(g.pools, t, capped)
           m == Len(capped)
           since == g.since + Len(kept)
           b == <<>>
<1>1. f = [g EXCEPT !.pools = next, !.preloaded = m, !.since = since, !.buf = b]
  BY DEF Flushed, Cut
<1> HIDE DEF next, m, since, b
<1>2. f.pools = next /\ f.short = g.short
  BY <1>1 DEF ForkIn
<1> QED
  BY <1>2 DEF next

\* It leaves the parents' pools.
LEMMA FlushLeavesParents ==
    ASSUME IInv, NEW t \in Tables, Flush(t)
    PROVE  /\ (fork[t].short)' = fork[t].short
           /\ \A u \in ParentsOf(t) : (fork[t].pools[u])' = fork[t].pools[u]
<1>1. RunShape /\ ForkShape(t, fork[t], "generating")
  BY DEF IInv, TableInv, TableShape, Flush
<1>2. PICK out \in Settled(t, Number(t, fork[t].buf)) : \E left \in Ascending(KeptAt(out)) : HandedOver(t, KeptRows(out, left))
  BY FlushIs
<1>3. PICK left \in Ascending(KeptAt(out)) : HandedOver(t, KeptRows(out, left))
  BY <1>2
<1> DEFINE kept == KeptRows(out, left)
<1>4. \E capped : fork' = [fork EXCEPT ![t] = Flushed(fork[t], t, capped, kept)]
  BY <1>3 DEF HandedOver
<1> HIDE DEF kept
<1>5. PICK capped : fork' = [fork EXCEPT ![t] = Flushed(fork[t], t, capped, kept)]
  BY <1>4
<1> DEFINE g == fork[t]
           f == Flushed(g, t, capped, kept)
<1>6. fork'[t] = f
  <2> HIDE DEF f
  <2> QED
    BY <1>1, <1>5 DEF RunShape, IsMap, f
<1>7. f.pools = Cut(g.pools, t, capped) /\ f.short = g.short
  <2> DEFINE A == Seq(Nat \ {0})
             B == Seq(RowType(t))
             P == {g.pools}
  <2>1. ForkIn(g, P, A, B)
    BY <1>1 DEF ForkShape, ForkIn
  <2>2. f = Flushed(g, t, capped, kept)
    OBVIOUS
  <2> HIDE DEF g, f, A, B, P
  <2> QED
    BY <2>1, <2>2, FlushedLeaves
<1> HIDE DEF f
<1>8. (fork[t].short)' = fork[t].short
  BY <1>6, <1>7
<1>9. ASSUME NEW u \in ParentsOf(t) PROVE (fork[t].pools[u])' = fork[t].pools[u]
  <2>1. u # t
    BY TableFacts
  <2>2. DOMAIN g.pools = {t} \cup ParentsOf(t)
    BY <1>1 DEF ForkShape
  <2>3. f.pools[u] = g.pools[u]
    BY <1>7, <2>1, <2>2 DEF Cut
  <2> QED
    BY <1>6, <2>3
<1> QED
  BY <1>8, <1>9

\* A chunk handed over leaves nothing taken that is not there.
LEMMA JunctionFlush ==
    ASSUME IInv, JunctionsInv, NEW t \in Tables, Enumerated(t), Flush(t)
    PROVE  JunctionInv(t)'
<1> DEFINE buf == fork[t].buf
<1>1. RunShape /\ ForkShape(t, fork[t], "generating") /\ JunctionInv(t) /\ emitted[t] \in Seq(RowType(t))
  BY DEF IInv, TableInv, TableShape, JunctionsInv, Flush
<1>2. buf \in Seq(RowType(t)) /\ Len(buf) <= ChunkRows
  BY <1>1 DEF ForkShape
<1>3. /\ stage' = stage /\ loaded' = loaded /\ atStart' = atStart /\ cursor' = cursor /\ taken' = taken
  BY DEF Flush
<1>4. PICK out \in Settled(t, Number(t, buf)) : \E left \in Ascending(KeptAt(out)) : HandedOver(t, KeptRows(out, left))
  BY FlushIs
<1>5. PICK left \in Ascending(KeptAt(out)) : HandedOver(t, KeptRows(out, left))
  BY <1>4
<1> DEFINE kept == KeptRows(out, left)
           done == Backfilled(t, kept)
<1>6. HandedOver(t, kept)
  BY <1>5
<1>7. ~MayDrop(t) => ToSet(KeysIn(buf)) \subseteq ToSet(KeysIn(kept))
  <2> HIDE DEF buf
  <2> QED
    BY <1>1, <1>2, KeysAreKept
<1> HIDE DEF kept
<1>8. /\ done \in Seq(RowType(t)) /\ KeysIn(done) = KeysIn(kept)
      /\ emitted' = [emitted EXCEPT ![t] = emitted[t] \o done]
      /\ \E capped : fork' = [fork EXCEPT ![t] = Flushed(fork[t], t, capped, kept)]
  BY <1>6 DEF HandedOver
<1> HIDE DEF done
<1>9. emitted'[t] = emitted[t] \o done
  BY <1>1, <1>8 DEF RunShape, IsMap
<1>10. /\ Keys(ToSet(emitted[t])) \subseteq Keys(ToSet(emitted'[t]))
       /\ ~MayDrop(t) => ToSet(KeysIn(buf)) \subseteq Keys(ToSet(emitted'[t]))
  <2>1. ToSet(emitted[t] \o done) = ToSet(emitted[t]) \cup ToSet(done)
    BY <1>1, <1>8, SetOfConcat
  <2>2. Keys(ToSet(emitted'[t])) = Keys(ToSet(emitted[t])) \cup Keys(ToSet(done))
    BY <1>9, <2>1 DEF Keys
  <2>3. Keys(ToSet(done)) = ToSet(KeysIn(kept))
    BY <1>8, KeysInIs
  <2> QED
    BY <1>7, <2>2, <2>3
<1>11. ~MayDrop(t) => Referable(t) \cup ToSet(Making(t)) \subseteq Referable(t)' \cup ToSet(Making(t)')
  BY <1>3, <1>10 DEF Referable, Making
<1>12. \A c \in 1..Len(Parents[t]) : Pool(t, c)' = Pool(t, c)
  BY FlushLeavesParents, TableFacts DEF Pool
<1>13. (fork[t].short)' = fork[t].short
  BY FlushLeavesParents
<1> QED
  BY <1>1, <1>3, <1>11, <1>12, <1>13, JunctionFrame

\* A step that leaves what a junction counts and combines.
LEMMA JunctionAside ==
    ASSUME IInv, NEW t \in Tables, JunctionInv(t),
           stage[t] = "waiting" <=> stage'[t] = "waiting", loaded' = loaded, atStart' = atStart,
           cursor'[t] = cursor[t], taken'[t] = taken[t], emitted'[t] = emitted[t],
           (fork[t].pools)' = fork[t].pools, (fork[t].buf)' = fork[t].buf, (fork[t].short)' => fork[t].short
    PROVE  JunctionInv(t)'
<1>1. Referable(t)' = Referable(t) /\ Making(t)' = Making(t)
  BY DEF Referable, Making
<1>2. \A c \in 1..Len(Parents[t]) : Pool(t, c)' = Pool(t, c)
  BY DEF Pool
<1>3. Referable(t) \cup ToSet(Making(t)) \subseteq Referable(t)' \cup ToSet(Making(t)')
  BY <1>1
<1> QED
  BY <1>2, <1>3, JunctionFrame

\* A step of one table changes nothing of another that its junction counts.
LEMMA StepElsewhere ==
    ASSUME RunShape, NEW u \in Tables, ForkTable(u) \/ Generate(u) \/ CallAgain(u) \/ MergeTable(u) \/ Write(u),
           NEW t \in Tables, t # u
    PROVE  /\ stage'[t] = stage[t] /\ loaded' = loaded /\ atStart' = atStart /\ cursor'[t] = cursor[t]
           /\ taken'[t] = taken[t] /\ emitted'[t] = emitted[t] /\ fork'[t] = fork[t] /\ pks'[t] = pks[t]
<1>1. loaded' = loaded /\ atStart' = atStart
  <2>1. ASSUME NEW pools, NEW rows, Add(u, pools, rows) PROVE loaded' = loaded /\ atStart' = atStart
    BY <2>1 DEF Add
  <2> QED
    BY <2>1 DEF ForkTable, Generate, AddStandard, AddJunction, Fail, Flush, Return, CallAgain, MergeTable, Write
<1>2. \/ stage' = stage
      \/ \E x : stage' = [stage EXCEPT ![u] = x]
  <2>1. ASSUME NEW pools, NEW rows, Add(u, pools, rows) PROVE stage' = stage
    BY <2>1 DEF Add
  <2> QED
    BY <2>1 DEF ForkTable, Generate, AddStandard, AddJunction, Fail, Flush, Return, CallAgain, MergeTable, Write
<1>3. \/ fork' = fork
      \/ \E x : fork' = [fork EXCEPT ![u] = x]
  <2>1. ASSUME NEW pools, NEW rows, Add(u, pools, rows) PROVE \E x : fork' = [fork EXCEPT ![u] = x]
    BY <2>1 DEF Add
  <2> QED
    BY <2>1 DEF ForkTable, Generate, AddStandard, AddJunction, Fail, Flush, Return, CallAgain, MergeTable, Write
<1>4. \/ taken' = taken
      \/ \E x : taken' = [taken EXCEPT ![u] = x]
  <2>1. ASSUME NEW pools, NEW rows, Add(u, pools, rows) PROVE \E x : taken' = [taken EXCEPT ![u] = x]
    BY <2>1 DEF Add
  <2> QED
    BY <2>1 DEF ForkTable, Generate, AddStandard, AddJunction, Fail, Flush, Return, CallAgain, MergeTable, Write, known
<1>5. \/ cursor' = cursor
      \/ \E x : cursor' = [cursor EXCEPT ![u] = x]
  BY DEF ForkTable, Generate, AddStandard, AddJunction, Fail, Flush, Return, CallAgain, MergeTable, Write
<1>6. \/ emitted' = emitted
      \/ \E x : emitted' = [emitted EXCEPT ![u] = x]
  <2>1. ASSUME NEW pools, NEW rows, Add(u, pools, rows) PROVE emitted' = emitted
    BY <2>1 DEF Add
  <2> QED
    BY <2>1 DEF ForkTable, Generate, AddStandard, AddJunction, Fail, Flush, Return, CallAgain, MergeTable, Write
<1>p. \/ pks' = pks
      \/ \E x : pks' = [pks EXCEPT ![u] = x]
  <2>1. ASSUME NEW pools, NEW rows, Add(u, pools, rows) PROVE pks' = pks
    BY <2>1 DEF Add
  <2> QED
    BY <2>1 DEF ForkTable, Generate, AddStandard, AddJunction, Fail, Flush, Return, CallAgain, MergeTable, Write
<1>7. stage'[t] = stage[t] /\ cursor'[t] = cursor[t]
  BY <1>2, <1>5 DEF RunShape
<1>8. fork'[t] = fork[t] /\ taken'[t] = taken[t] /\ emitted'[t] = emitted[t] /\ pks'[t] = pks[t]
  BY <1>3, <1>4, <1>6, <1>p DEF RunShape, IsMap
<1> QED
  BY <1>1, <1>7, <1>8

\* The table's own steps that make and hand over no rows.
LEMMA JunctionStays ==
    ASSUME IInv, NEW t \in Tables, JunctionInv(t), Fail(t) \/ Return(t) \/ MergeTable(t) \/ Write(t)
    PROVE  JunctionInv(t)'
<1>1. RunShape
  BY DEF IInv
<1>2. /\ loaded' = loaded /\ atStart' = atStart /\ cursor' = cursor /\ taken' = taken /\ emitted' = emitted
      /\ fork' = fork
  BY DEF Fail, Return, MergeTable, Write, known
<1>3. stage[t] = "waiting" <=> stage'[t] = "waiting"
  BY <1>1 DEF Fail, Adding, Return, MergeTable, Write, RunShape
<1> QED
  BY <1>2, <1>3, JunctionAside

\* Another call goes on with the pools of the last one.
LEMMA AgainLeaves ==
    ASSUME RunShape, NEW t \in Tables, ForkShape(t, fork[t], "returned"), CallAgain(t)
    PROVE  (fork[t].pools)' = fork[t].pools /\ (fork[t].buf)' = fork[t].buf /\ ~(fork[t].short)'
<1> DEFINE g == fork[t]
           adds == Adds[t]
           m == Len(fork[t].pools[t])
           f == [g EXCEPT !.adds = adds, !.preloaded = m, !.short = FALSE]
<1>4. fork' = [fork EXCEPT ![t] = f]
  BY DEF CallAgain
<1>5. f.pools = g.pools /\ f.buf = g.buf /\ f.short = FALSE
  <2>1. g \in [pools : {g.pools}, since : Nat, adds : Seq(Nat \ {0}), buf : Seq(RowType(t)), preloaded : Nat, short : BOOLEAN]
    BY DEF ForkShape
  <2> HIDE DEF g, adds, m
  <2> QED
    BY <2>1
<1> HIDE DEF f
<1>6. fork'[t] = f
  BY <1>4 DEF RunShape, IsMap
<1> QED
  BY <1>5, <1>6

\* So it walks on from the cursor.
LEMMA JunctionAgain ==
    ASSUME IInv, NEW t \in Tables, JunctionInv(t), CallAgain(t) PROVE JunctionInv(t)'
<1>1. RunShape /\ ForkShape(t, fork[t], "returned")
  BY DEF IInv, TableInv, TableShape, CallAgain
<1>2. loaded' = loaded /\ atStart' = atStart /\ cursor' = cursor /\ taken' = taken /\ emitted' = emitted
  BY DEF CallAgain, known
<1>3. stage[t] = "waiting" <=> stage'[t] = "waiting"
  BY <1>1 DEF CallAgain, RunShape
<1>7. (fork[t].pools)' = fork[t].pools /\ (fork[t].buf)' = fork[t].buf /\ ~(fork[t].short)'
  BY <1>1, AgainLeaves
<1> QED
  BY <1>2, <1>3, <1>7, JunctionAside

(***************************************************************************)
(* Pools that hold all the keys there are.                                 *)
(***************************************************************************)
\* A table all of whose keys fit a pool.
Small(u) == Cardinality(Referable(u)) <= PoolLimit /\ ~OnlyNegative(u)

\* The pool of such a table holds its keys, later tables see the pool its fork
\* left, and one whose key is enumerated was forked with all keys of its parents.
Whole(t)  == loaded /\ Kind[t] # "junction" /\ Small(t) => Referable(t) \subseteq ToSet(OwnPool(t))
Handed(t) == stage[t] = "merged" => pks[t] = fork[t].pools[t]
Given(t)  == Enumerated(t) /\ stage[t] # "waiting" =>
               \A u \in ParentsOf(t) : Position(u) < Position(t) =>
                 stage[u] = "merged" /\ (Small(u) => Referable(u) \subseteq ToSet(fork[t].pools[u]))
WholeInv  == \A t \in Tables : Whole(t) /\ Handed(t) /\ Given(t)

\* The keys of a table are finitely many.
LEMMA ReferableFinite ==
    ASSUME IInv, NEW t \in Tables PROVE IsFiniteSet(Referable(t))
<1>1. emitted[t] \in Seq(RowType(t)) /\ atStart \in StoredRows
  BY DEF IInv, TableInv, TableShape, RunShape
<1>2. IsFiniteSet(OldKeys(t)) /\ IsFiniteSet(Keys(ToSet(emitted[t])))
  BY <1>1, OldTyped, KeysFinite
<1>3. Referable(t) = OldKeys(t) \cup Keys(ToSet(emitted[t]))
  BY DEF Referable, OldKeys
<1> QED
  BY <1>2, <1>3, FS_Union

\* As long as there are no new rows, a pool that loses none holds all.
LEMMA WholeStays ==
    ASSUME NEW t, Whole(t), atStart' = atStart, emitted'[t] = emitted[t], loaded' = loaded,
           Kind[t] # "junction" => ToSet(OwnPool(t)) \subseteq ToSet(OwnPool(t))'
    PROVE  Whole(t)'
<1>1. Referable(t)' = Referable(t)
  BY DEF Referable
<1>2. Small(t)' <=> Small(t)
  BY <1>1 DEF Small, OnlyNegative
<1> QED
  BY <1>1, <1>2 DEF Whole

\* The pools that are read hold all stored keys that fit.
LEMMA WholeLoad == ASSUME IInv, Load, NEW t \in Tables PROVE Whole(t)'
<1>1. RunShape /\ TableShape(t) /\ ~loaded
  BY DEF IInv, TableInv, Load
<1>2. stage' = stage /\ fork' = fork /\ atStart' = atStart /\ emitted' = emitted
  BY DEF Load
<1>3. stage[t] = "waiting" /\ emitted[t] = <<>>
  BY <1>1 DEF TableShape, ForkShape, RunShape, Stages
<1>4. pks'[t] \in Pools(t)
  <2>1. pks' \in PoolsRead(Tables)
    BY DEF Load
  <2> QED
    BY <2>1 DEF PoolsRead
<1> DEFINE R == Referable(t)
<1>5. Stored(t) = R /\ Referable(t)' = R
  <2>1. Stored(t) = OldKeys(t)
    BY <1>1, <1>3, StoredIs
  <2>2. R = OldKeys(t)
    <3>1. Keys(ToSet(<<>>)) = {}
      BY NoKeys DEF Keys
    <3> QED
      BY <1>3, <3>1 DEF Referable, OldKeys
  <2> QED
    BY <1>2, <2>1, <2>2 DEF Referable
<1> SUFFICES ASSUME Kind[t] # "junction", Small(t)' PROVE R \subseteq ToSet(pks'[t])
  BY <1>2, <1>3, <1>5 DEF Whole, OwnPool
<1>6. Cardinality(R) <= PoolLimit /\ ~OnlyNegative(t) /\ R = OldKeys(t)
  <2>1. R = OldKeys(t)
    BY <1>1, <1>3, <1>5, StoredIs
  <2> QED
    BY <1>2, <1>5, <2>1 DEF Small, OnlyNegative
<1>7. R \in SUBSET Int /\ IsFiniteSet(R)
  BY <1>1, <1>5, StoredIs, TableFacts
<1>8. CASE Kind[t] = "sequence"
  <2>1. ~(R # {} /\ \A k \in R : k < 0)
    BY <1>6, <1>8 DEF OnlyNegative, OldKeys, Keys
  <2>2. pks'[t] \in IntegerPools(R, PoolLimit)
    BY <1>4, <1>5, <1>8 DEF Pools
  <2> HIDE DEF R
  <2> QED
    BY <1>6, <1>7, <2>1, <2>2, Limits, IntegerPoolIs
<1>9. CASE Kind[t] \in {"random", "identifying"}
  <2>1. pks'[t] \in OtherPools(R, PoolLimit)
    BY <1>4, <1>5, <1>9 DEF Pools
  <2> HIDE DEF R
  <2> QED
    BY <1>6, <1>7, <2>1, Limits, OtherPoolIs
<1> QED
  BY <1>8, <1>9, TableFacts

\* New keys join the pool.
LEMMA WholeAdds ==
    ASSUME IInv, NEW t \in Tables, Whole(t), NEW pools, NEW rows, Piece(t, pools, rows)
    PROVE  Whole(t)'
<1>1. /\ PoolsGood(t, pools) /\ rows \in Seq(RowType(t)) /\ Add(t, pools, rows) /\ stage[t] = "generating"
      /\ TableShape(t)
  BY DEF Piece, Adding, IInv, TableInv
<1> DEFINE keys == KeysIn(rows)
           pool == fork[t].pools[t]
<1>2. /\ (fork[t].pools)' = NextPools(t, pools, keys)
      /\ stage' = stage /\ loaded' = loaded /\ atStart' = atStart /\ emitted' = emitted
  BY <1>1, Joins
<1>3. ASSUME Kind[t] # "junction" PROVE ToSet(OwnPool(t)) \subseteq ToSet(OwnPool(t))'
  <2>1. keys \in Seq(KeyType(t)) /\ pool \in Seq(KeyType(t))
    BY <1>1, KeysInIs DEF TableShape, ForkShape
  <2>2. OwnPool(t) = pool /\ OwnPool(t)' = NextPools(t, pools, keys)[t]
    BY <1>1, <1>2 DEF OwnPool
  <2> HIDE DEF keys
  <2>3. NextPools(t, pools, keys)[t] = pool \o keys
    BY <1>1, <1>3, NextPoolsAre
  <2> HIDE DEF pool
  <2>4. ToSet(pool \o keys) = ToSet(pool) \cup ToSet(keys)
    BY <2>1, SetOfConcat
  <2>5. ToSet(OwnPool(t))' = ToSet(pool \o keys)
    BY <2>2, <2>3 DEF ToSet
  <2> QED
    BY <2>2, <2>4, <2>5
<1> QED
  BY <1>2, <1>3, WholeStays

\* Keys handed over are not cut from the pool while all of them fit.
LEMMA CutNone ==
    ASSUME NEW T, NEW pool \in Seq(T), NEW m, NEW making \in Seq(T), PoolEnds(pool, m, making),
           NEW kept \in Seq(T), NEW at, Picks(at, kept, making), IsInjective(pool),
           NEW old, IsFiniteSet(old), old \subseteq ToSet(pool), old \cap ToSet(making) = {}, PoolHolds(pool, m, old),
           NEW limit \in Nat \ {0}, NEW capped \in CappedPools(Dropped(pool, m, making, kept), limit),
           Cardinality(old \cup ToSet(kept)) <= limit
    PROVE  old \cup ToSet(kept) \subseteq ToSet(capped)
<1> DEFINE next == Dropped(pool, m, making, kept)
           all == old \cup ToSet(kept)
<1>1. next \in Seq(T) /\ PoolEnds(next, m, kept) /\ (\A i \in 1..m : next[i] = pool[i]) /\ \E b : Picks(b, next, pool)
  BY RebuiltIs
<1>2. IsInjective(next)
  BY <1>1, PickedKeeps
<1>3. m \in Nat /\ Len(pool) = m + Len(making) /\ \A i \in 1..Len(making) : pool[m + i] = making[i]
  BY DEF PoolEnds
<1>4. Len(next) = m + Len(kept) /\ \A i \in 1..Len(kept) : next[m + i] = kept[i]
  BY <1>1 DEF PoolEnds
<1>t. Len(making) \in Nat /\ Len(kept) \in Nat /\ Len(next) \in Nat
  BY <1>1
<1>5. all \subseteq ToSet(next)
  <2>1. ASSUME NEW x \in old PROVE x \in ToSet(next)
    <3>1. PICK i \in 1..Len(pool) : pool[i] = x
      BY <2>1, SetOf
    <3>2. i \in 1..m
      <4>1. ASSUME ~(i <= m) PROVE FALSE
        <5>1. i - m \in 1..Len(making) /\ m + (i - m) = i
          BY <1>3, <1>t, <4>1
        <5>2. making[i - m] = x
          BY <1>3, <3>1, <5>1
        <5>3. x \in ToSet(making)
          BY <5>1, <5>2, SetOf
        <5> QED
          BY <5>3
      <4> QED
        BY <1>3, <1>t, <4>1
    <3>3. next[i] = x /\ i \in 1..Len(next)
      BY <1>1, <1>3, <1>4, <1>t, <3>1, <3>2
    <3> HIDE DEF next
    <3> QED
      BY <1>1, <3>3, SetOf
  <2>2. ASSUME NEW x \in ToSet(kept) PROVE x \in ToSet(next)
    <3>1. PICK i \in 1..Len(kept) : kept[i] = x
      BY SetOf
    <3>2. next[m + i] = x /\ m + i \in 1..Len(next)
      BY <1>3, <1>4, <1>t, <3>1
    <3> HIDE DEF next
    <3> QED
      BY <1>1, <3>2, SetOf
  <2> QED
    BY <2>1, <2>2
<1>6. \A i \in 1..Len(next) : next[i] \in all
  <2> SUFFICES ASSUME NEW i \in 1..Len(next) PROVE next[i] \in all
    OBVIOUS
  <2>1. CASE i <= m
    <3>1. i \in 1..m
      BY <1>3, <2>1
    <3> QED
      BY <1>1, <3>1 DEF PoolHolds
  <2>2. CASE ~(i <= m)
    <3>1. i - m \in 1..Len(kept) /\ m + (i - m) = i
      BY <1>3, <1>4, <1>t, <2>2
    <3>2. next[i] = kept[i - m]
      BY <1>4, <3>1
    <3>3. kept[i - m] \in ToSet(kept)
      BY <3>1, SetOf
    <3> QED
      BY <3>2, <3>3
  <2> QED
    BY <2>1, <2>2
<1>7. IsFiniteSet(all)
  <2>1. IsFiniteSet(ToSet(kept))
    <3> DEFINE K == ToSet(kept)
    <3>1. (\A i \in 1..Len(kept) : kept[i] \in K) /\ \A x \in K : \E i \in 1..Len(kept) : kept[i] = x
      BY SetOf
    <3>2. DOMAIN kept = 1..Len(kept) /\ kept = [i \in 1..Len(kept) |-> kept[i]]
      OBVIOUS
    <3> HIDE DEF K
    <3>3. kept \in Surjection(1..Len(kept), K)
      BY <3>1, <3>2 DEF Surjection
    <3>4. IsFiniteSet(1..Len(kept))
      BY <1>t, FS_Interval
    <3>5. IsFiniteSet(K)
      BY <3>3, <3>4, FS_Surjection
    <3> QED
      BY <3>5 DEF K
  <2> QED
    BY <2>1, FS_Union
<1> HIDE DEF next, all
<1>8. Len(next) <= Cardinality(all)
  <2>1. DOMAIN next = 1..Len(next) /\ next = [i \in 1..Len(next) |-> next[i]]
    BY <1>1
  <2>2. next \in Injection(1..Len(next), all)
    BY <1>2, <1>6, <2>1 DEF Injection, IsInjective
  <2>3. Cardinality(1..Len(next)) <= Cardinality(all)
    BY <1>7, <2>2, FS_Injection
  <2> DEFINE k == Len(next)
  <2>4. k \in Nat
    BY <1>t
  <2> HIDE DEF k
  <2>5. Cardinality(1..k) = k
    <3>1. Cardinality(1..k) = IF 1 > k THEN 0 ELSE k - 1 + 1
      BY <2>4, FS_Interval
    <3> QED
      BY <2>4, <3>1
  <2> QED
    BY <2>3, <2>5 DEF k
<1>9. Len(next) <= limit
  <2>1. Cardinality(all) <= limit /\ Cardinality(all) \in Nat
    BY <1>7, FS_CardinalityType DEF all
  <2> QED
    BY <1>8, <1>t, <2>1
<1>10. capped = next
  <2>1. capped \in CappedPools(next, limit)
    BY DEF next
  <2> QED
    BY <1>9, <2>1 DEF CappedPools
<1> QED
  BY <1>5, <1>10 DEF all

\* A chunk that is handed over leaves the pool with all the keys.
LEMMA WholeFlush == ASSUME IInv, NEW t \in Tables, Whole(t), Flush(t) PROVE Whole(t)'
<1>1. RunShape /\ TableShape(t) /\ TableKeys(t) /\ TablePools(t) /\ ForkShape(t, fork[t], "generating") /\ loaded
  BY DEF IInv, TableInv, TableShape, ForkShape, Flush
<1>2. /\ stage[t] = "generating" /\ fork[t].buf # <<>>
      /\ atStart' = atStart /\ stage' = stage /\ loaded' = loaded
  BY DEF Flush
<1> DEFINE g == fork[t]
           buf == g.buf
           pool == g.pools[t]
           m == g.preloaded
           making == KeysIn(buf)
<1>3. PICK out \in Settled(t, Number(t, buf)) : \E left \in Ascending(KeptAt(out)) : HandedOver(t, KeptRows(out, left))
  BY FlushIs
<1>4. PICK left \in Ascending(KeptAt(out)) : HandedOver(t, KeptRows(out, left))
  BY <1>3
<1> DEFINE kept == KeptRows(out, left)
           keys == KeysIn(kept)
           done == Backfilled(t, kept)
<1>5. /\ kept \in Seq(RowType(t)) /\ done \in Seq(RowType(t)) /\ KeysIn(done) = keys
      /\ emitted' = [emitted EXCEPT ![t] = emitted[t] \o done]
  BY <1>4 DEF HandedOver
<1>6. PICK capped \in CappedPools(Dropped(pool, m, making, keys), PoolLimit) :
        fork' = [fork EXCEPT ![t] = Flushed(g, t, capped, kept)]
  BY <1>4 DEF HandedOver
<1>7. buf \in Seq(RowType(t)) /\ pool \in Seq(KeyType(t)) /\ t \in DOMAIN g.pools
  BY <1>1 DEF ForkShape
<1>8. Picks(left, keys, making)
  <2> DEFINE rows == Number(t, buf)
  <2>0. kept = KeptRows(out, left)
    OBVIOUS
  <2> HIDE DEF buf, kept
  <2>1. rows \in Seq(RowType(t)) /\ Len(rows) = Len(buf) /\ \A i \in 1..Len(buf) : SameRow(rows[i], buf[i])
    BY <1>1, <1>7, NumberIs
  <2>2. out \in Settled(t, rows)
    OBVIOUS
  <2> HIDE DEF rows
  <2>3. /\ DOMAIN out = 1..Len(buf)
        /\ \A i \in 1..Len(buf) : out[i] # Null => out[i] \in RowType(t) /\ SameRow(out[i], buf[i])
    BY <2>1, <2>2, SettledIs DEF SameRow
  <2> QED
    BY <1>7, <2>0, <2>3, KeptIs
<1>9. making \in Seq(KeyType(t)) /\ keys \in Seq(KeyType(t)) /\ ToSet(keys) = Keys(ToSet(kept))
  <2> HIDE DEF buf, kept
  <2> QED
    BY <1>5, <1>7, KeysInIs
<1> HIDE DEF kept, keys, done, making
<1> SUFFICES ASSUME Kind[t] # "junction", Small(t)' PROVE Referable(t)' \subseteq ToSet(OwnPool(t)')
  BY DEF Whole, ToSet
<1> DEFINE old == Referable(t)
<1>10. Referable(t)' = old \cup ToSet(keys)
  <2>1. emitted'[t] = emitted[t] \o done
    BY <1>1, <1>5 DEF RunShape, IsMap
  <2>2. emitted[t] \in Seq(RowType(t))
    BY <1>1 DEF TableShape
  <2>3. ToSet(emitted[t] \o done) = ToSet(emitted[t]) \cup ToSet(done)
    BY <1>5, <2>2, SetOfConcat
  <2>4. Keys(ToSet(done)) = ToSet(keys)
    BY <1>5, KeysInIs
  <2>5. Keys(ToSet(emitted'[t])) = Keys(ToSet(emitted[t])) \cup ToSet(keys)
    BY <2>1, <2>3, <2>4 DEF Keys
  <2> QED
    BY <1>2, <2>5 DEF Referable
<1>11. IsFiniteSet(old) /\ Cardinality(old \cup ToSet(keys)) <= PoolLimit /\ ~OnlyNegative(t)
  BY <1>2, <1>10, ReferableFinite DEF Small, OnlyNegative
<1>12. Small(t)
  <2>1. old \cup ToSet(keys) \in SUBSET (old \cup ToSet(keys)) /\ old \subseteq old \cup ToSet(keys)
    OBVIOUS
  <2>2. IsFiniteSet(ToSet(keys))
    <3>1. IsFiniteSet(Keys(ToSet(kept)))
      BY <1>5, KeysFinite
    <3> QED
      BY <1>9, <3>1
  <2>3. IsFiniteSet(old \cup ToSet(keys))
    BY <1>11, <2>2, FS_Union
  <2>4. Cardinality(old) <= Cardinality(old \cup ToSet(keys))
    BY <2>1, <2>3, FS_Subset
  <2>5. Cardinality(old) \in Nat /\ Cardinality(old \cup ToSet(keys)) \in Nat /\ PoolLimit \in Nat
    BY <1>11, <2>3, FS_CardinalityType, Limits
  <2>6. Cardinality(old) <= PoolLimit
    BY <1>11, <2>4, <2>5
  <2> QED
    BY <1>11, <2>6 DEF Small
<1>13. OwnPool(t) = pool /\ Base(t) = m /\ Making(t) = making /\ Used(t) = old
  <2>1. emitted[t] \in Seq(RowType(t))
    BY <1>1 DEF TableShape
  <2> QED
    BY <1>2, <2>1, ReferableIs DEF OwnPool, Base, Making, making
<1>14. old \subseteq ToSet(pool)
  BY <1>1, <1>12, <1>13 DEF Whole
<1>15. /\ PoolEnds(pool, m, making) /\ PoolHolds(pool, m, old) /\ NoRepeats(OldKeys(t), Made(t), making)
       /\ PoolLeads(Kind[t], pool, m, old, making, taken[t])
  <2>1. Stray(t) = {}
    BY <1>11 DEF Stray
  <2> QED
    BY <1>1, <1>13, <2>1 DEF TableKeys
<1>16. IsInjective(pool)
  <2>1. Kind[t] \in {"sequence", "random", "identifying"} /\ pool \in Seq(Int)
    BY <1>7, TableFacts
  <2>2. Kind[t] = "sequence" => Ascends(pool)
    BY <1>15 DEF PoolLeads
  <2>3. Kind[t] # "sequence" => IsInjective(pool)
    BY <1>15, <2>1 DEF PoolLeads
  <2> HIDE DEF pool
  <2> QED
    BY <2>1, <2>2, <2>3, AscendsOnce
<1>17. old \cap ToSet(making) = {}
  <2> DEFINE made == Made(t)
  <2>1. made \in Seq(KeyType(t)) /\ old = OldKeys(t) \cup ToSet(made)
    <3>1. emitted[t] \in Seq(RowType(t))
      BY <1>1 DEF TableShape
    <3> QED
      BY <3>1, KeysInIs, ReferableIs DEF Made, Used
  <2>2. IsInjective(made \o making) /\ ToSet(made \o making) \cap OldKeys(t) = {}
    BY <1>15 DEF NoRepeats
  <2> HIDE DEF made, old
  <2>3. ToSet(made \o making) = ToSet(made) \cup ToSet(making)
    BY <1>9, <2>1, SetOfConcat
  <2>4. ASSUME NEW x \in ToSet(made), x \in ToSet(making) PROVE FALSE
    <3>1. PICK i \in 1..Len(made) : made[i] = x
      BY <2>1, <2>4, SetOf
    <3>2. PICK j \in 1..Len(making) : making[j] = x
      BY <1>9, <2>4, SetOf
    <3> DEFINE both == made \o making
    <3>3. /\ Len(both) = Len(made) + Len(making) /\ Len(made) \in Nat /\ Len(making) \in Nat
          /\ both[i] = x /\ both[Len(made) + j] = x /\ both \in Seq(KeyType(t))
      BY <1>9, <2>1, <3>1, <3>2, Concat
    <3> HIDE DEF both
    <3>4. i \in DOMAIN both /\ Len(made) + j \in DOMAIN both /\ i # Len(made) + j
      BY <3>3
    <3>5. IsInjective(both)
      BY <2>2 DEF both
    <3> QED
      BY <3>3, <3>4, <3>5 DEF IsInjective
  <2> QED
    BY <2>1, <2>2, <2>3, <2>4
<1>18. old \cup ToSet(keys) \subseteq ToSet(capped)
  <2> DEFINE T == KeyType(t)
  <2>1. pool \in Seq(T) /\ making \in Seq(T) /\ keys \in Seq(T) /\ PoolLimit \in Nat \ {0}
    BY <1>7, <1>9, Limits
  <2>2. capped \in CappedPools(Dropped(pool, m, making, keys), PoolLimit)
    BY <1>6
  <2> HIDE DEF T, pool, m, old, g, buf
  <2> QED
    BY <1>8, <1>11, <1>14, <1>15, <1>16, <1>17, <2>1, <2>2, CutNone
<1>19. OwnPool(t)' = capped
  <2> DEFINE f == Flushed(g, t, capped, kept)
  <2>1. fork'[t] = f
    <3> HIDE DEF f
    <3> QED
      BY <1>1, <1>6 DEF RunShape, IsMap, f
  <2>2. f.pools = Cut(g.pools, t, capped)
    <3> DEFINE A == Seq(Nat \ {0})
               B == Seq(RowType(t))
               P == {g.pools}
    <3>1. ForkIn(g, P, A, B)
      BY <1>1 DEF ForkShape, ForkIn
    <3>2. f = Flushed(g, t, capped, kept)
      OBVIOUS
    <3> HIDE DEF g, f, A, B, P
    <3> QED
      BY <3>1, <3>2, FlushedLeaves
  <2> HIDE DEF f, g
  <2>3. fork'[t].pools[t] = capped
    BY <1>7, <2>1, <2>2 DEF Cut, g
  <2> QED
    BY <1>2, <2>3 DEF OwnPool
<1> QED
  BY <1>10, <1>18, <1>19

\* A fork starts with the stream's pool, and another call with the fork's.
LEMMA WholeFork ==
    ASSUME IInv, NEW t \in Tables, Whole(t), ForkTable(t) \/ CallAgain(t) \/ Fail(t) \/ Return(t) \/ MergeTable(t) \/ Write(t)
    PROVE  Whole(t)'
<1>1. RunShape /\ ForkShape(t, fork[t], stage[t])
  BY DEF IInv, TableInv, TableShape
<1>2. loaded' = loaded /\ atStart' = atStart /\ emitted' = emitted
  BY DEF ForkTable, CallAgain, Fail, Return, MergeTable, Write
<1>3. CASE ForkTable(t)
  <2>1. stage[t] = "waiting" /\ stage'[t] = "generating"
    BY <1>1, <1>3 DEF ForkTable, RunShape
  <2>2. fork'[t] = [NoFork EXCEPT !.pools = [u \in {t} \cup ParentsOf(t) |-> pks[u]],
                                  !.adds = Adds[t], !.preloaded = Len(pks[t])]
    BY <1>1, <1>3 DEF ForkTable, RunShape, IsMap
  <2>3. fork'[t].pools[t] = pks[t]
    BY <2>2 DEF NoFork
  <2>4. OwnPool(t)' = OwnPool(t)
    BY <2>1, <2>3 DEF OwnPool
  <2> QED
    BY <1>2, <2>4, WholeStays
<1>4. CASE CallAgain(t)
  <2>1. stage[t] = "returned" /\ stage'[t] = "generating"
    BY <1>1, <1>4 DEF CallAgain, RunShape
  <2>2. (fork[t].pools)' = fork[t].pools
    BY <1>1, <1>4, <2>1, AgainLeaves
  <2>3. OwnPool(t)' = OwnPool(t)
    BY <2>1, <2>2 DEF OwnPool
  <2> QED
    BY <1>2, <2>3, WholeStays
<1>5. CASE Fail(t) \/ Return(t) \/ MergeTable(t) \/ Write(t)
  <2>1. fork' = fork /\ (stage[t] = "waiting" <=> stage'[t] = "waiting")
    BY <1>1, <1>5 DEF Fail, Adding, Return, MergeTable, Write, RunShape
  <2>2. stage[t] = "waiting" => pks'[t] = pks[t]
    BY <1>5 DEF Fail, Adding, Return, MergeTable, Write
  <2>3. OwnPool(t)' = OwnPool(t)
    BY <2>1, <2>2 DEF OwnPool
  <2> QED
    BY <1>2, <2>3, WholeStays
<1> QED
  BY <1>3, <1>4, <1>5

\* A table that is merged makes no rows any more.
LEMMA MergedStays ==
    ASSUME IInv, NEW u \in Tables, ForkTable(u) \/ Generate(u) \/ CallAgain(u) \/ MergeTable(u) \/ Write(u),
           NEW t \in Tables, stage[t] = "merged"
    PROVE  /\ stage'[t] = "merged" /\ Referable(t)' = Referable(t) /\ (Small(t)' <=> Small(t))
           /\ pks'[t] = pks[t] /\ fork'[t] = fork[t]
<1>1. RunShape
  BY DEF IInv
<1>2. stage'[t] = stage[t] /\ atStart' = atStart /\ emitted'[t] = emitted[t] /\ pks'[t] = pks[t] /\ fork'[t] = fork[t]
  <2>1. CASE t # u
    BY <1>1, <2>1, StepElsewhere
  <2>2. CASE t = u
    <3>1. Write(u)
      BY <2>2 DEF ForkTable, Generate, AddStandard, AddJunction, Adding, Fail, Flush, Return, CallAgain, MergeTable
    <3> QED
      BY <3>1 DEF Write
  <2> QED
    BY <2>1, <2>2
<1>3. Referable(t)' = Referable(t)
  BY <1>2 DEF Referable
<1>4. Small(t)' <=> Small(t)
  BY <1>2, <1>3 DEF Small, OnlyNegative
<1> QED
  BY <1>2, <1>3, <1>4

\* A junction keeps the pools it was given of its parents.
LEMMA GivenStays ==
    ASSUME IInv, NEW t \in Tables, Enumerated(t), stage[t] # "waiting",
           Generate(t) \/ CallAgain(t) \/ MergeTable(t) \/ Write(t), NEW u \in ParentsOf(t)
    PROVE  (fork[t].pools[u])' = fork[t].pools[u]
<1>1. RunShape /\ ForkShape(t, fork[t], stage[t])
  BY DEF IInv, TableInv, TableShape
<1>2. CASE AddJunction(t)
  <2>1. PICK rows : Piece(t, fork[t].pools, rows)
    BY <1>2, JunctionPiece
  <2>2. rows \in Seq(RowType(t)) /\ Add(t, fork[t].pools, rows) /\ stage[t] = "generating"
    BY <2>1 DEF Piece, Adding
  <2> QED
    BY <2>2, JunctionJoins
<1>3. CASE AddStandard(t)
  BY <1>3 DEF AddStandard
<1>4. CASE Flush(t)
  BY <1>4, FlushLeavesParents
<1>5. CASE Fail(t) \/ Return(t) \/ MergeTable(t) \/ Write(t)
  BY <1>5 DEF Fail, Return, MergeTable, Write
<1>6. CASE CallAgain(t)
  BY <1>1, <1>6, AgainLeaves DEF CallAgain
<1> QED
  BY <1>2, <1>3, <1>4, <1>5, <1>6 DEF Generate

\* A fork is given the pools of tables that are merged.
LEMMA GivenFork ==
    ASSUME IInv, WholeInv, NEW t \in Tables, ForkTable(t), NEW u \in ParentsOf(t), Position(u) < Position(t)
    PROVE  stage[u] = "merged" /\ fork'[t].pools[u] = pks[u] /\ (Small(u) => Referable(u) \subseteq ToSet(pks[u]))
<1>1. RunShape /\ u \in Tables
  BY TableFacts DEF IInv
<1>2. stage[u] = "merged" /\ loaded
  BY <1>1 DEF ForkTable, Before
<1>3. fork'[t] = [NoFork EXCEPT !.pools = [w \in {t} \cup ParentsOf(t) |-> pks[w]],
                                !.adds = Adds[t], !.preloaded = Len(pks[t])]
  BY <1>1 DEF ForkTable, RunShape, IsMap
<1>4. fork'[t].pools[u] = pks[u]
  BY <1>3 DEF NoFork
<1>5. OwnPool(u) = pks[u]
  BY <1>1, <1>2 DEF WholeInv, Handed, OwnPool
<1>6. Small(u) => Referable(u) \subseteq ToSet(pks[u])
  BY <1>1, <1>2, <1>5, TableFacts DEF WholeInv, Whole
<1> QED
  BY <1>2, <1>4, <1>6

\* Every step keeps pools whole.
LEMMA WholeKeeps == ASSUME IInv, WholeInv, [Next]_vars PROVE WholeInv'
<1>0. RunShape
  BY DEF IInv
<1>1. CASE UNCHANGED vars
  <2>1. ASSUME NEW t \in Tables PROVE (Whole(t) /\ Handed(t) /\ Given(t))'
    <3>1. Whole(t) /\ Handed(t) /\ Given(t)
      BY DEF WholeInv
    <3>2. /\ atStart' = atStart /\ emitted' = emitted /\ loaded' = loaded /\ stage' = stage /\ fork' = fork /\ pks' = pks
      BY <1>1 DEF vars
    <3>3. OwnPool(t)' = OwnPool(t) /\ \A u : Referable(u)' = Referable(u) /\ (Small(u)' <=> Small(u))
      BY <3>2 DEF OwnPool, Referable, Small, OnlyNegative
    <3>4. Whole(t)'
      BY <3>1, <3>2, <3>3, WholeStays
    <3> QED
      BY <3>1, <3>2, <3>3, <3>4 DEF Handed, Given
  <2> QED
    BY <2>1 DEF WholeInv
<1>2. CASE Load
  <2>1. stage' = stage /\ fork' = fork /\ ~loaded
    BY <1>2 DEF Load
  <2>2. ASSUME NEW t \in Tables PROVE Whole(t)' /\ stage[t] = "waiting"
    <3>1. TableShape(t)
      BY DEF IInv, TableInv
    <3>2. stage[t] = "waiting"
      BY <1>0, <2>1, <3>1 DEF TableShape, ForkShape, RunShape, Stages
    <3> QED
      BY <1>2, <3>2, WholeLoad
  <2> QED
    BY <2>1, <2>2 DEF WholeInv, Handed, Given
<1>3. ASSUME NEW u \in Tables, ForkTable(u) \/ Generate(u) \/ CallAgain(u) \/ MergeTable(u) \/ Write(u),
             NEW t \in Tables
      PROVE  (Whole(t) /\ Handed(t) /\ Given(t))'
  <2>1. Whole(t) /\ Handed(t) /\ Given(t)
    BY DEF WholeInv
  <2>2. Whole(t)'
    <3>1. CASE t # u
      <4>1. /\ stage'[t] = stage[t] /\ loaded' = loaded /\ atStart' = atStart /\ emitted'[t] = emitted[t]
            /\ fork'[t] = fork[t] /\ pks'[t] = pks[t]
        BY <1>0, <1>3, <3>1, StepElsewhere
      <4>2. OwnPool(t)' = OwnPool(t)
        BY <4>1 DEF OwnPool
      <4> QED
        BY <2>1, <4>1, <4>2, WholeStays
    <3>2. CASE t = u
      <4>1. CASE AddStandard(t)
        BY <2>1, <4>1, StandardPiece, WholeAdds
      <4>2. CASE AddJunction(t)
        BY <2>1, <4>2, JunctionPiece, WholeAdds
      <4>3. CASE Flush(t)
        BY <2>1, <4>3, WholeFlush
      <4>4. CASE ForkTable(t) \/ CallAgain(t) \/ Fail(t) \/ Return(t) \/ MergeTable(t) \/ Write(t)
        BY <2>1, <4>4, WholeFork
      <4> QED
        BY <1>3, <3>2, <4>1, <4>2, <4>3, <4>4 DEF Generate
    <3> QED
      BY <3>1, <3>2
  <2>3. Handed(t)'
    <3>1. CASE stage[t] = "merged"
      BY <1>3, <2>1, <3>1, MergedStays DEF Handed
    <3>2. CASE stage[t] # "merged"
      <4> SUFFICES ASSUME stage'[t] = "merged" PROVE pks'[t] = fork'[t].pools[t]
        BY DEF Handed
      <4>1. t = u
        BY <1>0, <1>3, <3>2, StepElsewhere
      <4>2. MergeTable(t)
        <5>1. ASSUME NEW pools, NEW rows, Add(t, pools, rows) PROVE stage' = stage
          BY <5>1 DEF Add
        <5> QED
          BY <1>0, <1>3, <3>2, <4>1, <5>1 DEF RunShape, ForkTable, Generate, AddStandard, AddJunction, Fail, Flush, Return, CallAgain, Write
      <4> QED
        BY <1>0, <4>2 DEF MergeTable, RunShape, IsMap
    <3> QED
      BY <3>1, <3>2
  <2>4. Given(t)'
    <3> SUFFICES ASSUME Enumerated(t), stage'[t] # "waiting", NEW w \in ParentsOf(t), Position(w) < Position(t)
                 PROVE  /\ stage'[w] = "merged"
                        /\ Small(w)' => Referable(w)' \subseteq ToSet(fork'[t].pools[w])
      BY DEF Given, ToSet
    <3>0. w \in Tables
      BY TableFacts
    <3>1. CASE stage[t] # "waiting"
      <4>1. stage[w] = "merged" /\ (Small(w) => Referable(w) \subseteq ToSet(fork[t].pools[w]))
        BY <2>1, <3>1 DEF Given
      <4>2. stage'[w] = "merged" /\ Referable(w)' = Referable(w) /\ (Small(w)' <=> Small(w))
        BY <1>3, <3>0, <4>1, MergedStays
      <4>3. fork'[t].pools[w] = fork[t].pools[w]
        <5>1. CASE t # u
          BY <1>0, <1>3, <5>1, StepElsewhere
        <5>2. CASE t = u
          <6>1. Generate(t) \/ CallAgain(t) \/ MergeTable(t) \/ Write(t)
            BY <1>3, <3>1, <5>2 DEF ForkTable
          <6> QED
            BY <3>1, <6>1, GivenStays
        <5> QED
          BY <5>1, <5>2
      <4> QED
        BY <4>1, <4>2, <4>3
    <3>2. CASE stage[t] = "waiting"
      <4>1. t = u
        BY <1>0, <1>3, <3>2, StepElsewhere
      <4>2. ForkTable(t)
        <5>1. ASSUME NEW pools, NEW rows, Add(t, pools, rows) PROVE stage' = stage
          BY <5>1 DEF Add
        <5> QED
          BY <1>0, <1>3, <3>2, <4>1, <5>1 DEF RunShape, Generate, AddStandard, AddJunction, Adding, Fail, Flush, Return, CallAgain, MergeTable, Write
      <4>3. stage[w] = "merged" /\ fork'[t].pools[w] = pks[w] /\ (Small(w) => Referable(w) \subseteq ToSet(pks[w]))
        BY <4>2, GivenFork
      <4>4. stage'[w] = "merged" /\ Referable(w)' = Referable(w) /\ (Small(w)' <=> Small(w))
        BY <1>3, <3>0, <4>3, MergedStays
      <4> QED
        BY <4>3, <4>4
    <3> QED
      BY <3>1, <3>2
  <2> QED
    BY <2>2, <2>3, <2>4
<1> QED
  BY <1>1, <1>2, <1>3 DEF Next, WholeInv

\* Nothing is loaded or forked at first.
LEMMA WholeInit == Init => WholeInv
  BY DEF Init, WholeInv, Whole, Handed, Given

\* A table whose key is made of foreign keys stops short only when every
\* combination of its parents' keys is stored, handed over or dropped for a
\* UNIQUE value: of the keys its fork was given, and of all the keys of a parent
\* that came first and has no more than fit a pool.
THEOREM JunctionsAreComplete == Spec => []JunctionComplete
<1>1. Init => JunctionsInv
  BY JunctionInit
<1>2. ASSUME IInv, JunctionsInv, [Next]_vars PROVE JunctionsInv'
  <2>1. CASE Load
    BY <1>2, <2>1, JunctionLoad
  <2>2. ASSUME UNCHANGED vars, NEW t \in Tables, Enumerated(t) PROVE JunctionInv(t)'
    <3>1. JunctionInv(t)
      BY <1>2, <2>2 DEF JunctionsInv
    <3> QED
      BY <1>2, <2>2, <3>1, JunctionAside DEF vars, known
  <2>3. ASSUME NEW u \in Tables, ForkTable(u) \/ Generate(u) \/ CallAgain(u) \/ MergeTable(u) \/ Write(u),
               NEW t \in Tables, Enumerated(t), t # u
        PROVE  JunctionInv(t)'
    <3>1. JunctionInv(t) /\ RunShape
      BY <1>2, <2>3 DEF JunctionsInv, IInv
    <3>2. /\ stage'[t] = stage[t] /\ loaded' = loaded /\ atStart' = atStart /\ cursor'[t] = cursor[t]
          /\ taken'[t] = taken[t] /\ emitted'[t] = emitted[t] /\ fork'[t] = fork[t]
      BY <2>3, <3>1, StepElsewhere
    <3> QED
      BY <1>2, <3>1, <3>2, JunctionAside
  <2>4. ASSUME NEW t \in Tables, ForkTable(t) \/ Generate(t) \/ CallAgain(t) \/ MergeTable(t) \/ Write(t),
               Enumerated(t)
        PROVE  JunctionInv(t)'
    <3>1. JunctionInv(t) /\ RunShape
      BY <1>2, <2>4 DEF JunctionsInv, IInv
    <3>2. CASE ForkTable(t)
      BY <1>2, <2>4, <3>2, JunctionFork
    <3>3. CASE AddJunction(t)
      BY <1>2, <3>3, JunctionWalks
    <3>4. CASE AddStandard(t)
      BY <2>4, <3>4 DEF AddStandard
    <3>5. CASE Flush(t)
      BY <1>2, <2>4, <3>5, JunctionFlush
    <3>6. CASE Fail(t) \/ Return(t) \/ MergeTable(t) \/ Write(t)
      BY <1>2, <3>1, <3>6, JunctionStays
    <3>7. CASE CallAgain(t)
      BY <1>2, <3>1, <3>7, JunctionAgain
    <3> QED
      BY <2>4, <3>2, <3>3, <3>4, <3>5, <3>6, <3>7 DEF Generate
  <2>5. ASSUME NEW t \in Tables, Enumerated(t), ~Load PROVE JunctionInv(t)'
    BY <1>2, <2>2, <2>3, <2>4, <2>5 DEF Next
  <2> QED
    BY <2>1, <2>5 DEF JunctionsInv
<1>3. IInv /\ JunctionsInv /\ WholeInv => JunctionComplete
  <2> SUFFICES ASSUME IInv, JunctionsInv, WholeInv, NEW t \in Tables, Enumerated(t), fork[t].short, fork[t].buf = <<>>,
                      NEW combo \in [DOMAIN Parents[t] -> UNION {ToCombine(t, c) : c \in DOMAIN Parents[t]}],
                      \A c \in DOMAIN combo : combo[c] \in ToCombine(t, c)
               PROVE  KeyOf(t, combo) \in Referable(t) \cup (IF MayDrop(t) THEN taken[t] ELSE {})
    BY DEF JunctionComplete
  <2>1. JunctionInv(t) /\ RunShape /\ TableShape(t) /\ Given(t)
    BY DEF JunctionsInv, IInv, TableInv, WholeInv
  <2>2. stage[t] # "waiting"
    BY <2>1 DEF JunctionInv
  <2>3. loaded /\ PoolsTyped(t)
    BY <2>1, <2>2, PoolsAreTyped DEF TableShape, ForkShape, RunShape, Stages
  <2>4. DOMAIN Parents[t] = 1..Len(Parents[t]) /\ DOMAIN combo = 1..Len(Parents[t])
    BY TableFacts
  <2>5. ASSUME NEW c \in 1..Len(Parents[t]) PROVE combo[c] \in ToSet(Pool(t, c))
    <3> DEFINE u == Parents[t][c]
    <3>1. combo[c] \in ToCombine(t, c) /\ u \in ParentsOf(t)
      BY <2>4, TableFacts
    <3>2. CASE combo[c] \in ToSet(Pool(t, c))
      BY <3>2
    <3>3. CASE combo[c] \notin ToSet(Pool(t, c))
      <4>1. Position(u) < Position(t) /\ Small(u) /\ combo[c] \in Referable(u)
        BY <3>1, <3>3 DEF ToCombine, Small
      <4>2. Referable(u) \subseteq ToSet(fork[t].pools[u])
        BY <2>1, <2>2, <3>1, <4>1 DEF Given
      <4> QED
        BY <4>1, <4>2 DEF Pool
    <3> QED
      BY <3>2, <3>3
  <2>6. combo = [c \in 1..Len(Parents[t]) |-> combo[c]]
    BY <2>4
  <2>7. PICK i \in 0..(Combinations(t) - 1) : Combination(t, i) = combo
    BY <2>3, <2>5, <2>6, EveryCombination
  <2>8. KeyAt(t, i) \in taken[t]
    BY <2>1, <2>2, <2>7 DEF JunctionInv
  <2>9. KeyOf(t, combo) \in taken[t]
    BY <2>7, <2>8 DEF KeyAt
  <2>10. ToSet(Making(t)) = {}
    BY NoKeys DEF Making, ToSet, KeysIn
  <2> QED
    BY <2>1, <2>3, <2>9, <2>10 DEF JunctionInv
<1> QED
  BY <1>1, <1>2, <1>3, WholeInit, WholeKeeps, Invariance, PTL DEF Spec
=============================================================================
