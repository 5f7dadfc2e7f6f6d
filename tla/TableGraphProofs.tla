-------------------------- MODULE TableGraphProofs --------------------------
(***************************************************************************)
(* Lemmas about the dependency graph of any schema: Kahn's algorithm puts  *)
(* every table after its parents and, unless there is a cycle, has them    *)
(* all (SortedIs); the part of a sequence that Among keeps; what the edges *)
(* of a graph lead to.  The plans of mirrors, seeds and gaps rest on them. *)
(*                                                                         *)
(* The value of a recursive function is known only once there is one: that *)
(* Kahn's loop and Among compute something at all is proved here, too.     *)
(***************************************************************************)
EXTENDS TableGraph, FiniteSetTheorems, WellFoundedInduction, TLAPS

(***************************************************************************)
(* Numbers, and functions that go from one number to the next.             *)
(***************************************************************************)
\* A set of numbers has a least one.
LEMMA LeastNat ==
    ASSUME NEW C \in SUBSET Nat, C # {} PROVE \E n \in C : \A m \in C : n <= m
<1> DEFINE R == OpToRel(<, Nat)
<1>1. R = {ss \in Nat \X Nat : ss[1] < ss[2]}
  BY DEF OpToRel
<1>2. IsWellFoundedOn(R, Nat)
  BY NatLessThanWellFounded
<1> HIDE DEF R
<1>3. PICK n \in C : \A m \in C : <<m, n>> \notin R
  BY <1>2, WFMin
<1>4. ASSUME NEW m \in C PROVE n <= m
  <2>1. m \in Nat /\ n \in Nat /\ <<m, n>> \in Nat \X Nat
    OBVIOUS
  <2> QED
    BY <1>1, <1>3, <2>1
<1> QED
  BY <1>4

\* What holds of 0 and passes from one number to the next holds up to n.
LEMMA UpTo ==
    ASSUME NEW n \in Nat, NEW G, 0 \in G, \A i \in 1..n : i - 1 \in G => i \in G
    PROVE  0..n \subseteq G
<1> DEFINE C == {i \in 0..n : i \notin G}
<1> SUFFICES ASSUME C # {} PROVE FALSE
  OBVIOUS
<1>1. C \in SUBSET Nat
  OBVIOUS
<1>2. PICK k \in C : \A m \in C : k <= m
  <2> HIDE DEF C
  <2> QED
    BY <1>1, LeastNat
<1>3. k # 0 /\ k \in 1..n /\ k - 1 \in 0..n /\ k - 1 \notin C
  BY <1>2
<1> QED
  BY <1>3

\* f goes from b on, from one number to the next, by step.
Goes(f, b, step, k) == f[0] = b /\ \A i \in 1..k : f[i] = step[i, f[i - 1]]

\* It can be taken one number further.
LEMMA GoesOn ==
    ASSUME NEW T, NEW b \in T, NEW n \in Nat, NEW step \in [(1..n) \X T -> T],
           NEW k \in 1..n, NEW f \in [0..(k - 1) -> T], Goes(f, b, step, k - 1)
    PROVE  \E g \in [0..k -> T] : Goes(g, b, step, k)
<1> DEFINE x == step[k, f[k - 1]]
<1>1. k \in Nat /\ k >= 1 /\ k - 1 \in 0..(k - 1)
  OBVIOUS
<1>2. f[k - 1] \in T
  BY <1>1
<1>3. x \in T
  BY <1>2
<1> DEFINE g == [i \in 0..k |-> IF i = k THEN x ELSE f[i]]
<1>4. \A i \in 0..k : i # k => i \in 0..(k - 1)
  BY <1>1
<1>5. 0 \in 0..k /\ \A i \in 1..k : i \in 0..k /\ i - 1 \in 0..k /\ i - 1 # k
  BY <1>1
<1>6. g \in [0..k -> T]
  <2> HIDE DEF x
  <2> QED
    BY <1>3, <1>4
<1>7. \A i \in 0..k : g[i] = IF i = k THEN x ELSE f[i]
  <2> HIDE DEF x
  <2> QED
    OBVIOUS
<1>8. k # 0 /\ \A i \in 1..k : i # k => i \in 1..(k - 1)
  OBVIOUS
<1> HIDE DEF g, x
<1>9. g[0] = b
  <2>1. g[0] = f[0]
    BY <1>8, <1>5, <1>7
  <2> QED
    BY <2>1 DEF Goes
<1>10. ASSUME NEW i \in 1..k PROVE g[i] = step[i, g[i - 1]]
  <2>1. g[i - 1] = f[i - 1]
    BY <1>5, <1>7
  <2>2. CASE i = k
    <3>1. g[i] = x
      BY <1>5, <1>7, <2>2
    <3> QED
      BY <2>1, <2>2, <3>1 DEF x
  <2>3. CASE i # k
    <3>1. g[i] = f[i] /\ i \in 1..(k - 1)
      BY <1>8, <1>5, <1>7, <2>3
    <3> QED
      BY <2>1, <3>1 DEF Goes
  <2> QED
    BY <2>2, <2>3
<1> QED
  BY <1>6, <1>9, <1>10 DEF Goes

\* Such a function exists.
LEMMA Recursion ==
    ASSUME NEW T, NEW b \in T, NEW n \in Nat, NEW step \in [(1..n) \X T -> T]
    PROVE  \E f \in [0..n -> T] : Goes(f, b, step, n)
<1> DEFINE Fine(k) == \E f \in [0..k -> T] : Goes(f, b, step, k)
           C == {k \in 0..n : ~Fine(k)}
<1> SUFFICES ASSUME C # {} PROVE FALSE
  OBVIOUS
<1>1. C \in SUBSET Nat
  <2> HIDE DEF Fine
  <2> QED
    OBVIOUS
<1>2. PICK k \in C : \A m \in C : k <= m
  <2> HIDE DEF C
  <2> QED
    BY <1>1, LeastNat
<1>3. k \in 0..n /\ ~Fine(k) /\ \A m \in 0..n : m < k => Fine(m)
  <2> HIDE DEF Fine
  <2> QED
    BY <1>2
<1>4. CASE k = 0
  <2> DEFINE f == [i \in {0} |-> b]
  <2>1. f \in [0..0 -> T] /\ Goes(f, b, step, 0)
    <3>1. 0..0 = {0} /\ 1..0 = {}
      OBVIOUS
    <3> QED
      BY <3>1 DEF Goes
  <2> HIDE DEF f
  <2> QED
    BY <1>3, <1>4, <2>1
<1>5. CASE k # 0
  <2>1. k \in 1..n /\ k - 1 \in 0..n /\ k - 1 < k
    BY <1>3, <1>5
  <2>2. Fine(k - 1)
    <3> HIDE DEF Fine
    <3> QED
      BY <1>3, <2>1
  <2>3. PICK f \in [0..(k - 1) -> T] : Goes(f, b, step, k - 1)
    BY <2>2
  <2> QED
    BY <1>3, <2>1, <2>3, GoesOn
<1> QED
  BY <1>4, <1>5

(***************************************************************************)
(* Sequences without repetitions.                                          *)
(***************************************************************************)
LEMMA SetOf == ASSUME NEW T, NEW s \in Seq(T)
               PROVE ToSet(s) \subseteq T /\ \A i \in 1..Len(s) : s[i] \in ToSet(s)
  BY DEF ToSet

LEMMA SetOfAppend ==
    ASSUME NEW T, NEW s \in Seq(T), NEW x \in T
    PROVE  /\ Append(s, x) \in Seq(T)
           /\ ToSet(Append(s, x)) = ToSet(s) \cup {x}
           /\ IsInjective(s) /\ x \notin ToSet(s) => IsInjective(Append(s, x))
<1> DEFINE q == Append(s, x)
<1>1. /\ q \in Seq(T) /\ Len(q) = Len(s) + 1 /\ Len(s) \in Nat
      /\ \A i \in 1..Len(s) : q[i] = s[i]
  OBVIOUS
<1>2. q[Len(s) + 1] = x
  OBVIOUS
<1>3. DOMAIN q = 1..(Len(s) + 1) /\ DOMAIN s = 1..Len(s)
  OBVIOUS
<1> HIDE DEF q
<1>4. ToSet(q) = ToSet(s) \cup {x}
  BY <1>1, <1>2, <1>3 DEF ToSet
<1>5. ASSUME IsInjective(s), x \notin ToSet(s) PROVE IsInjective(q)
  BY <1>1, <1>2, <1>3, <1>5 DEF ToSet, IsInjective
<1> QED
  BY <1>1, <1>4, <1>5 DEF q

LEMMA SetOfConcat ==
    ASSUME NEW T, NEW s \in Seq(T), NEW u \in Seq(T)
    PROVE  /\ s \o u \in Seq(T)
           /\ ToSet(s \o u) = ToSet(s) \cup ToSet(u)
           /\ IsInjective(s) /\ IsInjective(u) /\ ToSet(s) \cap ToSet(u) = {} => IsInjective(s \o u)
<1> DEFINE q == s \o u
<1>1. /\ q \in Seq(T) /\ Len(q) = Len(s) + Len(u) /\ Len(s) \in Nat /\ Len(u) \in Nat
      /\ \A i \in 1..Len(s) : q[i] = s[i]
      /\ \A i \in 1..Len(u) : q[Len(s) + i] = u[i]
  OBVIOUS
<1>3. DOMAIN q = 1..(Len(s) + Len(u)) /\ DOMAIN s = 1..Len(s) /\ DOMAIN u = 1..Len(u)
  OBVIOUS
<1> HIDE DEF q
<1>4. ToSet(q) = ToSet(s) \cup ToSet(u)
  <2>1. ASSUME NEW i \in 1..Len(u) PROVE q[Len(s) + i] = u[i] /\ Len(s) + i \in DOMAIN q
    BY <1>1, <1>3
  <2>2. ToSet(u) \subseteq ToSet(q)
    BY <1>3, <2>1 DEF ToSet
  <2>3. ToSet(s) \subseteq ToSet(q)
    BY <1>1, <1>3 DEF ToSet
  <2>4. ToSet(q) \subseteq ToSet(s) \cup ToSet(u)
    <3> SUFFICES ASSUME NEW i \in DOMAIN q PROVE q[i] \in ToSet(s) \cup ToSet(u)
      BY DEF ToSet
    <3>1. CASE i <= Len(s)
      BY <1>1, <1>3, <3>1 DEF ToSet
    <3>2. CASE i > Len(s)
      <4>1. i - Len(s) \in 1..Len(u) /\ i = Len(s) + (i - Len(s))
        BY <1>1, <1>3, <3>2
      <4>2. q[i] = u[i - Len(s)] /\ i - Len(s) \in DOMAIN u
        BY <1>1, <1>3, <4>1
      <4> QED
        BY <4>2 DEF ToSet
    <3> QED
      BY <1>1, <1>3, <3>1, <3>2
  <2> QED
    BY <2>2, <2>3, <2>4
<1>5. ASSUME IsInjective(s), IsInjective(u), ToSet(s) \cap ToSet(u) = {} PROVE IsInjective(q)
  <2> SUFFICES ASSUME NEW i \in DOMAIN q, NEW j \in DOMAIN q, q[i] = q[j] PROVE i = j
    BY DEF IsInjective
  <2>1. ASSUME NEW k \in DOMAIN q
        PROVE  \/ k <= Len(s) /\ k \in DOMAIN s /\ q[k] = s[k] /\ q[k] \in ToSet(s)
               \/ k > Len(s) /\ k - Len(s) \in DOMAIN u /\ q[k] = u[k - Len(s)] /\ q[k] \in ToSet(u)
    <3>1. CASE k <= Len(s)
      BY <1>1, <1>3, <3>1 DEF ToSet
    <3>2. CASE k > Len(s)
      <4>1. k - Len(s) \in 1..Len(u) /\ k = Len(s) + (k - Len(s))
        BY <1>1, <1>3, <3>2
      <4>2. q[k] = u[k - Len(s)] /\ k - Len(s) \in DOMAIN u
        BY <1>1, <1>3, <4>1
      <4> QED
        BY <3>2, <4>2 DEF ToSet
    <3> QED
      BY <1>1, <1>3, <3>1, <3>2
  <2> QED
    BY <1>1, <1>3, <1>5, <2>1 DEF IsInjective
<1> QED
  BY <1>1, <1>4, <1>5 DEF q

LEMMA SetOfTail ==
    ASSUME NEW T, NEW s \in Seq(T), s # <<>>
    PROVE  /\ Tail(s) \in Seq(T) /\ Head(s) \in T
           /\ ToSet(s) = {Head(s)} \cup ToSet(Tail(s))
           /\ IsInjective(s) => IsInjective(Tail(s)) /\ Head(s) \notin ToSet(Tail(s))
<1> DEFINE q == Tail(s)
<1>1. /\ q \in Seq(T) /\ Head(s) \in T /\ Head(s) = s[1] /\ Len(s) \in Nat /\ Len(s) >= 1 /\ Len(q) = Len(s) - 1
      /\ \A i \in 1..(Len(s) - 1) : q[i] = s[i + 1]
  OBVIOUS
<1>2. DOMAIN q = 1..(Len(s) - 1) /\ DOMAIN s = 1..Len(s)
  BY <1>1
<1> HIDE DEF q
<1>3. ToSet(s) = {Head(s)} \cup ToSet(q)
  <2>1. ToSet(q) \subseteq ToSet(s) /\ Head(s) \in ToSet(s)
    BY <1>1, <1>2 DEF ToSet
  <2>2. ASSUME NEW i \in DOMAIN s PROVE s[i] \in {Head(s)} \cup ToSet(q)
    <3>1. CASE i = 1
      BY <1>1, <3>1
    <3>2. CASE i # 1
      <4>1. i - 1 \in DOMAIN q /\ q[i - 1] = s[i]
        BY <1>1, <1>2, <3>2
      <4> QED
        BY <4>1 DEF ToSet
    <3> QED
      BY <3>1, <3>2
  <2> QED
    BY <2>1, <2>2 DEF ToSet
<1>4. ASSUME IsInjective(s) PROVE IsInjective(q) /\ Head(s) \notin ToSet(q)
  <2>1. \A i \in DOMAIN q : i + 1 \in DOMAIN s /\ i + 1 # 1 /\ q[i] = s[i + 1]
    BY <1>1, <1>2
  <2>2. ASSUME NEW i \in DOMAIN q, NEW j \in DOMAIN q, q[i] = q[j] PROVE i = j
    <3>1. i + 1 = j + 1
      BY <1>4, <2>1, <2>2 DEF IsInjective
    <3> QED
      BY <1>2, <3>1
  <2>3. ASSUME NEW i \in DOMAIN q, q[i] = Head(s) PROVE FALSE
    <3>1. 1 \in DOMAIN s /\ s[1] = s[i + 1]
      BY <1>1, <1>2, <2>1, <2>3
    <3> QED
      BY <1>4, <2>1, <3>1 DEF IsInjective
  <2> QED
    BY <2>2, <2>3 DEF IsInjective, ToSet
<1> QED
  BY <1>1, <1>3, <1>4 DEF q

(***************************************************************************)
(* Part of a sequence, in its order.                                       *)
(***************************************************************************)
\* f[i] is what the first i members of s leave.
Leaves(f, T, s, S) ==
    /\ f \in [0..Len(s) -> Seq(T)]
    /\ Among(s, S) = f[Len(s)] /\ f[0] = <<>>
    /\ \A i \in 1..Len(s) : f[i] = IF s[i] \in S THEN Append(f[i - 1], s[i]) ELSE f[i - 1]

\* The recursive function of Among exists.
LEMMA AmongGoes ==
    ASSUME NEW T, NEW s \in Seq(T), NEW S PROVE \E f : Leaves(f, T, s, S)
<1> DEFINE n == Len(s)
           step == [p \in (1..n) \X Seq(T) |-> IF s[p[1]] \in S THEN Append(p[2], s[p[1]]) ELSE p[2]]
           Grown(g, i) == IF s[i] \in S THEN Append(g[i - 1], s[i]) ELSE g[i - 1]
           Keeps(g) == g = [i \in 0..n |-> IF i = 0 THEN <<>>
                                           ELSE IF s[i] \in S THEN Append(g[i - 1], s[i])
                                           ELSE g[i - 1]]
           kept == CHOOSE g : Keeps(g)
<1>1. n \in Nat /\ \A i \in 1..n : s[i] \in T
  OBVIOUS
<1>2. Among(s, S) = kept[n]
  BY DEF Among
<1>3. step \in [(1..n) \X Seq(T) -> Seq(T)]
  BY <1>1
<1>4. \A i \in 1..n, q \in Seq(T) : step[i, q] = IF s[i] \in S THEN Append(q, s[i]) ELSE q
  OBVIOUS
<1>5. <<>> \in Seq(T)
  OBVIOUS
<1> HIDE DEF n, step
<1>6. PICK f \in [0..n -> Seq(T)] : Goes(f, <<>>, step, n)
  BY <1>1, <1>3, <1>5, Recursion
<1>7. f[0] = <<>> /\ \A i \in 1..n : f[i] = Grown(f, i)
  <2> SUFFICES ASSUME NEW i \in 1..n PROVE f[i] = Grown(f, i)
    BY <1>6 DEF Goes
  <2>1. i - 1 \in 0..n
    BY <1>1
  <2>2. f[i - 1] \in Seq(T)
    BY <2>1
  <2>3. f[i] = step[i, f[i - 1]]
    BY <1>6 DEF Goes
  <2> QED
    BY <1>4, <2>2, <2>3
<1>8. Keeps(f)
  <2> DEFINE g == [i \in 0..n |-> IF i = 0 THEN <<>>
                                  ELSE IF s[i] \in S THEN Append(f[i - 1], s[i])
                                  ELSE f[i - 1]]
  <2>1. ASSUME NEW i \in 0..n PROVE f[i] = g[i]
    <3>1. i # 0 => i \in 1..n
      BY <1>1
    <3> QED
      BY <1>7, <3>1
  <2> QED
    BY <2>1
<1>9. Keeps(kept)
  BY <1>8
<1>10. kept[0] = <<>> /\ \A i \in 1..n : kept[i] = Grown(kept, i)
  <2>1. 0 \in 0..n /\ \A i \in 1..n : i \in 0..n /\ i # 0
    BY <1>1
  <2> HIDE DEF kept
  <2> QED
    BY <1>9, <2>1
<1> HIDE DEF kept
<1>11. n \in {i \in 0..n : kept[i] = f[i]}
  <2> DEFINE G == {i \in 0..n : kept[i] = f[i]}
  <2>1. 0 \in G
    BY <1>1, <1>7, <1>10
  <2>2. ASSUME NEW i \in 1..n, i - 1 \in G PROVE i \in G
    <3>1. kept[i - 1] = f[i - 1] /\ i \in 0..n
      BY <1>1, <2>2
    <3>2. kept[i] = f[i]
      BY <1>7, <1>10, <3>1
    <3> QED
      BY <3>1, <3>2
  <2>3. 0..n \subseteq G
    <3> HIDE DEF G
    <3> QED
      BY <1>1, <2>1, <2>2, UpTo
  <2> QED
    BY <1>1, <2>3
<1>12. Among(s, S) = f[n]
  BY <1>2, <1>11
<1> QED
  BY <1>7, <1>12 DEF n, Leaves

\* What is kept has the members asked for, in sequence, and none twice.
LEMMA AmongIs ==
    ASSUME NEW T, NEW s \in Seq(T), NEW S
    PROVE  /\ Among(s, S) \in Seq(T)
           /\ ToSet(Among(s, S)) = ToSet(s) \cap S
           /\ IsInjective(s) => IsInjective(Among(s, S))
<1> DEFINE n == Len(s)
<1>0. PICK f : Leaves(f, T, s, S)
  BY AmongGoes
<1>1. /\ f \in [0..n -> Seq(T)]
      /\ Among(s, S) = f[n] /\ f[0] = <<>>
      /\ \A i \in 1..n : f[i] = IF s[i] \in S THEN Append(f[i - 1], s[i]) ELSE f[i - 1]
  BY <1>0 DEF Leaves
<1>2. n \in Nat /\ DOMAIN s = 1..n /\ \A i \in 1..n : s[i] \in T
  OBVIOUS
<1> HIDE DEF n
<1> DEFINE G == {i \in 0..n : /\ ToSet(f[i]) = {s[j] : j \in 1..i} \cap S
                              /\ IsInjective(s) => IsInjective(f[i])}
<1>3. 0 \in G
  <2>1. ToSet(<<>>) = {} /\ IsInjective(<<>>) /\ 1..0 = {} /\ 0 \in 0..n
    BY <1>2 DEF ToSet, IsInjective
  <2> QED
    BY <1>1, <2>1
<1>4. ASSUME NEW i \in 1..n, i - 1 \in G PROVE i \in G
  <2>1. i \in 0..n /\ i - 1 \in 0..n /\ 1..i = (1..(i - 1)) \cup {i} /\ i \notin 1..(i - 1) /\ 1..(i - 1) \subseteq 1..n
    BY <1>2
  <2>2. f[i - 1] \in Seq(T) /\ s[i] \in T
    BY <1>1, <1>2, <2>1
  <2>3. ToSet(f[i - 1]) = {s[j] : j \in 1..(i - 1)} \cap S /\ (IsInjective(s) => IsInjective(f[i - 1]))
    BY <1>4
  <2>4. {s[j] : j \in 1..i} = {s[j] : j \in 1..(i - 1)} \cup {s[i]}
    BY <2>1
  <2>5. CASE s[i] \in S
    <3>1. f[i] = Append(f[i - 1], s[i])
      BY <1>1, <2>5
    <3>2. ToSet(f[i]) = {s[j] : j \in 1..i} \cap S
      BY <2>2, <2>3, <2>4, <2>5, <3>1, SetOfAppend
    <3>3. ASSUME IsInjective(s) PROVE IsInjective(f[i])
      <4>1. s[i] \notin {s[j] : j \in 1..(i - 1)}
        BY <1>2, <2>1, <3>3 DEF IsInjective
      <4>2. IsInjective(f[i - 1]) /\ s[i] \notin ToSet(f[i - 1])
        BY <2>3, <3>3, <4>1
      <4>3. IsInjective(Append(f[i - 1], s[i]))
        BY <2>2, <4>2, SetOfAppend
      <4> QED
        BY <3>1, <4>3
    <3> QED
      BY <2>1, <3>2, <3>3
  <2>6. CASE s[i] \notin S
    <3>1. f[i] = f[i - 1]
      BY <1>1, <2>6
    <3> QED
      BY <2>1, <2>3, <2>4, <2>6, <3>1
  <2> QED
    BY <2>5, <2>6
<1>5. 0..n \subseteq G
  <2> HIDE DEF G
  <2> QED
    BY <1>2, <1>3, <1>4, UpTo
<1>6. n \in 0..n /\ n \in G
  BY <1>2, <1>5
<1>7. ToSet(f[n]) = {s[j] : j \in 1..n} \cap S /\ (IsInjective(s) => IsInjective(f[n]))
  BY <1>6
<1>8. ToSet(s) = {s[j] : j \in 1..n}
  BY <1>2 DEF ToSet
<1> QED
  BY <1>1, <1>6, <1>7, <1>8

\* A sequence without repetitions has as many members as it is long.
LEMMA CountOfSet ==
    ASSUME NEW T, NEW s \in Seq(T), IsInjective(s)
    PROVE  IsFiniteSet(ToSet(s)) /\ Cardinality(ToSet(s)) = Len(s)
<1> DEFINE n == Len(s)
           D == 1..n
<1>1. n \in Nat /\ DOMAIN s = D
  OBVIOUS
<1>2. s \in Surjection(D, ToSet(s)) /\ s \in Injection(D, ToSet(s))
  BY <1>1 DEF ToSet, Surjection, Injection
<1> HIDE DEF n
<1>3. IsFiniteSet(D) /\ Cardinality(D) = n
  <2>1. IsFiniteSet(D) /\ Cardinality(D) = IF 1 > n THEN 0 ELSE n - 1 + 1
    BY <1>1, FS_Interval
  <2> QED
    BY <1>1, <2>1
<1> HIDE DEF D
<1> QED
  BY <1>2, <1>3, FS_Surjection DEF n

(***************************************************************************)
(* Kahn's algorithm.                                                       *)
(***************************************************************************)
Listed(sc) == sc.names \in Seq(TablesOf(sc)) /\ IsInjective(sc.names)

AfterParents(sc, q) ==
    \A i \in DOMAIN q : \A p \in Parents(sc, q[i]) : \E j \in DOMAIN q : j < i /\ q[j] = p

KahnStates(sc) == [queue : Seq(TablesOf(sc)), sorted : Seq(TablesOf(sc))]

\* What is sorted comes after its parents, and only what has none left queues.
KahnInv(sc, s) ==
    /\ IsInjective(s.queue) /\ IsInjective(s.sorted)
    /\ ToSet(s.queue) \cap ToSet(s.sorted) = {}
    /\ \A m \in ToSet(s.queue) : Parents(sc, m) \subseteq ToSet(s.sorted)
    /\ AfterParents(sc, s.sorted)

\* What a table releases has it as a parent, and all the others already sorted.
LEMMA ReleasedIs ==
    ASSUME NEW sc, Listed(sc), NEW sorted, NEW node
    PROVE  /\ Released(sc, sorted, node) \in Seq(TablesOf(sc))
           /\ IsInjective(Released(sc, sorted, node))
           /\ \A m : m \in ToSet(Released(sc, sorted, node)) <=>
                       /\ m \in TablesOf(sc) /\ node \in Parents(sc, m)
                       /\ Parents(sc, m) \subseteq ToSet(sorted) \cup {node}
<1> DEFINE S == {m \in TablesOf(sc) : node \in Parents(sc, m) /\ Parents(sc, m) \subseteq ToSet(sorted) \cup {node}}
<1>1. Released(sc, sorted, node) = Among(sc.names, S)
  BY DEF Released
<1>2. S \subseteq ToSet(sc.names)
  BY DEF TablesOf
<1> HIDE DEF S
<1>3. /\ Among(sc.names, S) \in Seq(TablesOf(sc)) /\ IsInjective(Among(sc.names, S))
      /\ ToSet(Among(sc.names, S)) = S
  <2>1. sc.names \in Seq(TablesOf(sc)) /\ IsInjective(sc.names)
    BY DEF Listed
  <2>2. ToSet(sc.names) \cap S = S
    BY <1>2
  <2> QED
    BY <2>1, <2>2, AmongIs
<1> QED
  BY <1>1, <1>3 DEF S

\* One turn of Kahn's loop stays among the tables.
LEMMA DequeueTyped ==
    ASSUME NEW sc, Listed(sc), NEW s \in KahnStates(sc) PROVE Dequeue(sc, s) \in KahnStates(sc)
<1>1. CASE s.queue = <<>>
  BY <1>1 DEF Dequeue
<1>2. CASE s.queue # <<>>
  <2> DEFINE node == Head(s.queue)
             released == Released(sc, s.sorted, node)
  <2>1. s.queue \in Seq(TablesOf(sc)) /\ s.sorted \in Seq(TablesOf(sc))
    BY DEF KahnStates
  <2>2. released \in Seq(TablesOf(sc))
    BY ReleasedIs
  <2>3. Tail(s.queue) \in Seq(TablesOf(sc)) /\ node \in TablesOf(sc)
    BY <1>2, <2>1
  <2>4. Dequeue(sc, s) = [queue |-> Tail(s.queue) \o released, sorted |-> Append(s.sorted, node)]
    BY <1>2 DEF Dequeue
  <2> HIDE DEF node, released
  <2> QED
    BY <2>1, <2>2, <2>3, <2>4, SetOfAppend, SetOfConcat DEF KahnStates
<1> QED
  BY <1>1, <1>2

LEMMA NoOwnParent == ASSUME NEW sc, NEW t PROVE t \notin Parents(sc, t)
  BY DEF Parents, Edges

\* A table may follow its parents.
LEMMA ParentsFirst ==
    ASSUME NEW sc, NEW q \in Seq(TablesOf(sc)), NEW node \in TablesOf(sc),
           AfterParents(sc, q), Parents(sc, node) \subseteq ToSet(q)
    PROVE  AfterParents(sc, Append(q, node))
<1> DEFINE r == Append(q, node)
<1>1. /\ Len(q) \in Nat /\ DOMAIN q = 1..Len(q) /\ DOMAIN r = 1..(Len(q) + 1)
      /\ r[Len(q) + 1] = node /\ \A i \in 1..Len(q) : r[i] = q[i]
  OBVIOUS
<1> HIDE DEF r
<1> SUFFICES ASSUME NEW i \in DOMAIN r, NEW p \in Parents(sc, r[i])
             PROVE  \E j \in DOMAIN r : j < i /\ r[j] = p
  BY DEF AfterParents, r
<1>2. CASE i \in 1..Len(q)
  <2>1. PICK j \in DOMAIN q : j < i /\ q[j] = p
    BY <1>1, <1>2 DEF AfterParents
  <2> QED
    BY <1>1, <2>1
<1>3. CASE i = Len(q) + 1
  <2>1. PICK j \in DOMAIN q : q[j] = p
    BY <1>1, <1>3 DEF ToSet
  <2> QED
    BY <1>1, <1>3, <2>1
<1> QED
  BY <1>1, <1>2, <1>3

\* One turn of Kahn's loop keeps the invariant.
LEMMA DequeueKeeps ==
    ASSUME NEW sc, Listed(sc), NEW s \in KahnStates(sc), KahnInv(sc, s)
    PROVE  KahnInv(sc, Dequeue(sc, s))
<1>1. CASE s.queue = <<>>
  BY <1>1 DEF Dequeue
<1>2. CASE s.queue # <<>>
  <2> DEFINE node == Head(s.queue)
             rest == Tail(s.queue)
             sorted == s.sorted
             released == Released(sc, sorted, node)
  <2>1. s.queue \in Seq(TablesOf(sc)) /\ sorted \in Seq(TablesOf(sc))
    BY DEF KahnStates
  <2>2. /\ released \in Seq(TablesOf(sc)) /\ IsInjective(released)
        /\ \A m \in ToSet(released) : node \in Parents(sc, m) /\ Parents(sc, m) \subseteq ToSet(sorted) \cup {node}
    BY ReleasedIs
  <2>3. /\ rest \in Seq(TablesOf(sc)) /\ node \in TablesOf(sc)
        /\ ToSet(s.queue) = {node} \cup ToSet(rest)
        /\ IsInjective(rest) /\ node \notin ToSet(rest)
    BY <1>2, <2>1, SetOfTail DEF KahnInv
  <2>4. Dequeue(sc, s) = [queue |-> rest \o released, sorted |-> Append(sorted, node)]
    BY <1>2 DEF Dequeue
  <2>5. /\ IsInjective(sorted) /\ AfterParents(sc, sorted)
        /\ node \notin ToSet(sorted) /\ ToSet(rest) \cap ToSet(sorted) = {}
        /\ Parents(sc, node) \subseteq ToSet(sorted)
        /\ \A m \in ToSet(rest) : Parents(sc, m) \subseteq ToSet(sorted)
    BY <2>3 DEF KahnInv
  <2> HIDE DEF node, rest, sorted, released
  <2>6. \A m \in ToSet(sorted) : Parents(sc, m) \subseteq ToSet(sorted)
    BY <2>5 DEF AfterParents, ToSet
  <2>7. ToSet(rest) \cap ToSet(released) = {} /\ ToSet(released) \cap ToSet(sorted) = {} /\ node \notin ToSet(released)
    BY <2>2, <2>5, <2>6, NoOwnParent
  <2> DEFINE queue2 == rest \o released
             sorted2 == Append(sorted, node)
  <2>8. IsInjective(queue2) /\ ToSet(queue2) = ToSet(rest) \cup ToSet(released)
    BY <2>2, <2>3, <2>7, SetOfConcat
  <2>9. IsInjective(sorted2) /\ ToSet(sorted2) = ToSet(sorted) \cup {node}
    BY <2>1, <2>3, <2>5, SetOfAppend
  <2>10. AfterParents(sc, sorted2)
    BY <2>1, <2>3, <2>5, ParentsFirst
  <2> HIDE DEF queue2, sorted2
  <2>11. ToSet(queue2) \cap ToSet(sorted2) = {}
    BY <2>3, <2>5, <2>7, <2>8, <2>9
  <2>12. \A m \in ToSet(queue2) : Parents(sc, m) \subseteq ToSet(sorted2)
    BY <2>2, <2>5, <2>8, <2>9
  <2>13. Dequeue(sc, s).queue = queue2 /\ Dequeue(sc, s).sorted = sorted2
    BY <2>4 DEF queue2, sorted2
  <2> QED
    BY <2>8, <2>9, <2>10, <2>11, <2>12, <2>13 DEF KahnInv
<1> QED
  BY <1>1, <1>2

\* Kahn's loop starts from the tables without parents.
LEMMA KahnStarts ==
    ASSUME NEW sc, Listed(sc), NEW s,
           s = [queue |-> Among(sc.names, {t \in TablesOf(sc) : Parents(sc, t) = {}}), sorted |-> <<>>]
    PROVE  s \in KahnStates(sc) /\ KahnInv(sc, s)
<1> DEFINE S == {t \in TablesOf(sc) : Parents(sc, t) = {}}
           roots == Among(sc.names, S)
<1>1. sc.names \in Seq(TablesOf(sc)) /\ IsInjective(sc.names)
  BY DEF Listed
<1>2. /\ roots \in Seq(TablesOf(sc)) /\ IsInjective(roots)
      /\ ToSet(roots) \subseteq S
  <2> HIDE DEF S
  <2> QED
    BY <1>1, AmongIs
<1>3. /\ <<>> \in Seq(TablesOf(sc)) /\ IsInjective(<<>>) /\ ToSet(<<>>) = {}
      /\ AfterParents(sc, <<>>)
  BY DEF IsInjective, ToSet, AfterParents
<1>4. \A m \in ToSet(roots) : Parents(sc, m) = {}
  BY <1>2
<1> HIDE DEF roots
<1> QED
  BY <1>2, <1>3, <1>4 DEF KahnStates, KahnInv, roots

\* The recursive function of TopologicalSort exists, and ends with the invariant.
LEMMA KahnGoes ==
    ASSUME NEW sc, Listed(sc)
    PROVE  \E s \in KahnStates(sc) : KahnInv(sc, s) /\ TopologicalSort(sc) = s.sorted
<1> DEFINE n == Len(sc.names)
           K == KahnStates(sc)
           roots == Among(sc.names, {t \in TablesOf(sc) : Parents(sc, t) = {}})
           start == [queue |-> roots, sorted |-> <<>>]
           step == [p \in (1..n) \X K |-> Dequeue(sc, p[2])]
           Runs(g) == g = [i \in 0..n |-> IF i = 0 THEN [queue |-> roots, sorted |-> <<>>]
                                          ELSE Dequeue(sc, g[i - 1])]
           run == CHOOSE g : Runs(g)
<1>1. n \in Nat
  BY DEF Listed
<1>2. TopologicalSort(sc) = run[n].sorted
  BY DEF TopologicalSort
<1>3. start \in K /\ KahnInv(sc, start)
  BY KahnStarts
<1>4. step \in [(1..n) \X K -> K] /\ \A i \in 1..n, s \in K : step[i, s] = Dequeue(sc, s)
  BY DequeueTyped
<1> HIDE DEF n, step, K
<1>5. PICK f \in [0..n -> K] : Goes(f, start, step, n)
  <2> HIDE DEF start
  <2> QED
    BY <1>1, <1>3, <1>4, Recursion
<1>6. f[0] = start /\ \A i \in 1..n : f[i] = Dequeue(sc, f[i - 1])
  <2> SUFFICES ASSUME NEW i \in 1..n PROVE f[i] = Dequeue(sc, f[i - 1])
    BY <1>5 DEF Goes
  <2>1. i - 1 \in 0..n
    BY <1>1
  <2>2. f[i - 1] \in K
    BY <2>1
  <2>3. f[i] = step[i, f[i - 1]]
    BY <1>5 DEF Goes
  <2> QED
    BY <1>4, <2>2, <2>3
<1>7. Runs(f)
  <2> DEFINE g == [i \in 0..n |-> IF i = 0 THEN start ELSE Dequeue(sc, f[i - 1])]
  <2>1. ASSUME NEW i \in 0..n PROVE f[i] = g[i]
    <3>1. i # 0 => i \in 1..n
      BY <1>1
    <3> HIDE DEF start
    <3> QED
      BY <1>6, <3>1
  <2>2. f = g
    BY <2>1
  <2> QED
    BY <2>2
<1>8. Runs(run)
  <2> HIDE DEF Runs
  <2> QED
    BY <1>7
<1> HIDE DEF run
<1>9. run[0] = start /\ \A i \in 1..n : run[i] = Dequeue(sc, run[i - 1])
  <2>1. 0 \in 0..n /\ \A i \in 1..n : i \in 0..n /\ i # 0
    BY <1>1
  <2>2. \A i \in 0..n : run[i] = IF i = 0 THEN start ELSE Dequeue(sc, run[i - 1])
    BY <1>8
  <2> HIDE DEF start, Runs
  <2> QED
    BY <2>1, <2>2
<1> HIDE DEF start, Runs
<1> DEFINE G == {i \in 0..n : run[i] \in K /\ KahnInv(sc, run[i])}
<1>10. 0 \in G
  BY <1>1, <1>3, <1>9
<1>11. ASSUME NEW i \in 1..n, i - 1 \in G PROVE i \in G
  <2>1. run[i - 1] \in KahnStates(sc) /\ KahnInv(sc, run[i - 1]) /\ i \in 0..n
    BY <1>1, <1>11 DEF K
  <2>2. Dequeue(sc, run[i - 1]) \in K /\ KahnInv(sc, Dequeue(sc, run[i - 1]))
    BY <2>1, DequeueTyped, DequeueKeeps DEF K
  <2> QED
    BY <1>9, <2>1, <2>2
<1>12. 0..n \subseteq G
  <2> HIDE DEF G
  <2> QED
    BY <1>1, <1>10, <1>11, UpTo
<1>13. n \in 0..n
  BY <1>1
<1>14. run[n] \in K /\ KahnInv(sc, run[n])
  BY <1>12, <1>13
<1> QED
  BY <1>2, <1>14 DEF K

\* Parents come first, no table twice, and an order as long as the schema has
\* all of its tables.
LEMMA SortedIs ==
    ASSUME NEW sc, Listed(sc)
    PROVE  /\ TopologicalSort(sc) \in Seq(TablesOf(sc)) /\ IsInjective(TopologicalSort(sc))
           /\ AfterParents(sc, TopologicalSort(sc))
           /\ Len(TopologicalSort(sc)) >= Len(sc.names) => ToSet(TopologicalSort(sc)) = TablesOf(sc)
<1> DEFINE order == TopologicalSort(sc)
<1>1. order \in Seq(TablesOf(sc)) /\ IsInjective(order) /\ AfterParents(sc, order)
  BY KahnGoes DEF KahnStates, KahnInv
<1> HIDE DEF order
<1>2. ASSUME Len(order) >= Len(sc.names) PROVE ToSet(order) = TablesOf(sc)
  <2>1. IsFiniteSet(ToSet(order)) /\ Cardinality(ToSet(order)) = Len(order)
    BY <1>1, CountOfSet
  <2>2. sc.names \in Seq(TablesOf(sc)) /\ IsInjective(sc.names) /\ TablesOf(sc) = ToSet(sc.names)
    BY DEF Listed, TablesOf
  <2>3. IsFiniteSet(TablesOf(sc)) /\ Cardinality(TablesOf(sc)) = Len(sc.names)
    BY <2>2, CountOfSet
  <2>4. ToSet(order) \subseteq TablesOf(sc)
    BY <1>1, SetOf
  <2>5. /\ Cardinality(ToSet(order)) <= Cardinality(TablesOf(sc))
        /\ Cardinality(ToSet(order)) = Cardinality(TablesOf(sc)) => ToSet(order) = TablesOf(sc)
    BY <2>3, <2>4, FS_Subset
  <2>6. Len(order) \in Nat /\ Len(sc.names) \in Nat
    BY <1>1, <2>2
  <2> QED
    BY <1>2, <2>1, <2>3, <2>5, <2>6
<1> QED
  BY <1>1, <1>2 DEF order

(***************************************************************************)
(* What the edges R lead to.                                               *)
(***************************************************************************)
LEMMA ImageInEnds == ASSUME NEW S, NEW R PROVE Image(S, R) \subseteq Ends(R)
  BY DEF Image, Ends

LEMMA ReachableContains == ASSUME NEW S, NEW R PROVE Image(S, R) \subseteq Reachable(S, R)
<1> SUFFICES ASSUME NEW x \in Image(S, R), NEW C \in SUBSET Ends(R), Image(S \cup C, R) \subseteq C
             PROVE  x \in C
  BY ImageInEnds DEF Reachable
<1> QED
  BY DEF Image

LEMMA ReachableIsClosed ==
    ASSUME NEW S, NEW R PROVE Image(Reachable(S, R), R) \subseteq Reachable(S, R)
<1> SUFFICES ASSUME NEW e \in R, e[1] \in Reachable(S, R),
                    NEW C \in SUBSET Ends(R), Image(S \cup C, R) \subseteq C
             PROVE  e[2] \in C
  BY ImageInEnds DEF Reachable, Image, Ends
<1>1. e[1] \in C
  BY DEF Reachable
<1> QED
  BY <1>1 DEF Image

\* A set that has what S leads to and is closed has all that S reaches.
LEMMA ReachableIsLeast ==
    ASSUME NEW S, NEW R, NEW C, Image(S, R) \subseteq C, Image(C, R) \subseteq C
    PROVE  Reachable(S, R) \subseteq C
<1> DEFINE D == C \cap Ends(R)
<1>1. Image(S \cup D, R) \subseteq D
  BY ImageInEnds DEF Image
<1>2. D \in SUBSET Ends(R)
  OBVIOUS
<1> QED
  BY <1>1, <1>2 DEF Reachable

=============================================================================
