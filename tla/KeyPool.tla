------------------------------ MODULE KeyPool ------------------------------
(***************************************************************************)
(* Pools of key values foreign keys pick from: what the reservoir keeps of *)
(* a stored column, how a pool is cut to its limit, and where new integer  *)
(* keys continue (internal/faker/pools.go, nextSequentialPK).              *)
(*                                                                         *)
(* A pool is a sequence.  Only its last element has a place that matters;  *)
(* the others keep the order of their values or of the pool they come      *)
(* from, whatever order sampling leaves them in.                           *)
(***************************************************************************)
EXTENDS Integers, FiniteSets, FiniteSetsExt, Sequences, SequencesExt

\* The elements of a set of integers, ascending (the only one, in a set).
Ascending(S) ==
    {s \in [1..Cardinality(S) -> S] : \A i, j \in 1..Cardinality(S) : i < j => s[i] < s[j]}

\* What the reservoir may hold once the values S went through it.
Reservoirs(S, limit) == IF Cardinality(S) <= limit THEN {S} ELSE kSubset(limit, S)

\* poolSampler.max: zero, or the largest value seen if it is above.
Largest(S) == {m \in S \cup {0} : \A n \in S \cup {0} : n <= m}

\* poolSampler.values() for integer keys: sorted, and the last one replaced
\* when it is below the largest value m.
EndingWith(m, pool) ==
    IF pool # <<>> /\ pool[Len(pool)] < m THEN [pool EXCEPT ![Len(pool)] = m] ELSE pool

\* The pools scanPool may make of the stored values S: integer keys, others.
OtherPools(S, limit)   == UNION {Ascending(R) : R \in Reservoirs(S, limit)}
IntegerPools(S, limit) == {EndingWith(m, pool) : m \in Largest(S), pool \in OtherPools(S, limit)}

\* capPool: a sample of the pool that keeps its last value last.
CappedPools(pool, limit) ==
    IF Len(pool) <= limit
      THEN {pool}
      ELSE {[i \in 1..limit |-> pool[at[i]]] :
              at \in UNION {Ascending(I \cup {Len(pool)}) : I \in kSubset(limit - 1, 1..(Len(pool) - 1))}}

\* Mutant of NextSequential: the number of keys in the pool, as if it held all.
NextSequentialLength(pool) == Len(pool)

\* nextSequentialPK: a new integer key is one more than this.
NextSequential(pool) ==
    IF pool # <<>> /\ pool[Len(pool)] > Len(pool) THEN pool[Len(pool)] ELSE Len(pool)

\* Mutant of Rebuilt: the keys of dropped rows stay.
RebuiltNever(pool, preloaded, keys) == pool

\* rebuildPKPool: the keys before the chunk, then those of the rows it kept.
Rebuilt(pool, preloaded, keys) == SubSeq(pool, 1, preloaded) \o keys
=============================================================================
