----------------------------- MODULE KeyStream -----------------------------
(***************************************************************************)
(* Generating rows whose keys, UNIQUE values and references fit the rows   *)
(* the database holds and the rows made before (internal/faker/stream.go,  *)
(* existing.go, unique.go, references.go and the row loops of faker.go).   *)
(*                                                                         *)
(* A stream learns what is stored once.  Every table is generated on a     *)
(* fork of it, in chunks, while the rows made so far are being written;    *)
(* forks of tables that do not reference each other run side by side.      *)
(*                                                                         *)
(* A row is its key, its references, its tag (a column a generator draws   *)
(* and a UNIQUE group may redraw) and its number (a UNIQUE sequence).      *)
(* Other columns, value rules and shapes are left out; key sets are exact  *)
(* (the Bloom filter of a large one only makes the generator skip keys).   *)
(* A key made of foreign keys has no other foreign keys beside it, and     *)
(* references to one column of a key of several, which pick from a pool of *)
(* their own (references.go), are left out, a junction's own to itself too.*)
(***************************************************************************)
EXTENDS KeyPool

CONSTANTS Order,       \* the run's tables in seed order
          Kind,        \* how a table's key is made: "sequence", "random" or of
                       \* foreign keys only: one ("identifying", a one-to-one
                       \* table) or several ("junction")
          Parents,     \* the tables its foreign keys reference, in column order
          Optional,    \* tables whose foreign keys are nullable
          SelfRefs,    \* tables that also reference themselves
          Grouped,     \* tables with UNIQUE (some references, tag)
          GroupRefs,   \* the positions of those references
          Numbered,    \* tables with a UNIQUE sequence column
          Adds,        \* the rows of one call, as it adds them: one piece per
                       \* enum value to cover, or one
          Calls,       \* how often a table is generated (once, or the rounds of a fill)
          PoolLimit, ChunkRows, SelfRefDepth,
          RandomKeys,  \* the values a random key can take
          Tags,        \* the values the tag's generator can draw
          NumberSpace, \* distinct numbers of a sequence column (86400 for a TIME)
          StoredRows,  \* what the database may hold when the run starts
          Null

Tables == {Order[i] : i \in DOMAIN Order}
Position(t) == CHOOSE i \in DOMAIN Order : Order[i] = t

KeyType(t) == IF Kind[t] = "junction" THEN Seq(Int) ELSE Int
\* keyIsAllForeign: the key's combinations are enumerated.
Enumerated(t) == Kind[t] \in {"identifying", "junction"}

RowType(t) == [key : KeyType(t), refs : Seq(Int \cup {Null}), self : Int \cup {Null},
               tag : Tags \cup {Null}, num : Nat]

ASSUME KeyStreamAssumption ==
    /\ IsInjective(Order)
    /\ Kind \in [Tables -> {"sequence", "random", "identifying", "junction"}]
    /\ Parents \in [Tables -> Seq(Tables)]
    /\ \A t \in Tables : \A i \in DOMAIN Parents[t] : Parents[t][i] # t
    /\ \A t \in Tables : /\ Kind[t] = "identifying" => Len(Parents[t]) = 1
                         /\ Kind[t] = "junction" => Len(Parents[t]) > 1
    \* References to one column of a key of several are not modelled.
    /\ \A t \in Tables : \A i \in DOMAIN Parents[t] : Kind[Parents[t][i]] # "junction"
    /\ \A t \in SelfRefs \cap Tables : Kind[t] # "junction"
    /\ Calls \in [Tables -> Nat \ {0}]
    /\ Adds \in [Tables -> Seq(Nat \ {0})]
    /\ \A t \in Grouped \cap Tables : GroupRefs[t] \subseteq DOMAIN Parents[t]
    /\ {PoolLimit, ChunkRows, NumberSpace} \subseteq Nat \ {0}
    /\ SelfRefDepth \in Nat
    /\ RandomKeys \subseteq Int
    /\ Null \notin Int /\ \A t \in Tables : Null \notin RowType(t)
    /\ \A start \in StoredRows :
        /\ start = [t \in Tables |-> start[t]]
        /\ \A t \in Tables : start[t] \subseteq RowType(t) /\ IsFiniteSet(start[t])
        \* The stray 0 of a pool is modelled for keys that are numbered only.
        /\ \A t \in Tables : Kind[t] = "identifying" /\ start[t] # {} => \E r \in start[t] : r.key >= 0

VARIABLES
    atStart,    \* rows stored before the run
    emitted,    \* rows handed over so far, in order
    written,    \* how many of them the database holds
    pks,        \* the stream's key pools
    sampled,    \* tables whose pool is a sample of the stored keys
    taken,      \* existing.keys: keys already used, of the tables that track them
    tuples,     \* existing.unique: tuples already used
    seqStart,   \* existing.seqStart: the next number
    cursor,     \* where the enumeration of junction keys stopped
    stage,      \* per table: "waiting", "generating", "returned", "merged" or "failed"
    calls,      \* calls a table still gets
    fork,       \* per table: its fork of the stream and the call it is in
    loaded      \* NewStream has returned

known == <<sampled, taken, tuples, seqStart>>
vars  == <<atStart, emitted, written, pks, known, cursor, stage, calls, fork, loaded>>

ParentsOf(t) == ToSet(Parents[t])
Keys(rows)   == {r.key : r \in rows}
\* Keys the database holds: those it started with and those written since.
Stored(t)    == Keys(atStart[t]) \cup {emitted[t][i].key : i \in 1..written[t]}

\* A tuple with a NULL in it is never a duplicate.
Tuple(t, r)       == <<[c \in GroupRefs[t] |-> r.refs[c]], r.tag>>
HasNull(t, r)     == \E c \in GroupRefs[t] : r.refs[c] = Null
TuplesOf(t, rows) == {Tuple(t, r) : r \in {q \in rows : ~HasNull(t, q)}}

NoFork == [pools |-> <<>>, since |-> 0, adds |-> <<>>, buf |-> <<>>, preloaded |-> 0, short |-> FALSE]

Init ==
    /\ atStart \in StoredRows
    /\ emitted = [t \in Tables |-> <<>>]
    /\ written = [t \in Tables |-> 0]
    /\ pks = [t \in Tables |-> <<>>]
    /\ sampled = {}
    /\ taken = [t \in Tables |-> {}]
    /\ tuples = [t \in Tables |-> {}]
    /\ seqStart = [t \in Tables |-> 0]
    /\ cursor = [t \in Tables |-> 0]
    /\ stage = [t \in Tables |-> "waiting"]
    /\ calls = Calls
    /\ fork = [t \in Tables |-> NoFork]
    /\ loaded = FALSE

(***************************************************************************)
(* Reading what is stored.                                                 *)
(***************************************************************************)
\* scanPKs: the pools a table's stored keys may make.  Those of an identifying
\* table's keys, which may be integers, are among the samples.  The pool of a
\* junction, its columns' values one after the other, is read by nobody and left
\* empty.
Pools(t) ==
    CASE Kind[t] = "sequence" -> IntegerPools(Stored(t), PoolLimit)
      [] Kind[t] = "junction" -> {<<>>}
      [] OTHER                -> OtherPools(Stored(t), PoolLimit)

\* queryExistingPKs: the pools of the tables T, each read anew.
PoolsRead(T) == {p \in [T -> UNION {Pools(t) : t \in T}] : \A t \in T : p[t] \in Pools(t)}

\* keysCannotCollide: an integer key continues past the stored ones and needs
\* no set of those taken (a uuid, which needs none either, is not modelled).
TracksKeys(t) == Kind[t] # "sequence"

\* sequenceStartAfter the largest stored number.
StartAfter(numbers) == Max({n + 1 : n \in numbers} \cup {0})

\* NewStream: pools, keys, tuples and sequence positions are read once.
Load ==
    /\ ~loaded
    /\ loaded' = TRUE
    /\ pks' \in PoolsRead(Tables)
    /\ sampled' = {t \in Tables : Cardinality(Stored(t)) > PoolLimit}
    /\ taken' = [t \in Tables |-> IF TracksKeys(t) THEN Stored(t) ELSE {}]
    /\ tuples' = [t \in Tables |-> IF t \in Grouped THEN TuplesOf(t, atStart[t]) ELSE {}]
    /\ seqStart' = [t \in Tables |-> IF t \in Numbered THEN StartAfter({r.num : r \in atStart[t]}) ELSE 0]
    /\ UNCHANGED <<atStart, emitted, written, cursor, stage, calls, fork>>

(***************************************************************************)
(* Forks and calls.                                                        *)
(***************************************************************************)
\* generationDeps: earlier tables it references or that reference it.
Before(t) == {u \in Tables : Position(u) < Position(t) /\ (u \in ParentsOf(t) \/ t \in ParentsOf(u))}

\* ForkTable: the fork has its own copy of the table's pool and its parents'.
ForkTable(t) ==
    /\ loaded /\ stage[t] = "waiting"
    /\ \A u \in Before(t) : stage[u] = "merged"
    /\ stage' = [stage EXCEPT ![t] = "generating"]
    /\ calls' = [calls EXCEPT ![t] = @ - 1]
    /\ fork' = [fork EXCEPT ![t] =
          [NoFork EXCEPT !.pools = [u \in {t} \cup ParentsOf(t) |-> pks[u]],
                         !.adds = Adds[t], !.preloaded = Len(pks[t])]]
    /\ UNCHANGED <<atStart, emitted, written, pks, known, cursor, loaded>>

\* GenerateChunks returns.
Return(t) ==
    /\ stage[t] = "generating" /\ fork[t].adds = <<>> /\ fork[t].buf = <<>>
    /\ stage' = [stage EXCEPT ![t] = "returned"]
    /\ UNCHANGED <<atStart, emitted, written, pks, known, cursor, calls, fork, loaded>>

\* Another call of Generate goes on where the last one stopped.
CallAgain(t) ==
    /\ stage[t] = "returned" /\ calls[t] > 0
    /\ stage' = [stage EXCEPT ![t] = "generating"]
    /\ calls' = [calls EXCEPT ![t] = @ - 1]
    /\ fork' = [fork EXCEPT ![t] = [fork[t] EXCEPT !.adds = Adds[t], !.preloaded = Len(fork[t].pools[t]), !.short = FALSE]]
    /\ UNCHANGED <<atStart, emitted, written, pks, known, cursor, loaded>>

\* MergeTable: later tables see the pool of the fork.
MergeTable(t) ==
    /\ stage[t] = "returned" /\ calls[t] = 0
    /\ stage' = [stage EXCEPT ![t] = "merged"]
    /\ pks' = [pks EXCEPT ![t] = fork[t].pools[t]]
    /\ UNCHANGED <<atStart, emitted, written, known, cursor, calls, fork, loaded>>

(***************************************************************************)
(* Raw rows.                                                               *)
(***************************************************************************)
Row(key, refs, tag) == [key |-> key, refs |-> refs, self |-> Null, tag |-> tag, num |-> 0]

\* redrawParents: before a chunk, once a table has made PoolLimit rows from the
\* same samples.  A table whose key is enumerated keeps its pools, as its cursor
\* counts positions in them.
Redraws(t) == fork[t].buf = <<>> /\ fork[t].since >= PoolLimit /\ ~Enumerated(t)

\* The pools the next piece is made from: sampled parents may be read again.
PoolsOf(t) ==
    LET again == IF Redraws(t) THEN sampled \cap ParentsOf(t) ELSE {}
    IN  {[u \in {t} \cup ParentsOf(t) |-> IF u \in again THEN drawn[u] ELSE fork[t].pools[u]] :
            drawn \in PoolsRead(again)}

\* generateValue for a foreign key: any key of the pool, or NULL while the
\* parent has none (never in a key).
Referents(t, pool) == IF pool = <<>> /\ t \in Optional /\ ~Enumerated(t) THEN {Null} ELSE ToSet(pool)
RefsFrom(t, pools) ==
    {refs \in [DOMAIN Parents[t] -> UNION {Referents(t, pools[u]) : u \in ParentsOf(t)}] :
        \A c \in DOMAIN refs : refs[c] \in Referents(t, pools[Parents[t][c]])}

\* generatePK, tried again while the key is taken.
KeysFrom(t, pool, k) ==
    IF Kind[t] = "sequence"
      THEN {[i \in 1..k |-> NextSequential(pool) + i]}
      ELSE {ks \in [1..k -> RandomKeys \ taken[t]] : IsInjective(ks)}

\* The tag's generator, where a UNIQUE group may clash on it (a single tag is a
\* group without a column to redraw).
TagsOf(t) == IF t \in Grouped THEN Tags ELSE {Null}

PieceSize(t) == Min({Head(fork[t].adds), ChunkRows - Len(fork[t].buf)})

\* add(): the rows of a piece take their keys and join the chunk.  A piece that
\* is short of rows is the last of its call.
Add(t, pools, rows) ==
    /\ taken' = [taken EXCEPT ![t] = IF TracksKeys(t) THEN @ \cup Keys(ToSet(rows)) ELSE @]
    /\ fork' = [fork EXCEPT ![t] = [fork[t] EXCEPT
          !.pools = IF Kind[t] = "junction" THEN pools
                    ELSE [pools EXCEPT ![t] = @ \o [i \in DOMAIN rows |-> rows[i].key]],
          !.since = IF Redraws(t) THEN 0 ELSE @,
          !.preloaded = IF fork[t].buf = <<>> THEN Len(pools[t]) ELSE @,
          !.buf = @ \o rows,
          !.adds = IF Len(rows) < PieceSize(t) THEN <<>>
                   ELSE IF Len(rows) = Head(@) THEN Tail(@)
                   ELSE <<Head(@) - Len(rows)>> \o Tail(@),
          !.short = Len(rows) < PieceSize(t)]]
    /\ UNCHANGED <<atStart, emitted, written, pks, sampled, tuples, seqStart, stage, calls, loaded>>

Adding(t) == stage[t] = "generating" /\ fork[t].adds # <<>> /\ Len(fork[t].buf) < ChunkRows

\* generateStandardRows (and generateEnumRows, for the rows of one value).
AddStandard(t) ==
    /\ Adding(t) /\ ~Enumerated(t)
    /\ \E pools \in PoolsOf(t), k \in {PieceSize(t)} :
         \E keys \in KeysFrom(t, pools[t], k), refs \in [1..k -> RefsFrom(t, pools)], tags \in [1..k -> TagsOf(t)] :
            Add(t, pools, [i \in 1..k |-> Row(keys[i], refs[i], tags[i])])
    /\ UNCHANGED cursor

\* enumerateCompositeFKPKRows: the combination of the parents' keys at a
\* position, the first column varying fastest.
Pool(t, c) == fork[t].pools[Parents[t][c]]
\* How often the first c columns can be combined.
Strides(t) ==
    LET stride[c \in 0..Len(Parents[t])] == IF c = 0 THEN 1 ELSE stride[c - 1] * Len(Pool(t, c))
    IN  stride
Combination(t, i) ==
    [c \in DOMAIN Parents[t] |-> Pool(t, c)[1 + ((i \div Strides(t)[c - 1]) % Len(Pool(t, c)))]]
Combinations(t) == Strides(t)[Len(Parents[t])]
\* The key a combination is: itself, or the one key in it.
KeyOf(t, combo) == IF Kind[t] = "junction" THEN combo ELSE combo[1]

\* Mutant of WalkEnd: the walk goes no further than the rows it needs.
WalkEndShort(t, k) == Min({Combinations(t), cursor[t] + k})

\* The walk may pass as many positions as keys are taken, beyond those it needs.
WalkEnd(t, k) == Min({Combinations(t), cursor[t] + k + Cardinality(taken[t])})
Free(t, k) == {i \in cursor[t]..(WalkEnd(t, k) - 1) : KeyOf(t, Combination(t, i)) \notin taken[t]}

AddJunction(t) ==
    /\ Adding(t) /\ Enumerated(t) /\ Combinations(t) > 0
    /\ \E k \in {PieceSize(t)} : \E free \in Ascending(Free(t, k)) :
         LET got == SubSeq(free, 1, Min({k, Len(free)}))
         IN  /\ \E tags \in [DOMAIN got -> TagsOf(t)] :
                  Add(t, fork[t].pools, [i \in DOMAIN got |->
                      Row(KeyOf(t, Combination(t, got[i])), Combination(t, got[i]), tags[i])])
             /\ cursor' = [cursor EXCEPT ![t] = IF Len(got) = k THEN Last(got) + 1 ELSE Max({@, WalkEnd(t, k)})]

\* A parent without keys, or 200 draws of keys already taken, fail the table.
Fail(t) ==
    /\ Adding(t)
    /\ \/ \E c \in DOMAIN Parents[t] : Referents(t, Pool(t, c)) = {}
       \/ Kind[t] = "random" /\ taken[t] \cap RandomKeys # {}
    /\ stage' = [stage EXCEPT ![t] = "failed"]
    /\ UNCHANGED <<atStart, emitted, written, pks, known, cursor, calls, fork, loaded>>

(***************************************************************************)
(* Final rows.                                                             *)
(***************************************************************************)
\* assignUniqueSequences, in a space of numbers that wraps around.
Number(t, rows) ==
    [i \in DOMAIN rows |->
        IF t \in Numbered THEN [rows[i] EXCEPT !.num = (seqStart[t] + i - 1) % NumberSpace] ELSE rows[i]]

\* Mutant of Clashes: a chunk looks at its own tuples only.
ClashesWithin(t, row, before) ==
    \/ t \in Grouped /\ ~HasNull(t, row) /\ Tuple(t, row) \in TuplesOf(t, before)
    \/ t \in Numbered /\ row.num \in {r.num : r \in before}

\* A UNIQUE value that is stored or was used before.  Numbers continue past the
\* stored ones and are compared within a chunk only.
Clashes(t, row, before) ==
    \/ t \in Grouped /\ ~HasNull(t, row) /\ Tuple(t, row) \in tuples[t] \cup TuplesOf(t, before)
    \/ t \in Numbered /\ row.num \in {r.num : r \in before}

\* enforceUniqueGroups: a row that clashes gets another tag or is dropped
\* (here: Null), by chance even while a tag is free.
Settled(t, rows) ==
    {out \in [DOMAIN rows -> {Null} \cup UNION {{[rows[i] EXCEPT !.tag = g] : g \in TagsOf(t) \cup {rows[i].tag}} : i \in DOMAIN rows}] :
        \A i \in DOMAIN rows :
            LET before == {out[j] : j \in 1..(i - 1)} \ {Null}
            IN  IF Clashes(t, rows[i], before)
                  THEN \/ out[i] = Null
                       \/ out[i] # Null /\ out[i] = [rows[i] EXCEPT !.tag = out[i].tag] /\ ~Clashes(t, out[i], before)
                  ELSE out[i] = rows[i]}

\* backfillSelfReferences: a row references the latest one before it that is
\* not SelfRefDepth deep, and is a root when there is none.
Levels(n) ==
    LET level[i \in 1..n] ==
          LET eligible == {j \in 1..(i - 1) : level[j] < SelfRefDepth}
          IN  IF eligible = {} THEN 0 ELSE level[Max(eligible)] + 1
    IN  level
SelfReference(t, rows, i) ==
    LET eligible == {j \in 1..(i - 1) : Levels(i)[j] < SelfRefDepth}
    IN  IF eligible # {} THEN rows[Max(eligible)].key
        ELSE IF t \in Optional THEN Null ELSE rows[i].key
Backfilled(t, rows) ==
    [i \in DOMAIN rows |->
        IF t \in SelfRefs THEN [rows[i] EXCEPT !.self = SelfReference(t, rows, i)] ELSE rows[i]]

KeysIn(rows) == [i \in DOMAIN rows |-> rows[i].key]

\* finalize, and the chunk is handed over.  Dropped rows leave the pool before
\* anything can reference them.
Flush(t) ==
    /\ stage[t] = "generating" /\ fork[t].buf # <<>>
    /\ fork[t].adds = <<>> \/ Len(fork[t].buf) >= ChunkRows
    /\ \E out \in Settled(t, Number(t, fork[t].buf)) :
       \E left \in Ascending({i \in DOMAIN out : out[i] # Null}) :
         LET kept == [i \in DOMAIN left |-> out[left[i]]]
             pool == IF Len(kept) < Len(out)
                       THEN Rebuilt(fork[t].pools[t], fork[t].preloaded, KeysIn(kept))
                       ELSE fork[t].pools[t]
         IN  /\ emitted' = [emitted EXCEPT ![t] = @ \o Backfilled(t, kept)]
             /\ tuples' = [tuples EXCEPT ![t] = IF t \in Grouped THEN @ \cup TuplesOf(t, ToSet(kept)) ELSE @]
             /\ \E capped \in CappedPools(pool, PoolLimit) :
                  fork' = [fork EXCEPT ![t] = [fork[t] EXCEPT
                      !.pools[t] = capped, !.preloaded = Len(capped),
                      !.since = @ + Len(kept), !.buf = <<>>]]
    /\ seqStart' = [seqStart EXCEPT ![t] = @ + Len(fork[t].buf)]
    /\ UNCHANGED <<atStart, written, pks, sampled, taken, cursor, stage, calls, loaded>>

\* The writer stores another row of those handed over.  Only rows a redraw may
\* read are followed.
Write(t) ==
    /\ t \in sampled /\ \E u \in Tables : ~Enumerated(u) /\ t \in ParentsOf(u) /\ stage[u] \in {"waiting", "generating"}
    /\ written[t] < Len(emitted[t])
    /\ written' = [written EXCEPT ![t] = @ + 1]
    /\ UNCHANGED <<atStart, emitted, pks, known, cursor, stage, calls, fork, loaded>>

Generate(t) == AddStandard(t) \/ AddJunction(t) \/ Fail(t) \/ Flush(t) \/ Return(t)

Next ==
    \/ Load
    \/ \E t \in Tables : ForkTable(t) \/ Generate(t) \/ CallAgain(t) \/ MergeTable(t) \/ Write(t)

Spec == Init /\ [][Next]_vars

(***************************************************************************)
(* Properties.                                                             *)
(***************************************************************************)
\* The types of the variables; pools and chunks stay within their limits.
TypeOK ==
    /\ \A t \in Tables :
        /\ emitted[t] \in Seq(RowType(t))
        /\ written[t] \in 0..Len(emitted[t])
        /\ Len(pks[t]) <= PoolLimit
        /\ cursor[t] \in Nat /\ seqStart[t] \in Nat
        /\ fork[t].buf \in Seq(RowType(t)) /\ Len(fork[t].buf) <= ChunkRows
    /\ sampled \subseteq Tables
    /\ stage \in [Tables -> {"waiting", "generating", "returned", "merged", "failed"}]

\* "new keys, UNIQUE values and sequences never repeat those of earlier calls"
\* (stream.go:100): no key is handed out twice, nor one the database held,
\* although pools are samples and dropped rows give theirs back.
KeysNeverRepeat ==
    \A t \in Tables :
        /\ IsInjective(KeysIn(emitted[t]))
        /\ \A i \in DOMAIN emitted[t] : emitted[t][i].key \notin Keys(atStart[t])

Referable(t) == Keys(atStart[t]) \cup Keys(ToSet(emitted[t]))

\* Every reference handed over names a row there already: one stored at the
\* start, one handed over before, or for a self-reference the row itself or an
\* earlier one.  strays[t] are values besides that a reference to t may hold.
RefsName(strays) ==
    \A t \in Tables : \A i \in DOMAIN emitted[t] :
        LET row == emitted[t][i]
        IN  /\ \A c \in DOMAIN row.refs :
                 \/ row.refs[c] \in Referable(Parents[t][c]) \cup strays[Parents[t][c]]
                 \/ row.refs[c] = Null /\ t \in Optional
            /\ row.self = Null \/ \E j \in 1..i : row.self = emitted[t][j].key

\* "Children then only reference rows that will actually be inserted"
\* (unique.go:139), whatever was dropped, sampled or read again meanwhile.  A
\* parent whose stored keys are all negative is the exception: the reservoir
\* ends its pool with 0.
OnlyNegative(t) == Kind[t] = "sequence" /\ atStart[t] # {} /\ \A k \in Keys(atStart[t]) : k < 0
RefsFit == RefsName([t \in Tables |-> IF OnlyNegative(t) THEN {0} ELSE {}])

\* "For integer keys the largest value always ends the pool" (pools.go:8): a
\* pool holds keys of rows, so a reference names a row without exception.
RefsAreRows == RefsName([t \in Tables |-> {}])

\* A UNIQUE tuple or number is never handed over twice, nor one the database
\* held, as long as the numbers last: a chunk checks only its own numbers, so
\* once they wrap around they do repeat.
UniqueNeverRepeats ==
    \A t \in Tables : \A i \in DOMAIN emitted[t] :
        LET row   == emitted[t][i]
            other == atStart[t] \cup {emitted[t][j] : j \in 1..(i - 1)}
        IN  /\ t \in Grouped /\ ~HasNull(t, row) => Tuple(t, row) \notin TuplesOf(t, other)
            /\ t \in Numbered /\ seqStart[t] <= NumberSpace => row.num \notin {r.num : r \in other}

\* A table whose rows may be dropped for a UNIQUE value: the tags of a group run
\* out, or a chunk is longer than the numbers of a sequence.
MayDrop(t) == t \in Grouped \/ (t \in Numbered /\ ChunkRows > NumberSpace)

\* The keys of the parent at c that a junction must have combined: those in its
\* fork's pool, and all the parent has when it came first and they fit a pool.
ToCombine(t, c) ==
    LET parent == Parents[t][c]
        whole  == /\ Position(parent) < Position(t)
                  /\ Cardinality(Referable(parent)) <= PoolLimit /\ ~OnlyNegative(parent)
    IN  ToSet(Pool(t, c)) \cup (IF whole THEN Referable(parent) ELSE {})

\* A table stops short with "finite FK primary-key combinations" (stream.go:260)
\* only when every combination of its parents' keys is stored, handed over, or
\* dropped for a UNIQUE value: the cursor skips none, however stored keys lie in
\* its way.  The keys are all the parent has while they fit a pool; beyond that
\* they are the sample the table was forked with, which it never draws again
\* (stream.go:338), so it stops while parents remain.
JunctionComplete ==
    \A t \in Tables :
        Enumerated(t) /\ fork[t].short /\ fork[t].buf = <<>> =>
            \A combo \in [DOMAIN Parents[t] -> UNION {ToCombine(t, c) : c \in DOMAIN Parents[t]}] :
                (\A c \in DOMAIN combo : combo[c] \in ToCombine(t, c)) =>
                    KeyOf(t, combo) \in Referable(t) \cup (IF MayDrop(t) THEN taken[t] ELSE {})
=============================================================================
