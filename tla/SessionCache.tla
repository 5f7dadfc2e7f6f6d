---------------------------- MODULE SessionCache ----------------------------
(***************************************************************************)
(* What a web session remembers about its database: row counts, counted    *)
(* once for all the requests that ask together, and relationship shapes,   *)
(* filled in as a scan measures them (internal/web/session.go Counts,      *)
(* InvalidateCounts; internal/web/shapes.go; handlers_relationships.go).   *)
(* Runs write to the same database and invalidate both when they return.   *)
(*                                                                         *)
(* A table's content is the number of writes it has seen, so a count or a  *)
(* shape is the number it was read at.  A call of Counts that starts a     *)
(* count is the countsLoad the other calls wait for.                       *)
(***************************************************************************)
EXTENDS Integers, FiniteSets

CONSTANTS Tables,   \* tables of the session's database
          Calls,    \* requests that call Counts
          Forced,   \* the ones with refresh=1
          Scans,    \* relationship scan jobs
          Runs,     \* seed, fill or mirror runs on this database
          Written,  \* the tables they write
          MaxWrites, \* bound: writes per table
          Nil       \* the nil of a cache or a load

ASSUME CacheAssumption ==
    /\ Forced \subseteq Calls
    /\ Written \subseteq Tables
    /\ MaxWrites \in Nat
    /\ Nil \notin Calls
    /\ Calls \cap Scans = {}

VARIABLES
    data,     \* writes each table has seen
    run,      \* each run: "writing" or "ended"
    settled,  \* data when the last run that ended invalidated the caches
    call,     \* each call: "idle", "counting", "waiting" or "returned"
    joined,   \* the call whose count a waiting call waits for
    quit,     \* calls whose request context was cancelled
    result,   \* what each counting call has counted: table -> data
    tried,    \* the tables it has counted or failed to count
    loading,  \* Session.countsLoading
    counts,   \* Session.counts
    overlap,  \* a run ended while a count was in flight
    scan,     \* each scan: "idle", "scanning" or "ended"
    myGen,    \* the generation begin gave it
    todo,     \* the keys it has still to measure, named by their table
    measured, \* what it has measured and not yet put: table -> data
    gen,      \* shapeCache.gen
    shapes,   \* shapeCache.byKey: table -> [by |-> scan, at |-> data]
    running   \* shapeCache.running

runVars   == <<data, run, settled>>
countVars == <<call, joined, quit, result, tried, loading, counts, overlap>>
shapeVars == <<scan, myGen, todo, measured, gen, shapes, running>>
cacheVars == <<runVars, countVars, shapeVars>>

Partial(D, R) == UNION {[E -> R] : E \in SUBSET D}
With(f, x, y) == [z \in DOMAIN f \cup {x} |-> IF z = x THEN y ELSE f[z]]
Nothing == [t \in {} |-> 0]

CacheInit ==
    /\ data = [t \in Tables |-> 0]
    /\ run = [r \in Runs |-> "writing"]
    /\ settled = data
    /\ call = [c \in Calls |-> "idle"]
    /\ joined = [c \in Calls |-> Nil]
    /\ quit = {}
    /\ result = [c \in Calls |-> Nothing]
    /\ tried = [c \in Calls |-> {}]
    /\ loading = Nil
    /\ counts = Nil
    /\ overlap = FALSE
    /\ scan = [s \in Scans |-> "idle"]
    /\ myGen = [s \in Scans |-> 0]
    /\ todo = [s \in Scans |-> Tables]
    /\ measured = [s \in Scans |-> Nothing]
    /\ gen = 0
    /\ shapes = Nothing
    /\ running = FALSE

(***************************************************************************)
(* Runs.                                                                   *)
(***************************************************************************)
Write(r, t) ==
    /\ run[r] = "writing"
    /\ data[t] < MaxWrites
    /\ data' = [data EXCEPT ![t] = @ + 1]
    /\ UNCHANGED <<run, settled, countVars, shapeVars>>

\* Mutant of EndRun: only the shapes are dropped.
EndRunKeepsCounts(r) ==
    /\ run[r] = "writing"
    /\ run' = [run EXCEPT ![r] = "ended"]
    /\ settled' = data
    /\ overlap' = (overlap \/ loading # Nil)
    /\ gen' = gen + 1
    /\ shapes' = Nothing
    /\ running' = FALSE
    /\ UNCHANGED <<data, call, joined, quit, result, tried, loading, counts, scan, myGen, todo, measured>>

\* The deferred InvalidateCounts, whether the run succeeded or not: both caches
\* are dropped, and a scan that goes on belongs to an older generation.
EndRun(r) ==
    /\ run[r] = "writing"
    /\ run' = [run EXCEPT ![r] = "ended"]
    /\ settled' = data
    /\ counts' = Nil
    /\ overlap' = (overlap \/ loading # Nil)
    /\ gen' = gen + 1
    /\ shapes' = Nothing
    /\ running' = FALSE
    /\ UNCHANGED <<data, call, joined, quit, result, tried, loading, scan, myGen, todo, measured>>

(***************************************************************************)
(* Counts.                                                                 *)
(***************************************************************************)
UsesCache(c) == c \notin Forced /\ counts # Nil

CallCached(c) ==
    /\ call[c] = "idle"
    /\ UsesCache(c)
    /\ call' = [call EXCEPT ![c] = "returned"]
    /\ UNCHANGED <<runVars, joined, quit, result, tried, loading, counts, overlap, shapeVars>>

CallWaits(c) ==
    /\ call[c] = "idle"
    /\ ~UsesCache(c)
    /\ loading # Nil
    /\ call' = [call EXCEPT ![c] = "waiting"]
    /\ joined' = [joined EXCEPT ![c] = loading]
    /\ UNCHANGED <<runVars, quit, result, tried, loading, counts, overlap, shapeVars>>

CallCounts(c) ==
    /\ call[c] = "idle"
    /\ ~UsesCache(c)
    /\ loading = Nil
    /\ call' = [call EXCEPT ![c] = "counting"]
    /\ loading' = c
    /\ UNCHANGED <<runVars, joined, quit, result, tried, counts, overlap, shapeVars>>

\* One table is counted in its own transaction.  It may fail, and fails for
\* sure once the request is cancelled; it is then left out.
CountTable(c, t) ==
    /\ call[c] = "counting"
    /\ t \notin tried[c]
    /\ tried' = [tried EXCEPT ![c] = @ \cup {t}]
    /\ \/ c \notin quit /\ result' = [result EXCEPT ![c] = With(@, t, data[t])]
       \/ UNCHANGED result
    /\ UNCHANGED <<runVars, call, joined, quit, loading, counts, overlap, shapeVars>>

\* The page left: the request's context is cancelled.  A call that waits for
\* another's count would not notice.
Quit(c) ==
    /\ call[c] = "counting"
    /\ c \notin quit
    /\ quit' = quit \cup {c}
    /\ UNCHANGED <<runVars, call, joined, result, tried, loading, counts, overlap, shapeVars>>

\* The call returns; what it held is gone.
Return(c) ==
    /\ call' = [call EXCEPT ![c] = "returned"]
    /\ joined' = [joined EXCEPT ![c] = Nil]
    /\ quit' = quit \ {c}
    /\ result' = [result EXCEPT ![c] = Nothing]
    /\ tried' = [tried EXCEPT ![c] = {}]

\* Mutant of Counted: a cancelled request returns without telling anyone.
CountedUnlessQuit(c) ==
    /\ call[c] = "counting"
    /\ tried[c] = Tables
    /\ c \notin quit
    /\ loading' = Nil
    /\ counts' = result[c]
    /\ Return(c)
    /\ UNCHANGED <<runVars, overlap, shapeVars>>

\* Every table was tried: the count is cached unless the request was
\* cancelled, and whoever waits for it is woken.
Counted(c) ==
    /\ call[c] = "counting"
    /\ tried[c] = Tables
    /\ loading' = Nil
    /\ counts' = IF c \in quit THEN counts ELSE result[c]
    /\ Return(c)
    /\ UNCHANGED <<runVars, overlap, shapeVars>>

Woken(c) ==
    /\ call[c] = "waiting"
    /\ call[joined[c]] = "returned"
    /\ Return(c)
    /\ UNCHANGED <<runVars, loading, counts, overlap, shapeVars>>

(***************************************************************************)
(* Relationship scans.                                                     *)
(***************************************************************************)
Begin(s) ==
    /\ scan[s] = "idle"
    /\ scan' = [scan EXCEPT ![s] = "scanning"]
    /\ gen' = gen + 1
    /\ myGen' = [myGen EXCEPT ![s] = gen + 1]
    /\ shapes' = Nothing
    /\ running' = TRUE
    /\ UNCHANGED <<runVars, countVars, todo, measured>>

\* The shape of t's keys is read from the database; put follows.
Measure(s, t) ==
    /\ scan[s] = "scanning"
    /\ t \in todo[s]
    /\ todo' = [todo EXCEPT ![s] = @ \ {t}]
    /\ measured' = [measured EXCEPT ![s] = With(@, t, data[t])]
    /\ UNCHANGED <<runVars, countVars, scan, myGen, gen, shapes, running>>

Without(f, x) == [z \in DOMAIN f \ {x} |-> f[z]]

\* Mutant of Put: a scan writes whatever the cache has become.
PutAnyway(s, t) ==
    /\ t \in DOMAIN measured[s]
    /\ shapes' = With(shapes, t, [by |-> s, at |-> measured[s][t]])
    /\ measured' = [measured EXCEPT ![s] = Without(@, t)]
    /\ UNCHANGED <<runVars, countVars, scan, myGen, todo, gen, running>>

\* A scan of an older generation leaves the cache alone.
Put(s, t) ==
    /\ t \in DOMAIN measured[s]
    /\ shapes' = IF myGen[s] = gen THEN With(shapes, t, [by |-> s, at |-> measured[s][t]]) ELSE shapes
    /\ measured' = [measured EXCEPT ![s] = Without(@, t)]
    /\ UNCHANGED <<runVars, countVars, scan, myGen, todo, gen, running>>

\* The scan returns, having measured every key or been cancelled.
EndScan(s) ==
    /\ scan[s] = "scanning"
    /\ measured[s] = Nothing
    /\ scan' = [scan EXCEPT ![s] = "ended"]
    /\ running' = (running /\ myGen[s] # gen)
    /\ myGen' = [myGen EXCEPT ![s] = 0]
    /\ todo' = [todo EXCEPT ![s] = {}]
    /\ UNCHANGED <<runVars, countVars, measured, gen, shapes>>

CountStep(c) == (\E t \in Tables : CountTable(c, t)) \/ Counted(c) \/ Woken(c)
Call(c) == CallCached(c) \/ CallWaits(c) \/ CallCounts(c)

CacheNext ==
    \/ \E r \in Runs : EndRun(r) \/ \E t \in Written : Write(r, t)
    \/ \E c \in Calls : Call(c) \/ CountStep(c) \/ Quit(c)
    \/ \E s \in Scans : Begin(s) \/ EndScan(s) \/ \E t \in Tables : Measure(s, t) \/ Put(s, t)

\* A call runs once it was made: the database answers every count.
Fairness == \A c \in Calls : WF_cacheVars(CountStep(c))

CacheSpec == CacheInit /\ [][CacheNext]_cacheVars /\ Fairness

(***************************************************************************)
(* What a session may show.                                                *)
(***************************************************************************)
\* Every variable keeps its type, and "concurrent calls share one count"
\* (session.go:361): whoever counts is the count in flight.
TypeOK ==
    /\ data \in [Tables -> 0..MaxWrites] /\ settled \in [Tables -> 0..MaxWrites]
    /\ run \in [Runs -> {"writing", "ended"}]
    /\ call \in [Calls -> {"idle", "counting", "waiting", "returned"}]
    /\ joined \in [Calls -> Calls \cup {Nil}]
    /\ quit \subseteq Calls
    /\ result \in [Calls -> Partial(Tables, 0..MaxWrites)]
    /\ tried \in [Calls -> SUBSET Tables]
    /\ loading \in Calls \cup {Nil}
    /\ counts \in Partial(Tables, 0..MaxWrites) \cup {Nil}
    /\ overlap \in BOOLEAN
    /\ scan \in [Scans -> {"idle", "scanning", "ended"}]
    /\ gen \in Nat /\ myGen \in [Scans -> 0..gen]
    /\ todo \in [Scans -> SUBSET Tables]
    /\ measured \in [Scans -> Partial(Tables, 0..MaxWrites)]
    /\ shapes \in Partial(Tables, [by : Scans, at : 0..MaxWrites])
    /\ running \in BOOLEAN
    /\ \A c \in Calls : call[c] = "counting" <=> loading = c

\* No cached count is older than the last run's writes unless a count was in
\* flight while a run ended.
FreshUnlessOverlapped ==
    counts # Nil /\ ~overlap => \A t \in DOMAIN counts : counts[t] >= settled[t]

\* No shape is older than the last run's writes, and all the shapes shown come
\* from one scan, however runs and scans overlap.
ShapesFresh ==
    /\ \A t \in DOMAIN shapes : shapes[t].at >= settled[t]
    /\ \A t, u \in DOMAIN shapes : shapes[t].by = shapes[u].by

\* A request that counts, or waits for another's count, gets its answer also
\* when the counting request was cancelled.  Each request is made once, so from
\* some point on none is left pending.
CallsReturn == <>[](\A c \in Calls : call[c] \notin {"counting", "waiting"})

\* "Row counts of the workspace, cached until a run writes" (session.go:60):
\* no cached count is older than the writes of a run that has ended.
CountsFresh == counts # Nil => \A t \in DOMAIN counts : counts[t] >= settled[t]
=============================================================================
