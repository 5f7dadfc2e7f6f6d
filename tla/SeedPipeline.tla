---------------------------- MODULE SeedPipeline ----------------------------
(***************************************************************************)
(* One concurrent seed run (internal/seeder/seed.go seedConcurrent and     *)
(* internal/seeder/writer.go): table generators submit pieces of rows      *)
(* against a shared memory budget, one dispatcher goroutine per table      *)
(* hands the pieces to a fixed set of workers, and the main goroutine      *)
(* joins them all.                                                         *)
(*                                                                         *)
(* Tables are numbered in run order.  A piece is <<table, index>>; what a  *)
(* piece holds is abstracted to the budget it is charged.  The database is *)
(* reduced to how much of each piece it holds: no row, some, or all, which *)
(* says nothing of rows that are there twice (a COPY whose answer was lost *)
(* and the batches after it).                                              *)
(***************************************************************************)
EXTENDS Integers, Sequences, FiniteSets

CONSTANTS N,          \* tables of the run, numbered in run order
          Refs,       \* <<child, parent>> for every foreign key inside the run
          Charge,     \* Charge[t][i]: memory charged for piece i of table t
          Workers,    \* connections that write at once
          Generators, \* tables that generate at once
          Limit,      \* the row budget
          Faults      \* which failures the environment may inject

Tables == 1..N

ASSUME RunAssumption ==
    /\ N \in Nat \ {0}
    /\ Refs \subseteq Tables \X Tables
    /\ Charge \in [Tables -> Seq(Nat \ {0})]
    /\ Workers \in Nat \ {0}
    /\ Generators \in Nat \ {0}
    /\ Limit \in Nat
    /\ Faults \subseteq {"user", "generate", "write", "lost"}

Piece == UNION {{t} \X (1..Len(Charge[t])) : t \in Tables}
PiecesOf(t) == {q \in Piece : q[1] = t}
Cost(q) == Charge[q[1]][q[2]]

VARIABLES
    main,     \* the goroutine of seedConcurrent
    cancelled, \* w.ctx was cancelled, for whatever cause
    failed,   \* a generator cancelled gctx
    gen,      \* the goroutine generating each table
    broken,   \* tables whose generate call returned an error
    keys,     \* what the run-wide stream holds of each table's own keys
    recorded, \* tables whose generation poolReleases has recorded
    closed,   \* tableWriter.closed
    wake,     \* tableWriter.wake holds a signal
    disp,     \* the dispatcher goroutine of each table
    stage,    \* where each piece is
    used,     \* rowBudget.used
    rows,     \* how much of each piece the database holds
    erred,    \* history: the pieces whose write ended with an error
    tally,    \* pieces seedTally counted per table
    tabled    \* tables reported through OnTable

genVars  == <<failed, gen, broken, keys, recorded, closed>>
outVars  == <<rows, erred, tally, tabled>>
vars == <<main, cancelled, genVars, wake, disp, stage, used, outVars>>

(***************************************************************************)
(* What waits for what.                                                    *)
(***************************************************************************)
\* The tables of the run t references, itself excluded.
Parents(t) == {p \in Tables \ {t} : <<t, p>> \in Refs}
Readers(p) == {t \in Tables : p \in Parents(t)}
\* Writers open in run order: only earlier parents have a writer to wait for.
WriteParents(t) == {p \in Parents(t) : p < t}
Ordered(t) == <<t, t>> \in Refs

\* Mutant of GenDeps: only earlier references are waited for.
GenDepsForward(t) == {d \in Tables : d < t /\ t \in Readers(d)}

\* Earlier tables whose generation must end before t's starts.  With one
\* generator the tables simply run in order.
GenDeps(t) ==
    {d \in Tables : d < t /\ (Generators = 1 \/ t \in Readers(d) \/ d \in Readers(t))}

GenActive == {"running", "blocked", "signal", "close"}
GenOver   == {"generated", "failed", "skipped"}
Active    == {t \in Tables : gen[t] \in GenActive}

Unmade(t)   == {q \in PiecesOf(t) : stage[q] = "unmade"}
Queue(t)    == {q \in PiecesOf(t) : stage[q] = "queued"}
InWorker    == {"accepted", "writing", "inserted", "refused"}
Working     == {q \in Piece : stage[q] \in InWorker}
InFlight(t) == {q \in PiecesOf(t) : stage[q] \in InWorker}
IsFirst(q, S) == q \in S /\ \A r \in S : q[2] <= r[2]

Init ==
    /\ main = "generate"
    /\ cancelled = FALSE
    /\ failed = FALSE
    /\ gen = [t \in Tables |-> "waiting"]
    /\ broken = {}
    /\ keys = [t \in Tables |-> "absent"]
    /\ recorded = {}
    /\ closed = {}
    /\ wake = {}
    /\ disp = [t \in Tables |-> "parents"]
    /\ stage = [q \in Piece |-> "unmade"]
    /\ used = 0
    /\ rows = [q \in Piece |-> "none"]
    /\ erred = {}
    /\ tally = [t \in Tables |-> 0]
    /\ tabled = {}

(***************************************************************************)
(* The generator of table t.                                               *)
(***************************************************************************)
\* Its dependencies have generated, a slot is free and gctx still runs.  With
\* one generator there is no gctx: only an earlier error stops the loop.
Start(t) ==
    /\ gen[t] = "waiting"
    /\ \A d \in GenDeps(t) : gen[d] \in GenOver
    /\ Cardinality(Active) < Generators
    /\ ~failed
    /\ Generators > 1 => ~cancelled
    /\ gen' = [gen EXCEPT ![t] = "running"]
    /\ UNCHANGED <<main, cancelled, failed, broken, keys, recorded, closed, wake, disp, stage, used, outVars>>

Skip(t) ==
    /\ gen[t] = "waiting"
    /\ failed \/ (Generators > 1 /\ cancelled)
    /\ gen' = [gen EXCEPT ![t] = "skipped"]
    /\ UNCHANGED <<main, cancelled, failed, broken, keys, recorded, closed, wake, disp, stage, used, outVars>>

Fits(n) == used = 0 \/ used + n <= Limit

\* submit: the budget is looked at before the context, then the piece is
\* appended to the table's queue.
Submit(t, q) ==
    /\ gen[t] \in {"running", "blocked"}
    /\ IsFirst(q, Unmade(t))
    /\ Fits(Cost(q))
    /\ used' = used + Cost(q)
    /\ stage' = [stage EXCEPT ![q] = "queued"]
    /\ gen' = [gen EXCEPT ![t] = "signal"]
    /\ UNCHANGED <<main, cancelled, failed, broken, keys, recorded, closed, wake, disp, outVars>>

Block(t, q) ==
    /\ gen[t] = "running"
    /\ IsFirst(q, Unmade(t))
    /\ ~Fits(Cost(q))
    /\ gen' = [gen EXCEPT ![t] = "blocked"]
    /\ UNCHANGED <<main, cancelled, failed, broken, keys, recorded, closed, wake, disp, stage, used, outVars>>

\* generate returns: tw.close runs whatever the outcome.
Leave(t, err) ==
    /\ closed' = closed \union {t}
    /\ broken' = IF err THEN broken \union {t} ELSE broken
    /\ gen' = [gen EXCEPT ![t] = "signal"]
    /\ UNCHANGED <<main, cancelled, failed, keys, recorded, wake, disp, stage, used, outVars>>

SubmitFails(t)   == gen[t] = "blocked" /\ cancelled /\ Leave(t, TRUE)
GenerateFails(t) == "generate" \in Faults /\ gen[t] = "running" /\ Leave(t, TRUE)
GenerateEnds(t)  == gen[t] = "running" /\ Unmade(t) = {} /\ Leave(t, FALSE)

Signal(t) ==
    /\ gen[t] = "signal"
    /\ wake' = wake \union {t}
    /\ gen' = [gen EXCEPT ![t] = IF t \in closed THEN "close" ELSE "running"]
    /\ UNCHANGED <<main, cancelled, failed, broken, keys, recorded, closed, disp, stage, used, outVars>>

Fail(t) ==
    /\ gen[t] = "close"
    /\ t \in broken
    /\ failed' = TRUE
    /\ gen' = [gen EXCEPT ![t] = "failed"]
    /\ UNCHANGED <<main, cancelled, broken, keys, recorded, closed, wake, disp, stage, used, outVars>>

MergeTable(t) == [keys EXCEPT ![t] = "merged"]

\* The pools nothing left in the run can read, once done have generated: t's
\* own, and those of the tables t references.
Releasable(t, done) ==
    {p \in {t} \union Parents(t) : Readers(p) \union {p} \subseteq done}

\* MergeTable, poolReleases.generated, then the slot and the done channel.
Generated(t) ==
    /\ gen[t] = "close"
    /\ t \notin broken
    /\ recorded' = recorded \union {t}
    /\ keys' = [p \in Tables |-> IF p \in Releasable(t, recorded') THEN "released" ELSE MergeTable(t)[p]]
    /\ gen' = [gen EXCEPT ![t] = "generated"]
    /\ UNCHANGED <<main, cancelled, failed, broken, closed, wake, disp, stage, used, outVars>>

(***************************************************************************)
(* The dispatcher of table t.                                              *)
(***************************************************************************)
DispatchTo(t, pc) == disp' = [disp EXCEPT ![t] = pc]

ParentsWritten(t) ==
    /\ disp[t] = "parents"
    /\ \A p \in WriteParents(t) : disp[p] = "done"
    /\ DispatchTo(t, "next")
    /\ UNCHANGED <<main, cancelled, genVars, wake, stage, used, outVars>>

\* The run was cancelled while the dispatcher waited: queued pieces go.
Discard(t) ==
    /\ disp[t] \in {"parents", "asleep"}
    /\ cancelled
    /\ stage' = [q \in Piece |-> IF q \in Queue(t) THEN "dropped" ELSE stage[q]]
    /\ DispatchTo(t, "drain")
    /\ UNCHANGED <<main, cancelled, genVars, wake, used, outVars>>

Take(t, q) ==
    /\ disp[t] = "next"
    /\ IsFirst(q, Queue(t))
    /\ stage' = [stage EXCEPT ![q] = "handed"]
    /\ DispatchTo(t, "handing")
    /\ UNCHANGED <<main, cancelled, genVars, wake, used, outVars>>

Drained(t) ==
    /\ disp[t] = "next"
    /\ Queue(t) = {}
    /\ DispatchTo(t, IF t \in closed THEN "drain" ELSE "asleep")
    /\ UNCHANGED <<main, cancelled, genVars, wake, stage, used, outVars>>

Wake(t) ==
    /\ disp[t] = "asleep"
    /\ t \in wake
    /\ wake' = wake \ {t}
    /\ DispatchTo(t, "next")
    /\ UNCHANGED <<main, cancelled, genVars, stage, used, outVars>>

\* Mutant of HandOff: a self-referencing table does not wait for its piece.
HandOffUnordered(q) ==
    /\ stage[q] = "handed"
    /\ Cardinality(Working) < Workers
    /\ stage' = [stage EXCEPT ![q] = "accepted"]
    /\ DispatchTo(q[1], "next")
    /\ UNCHANGED <<main, cancelled, genVars, wake, used, outVars>>

\* w.work is unbuffered: a task is handed over only to an idle worker.
HandOff(q) ==
    /\ stage[q] = "handed"
    /\ Cardinality(Working) < Workers
    /\ stage' = [stage EXCEPT ![q] = "accepted"]
    /\ DispatchTo(q[1], IF Ordered(q[1]) THEN "await" ELSE "next")
    /\ UNCHANGED <<main, cancelled, genVars, wake, used, outVars>>

\* Mutant of HandOffCancelled: the piece keeps its budget.
HandOffLeaks(q) ==
    /\ stage[q] = "handed"
    /\ cancelled
    /\ stage' = [stage EXCEPT ![q] = "over"]
    /\ DispatchTo(q[1], "next")
    /\ UNCHANGED <<main, cancelled, genVars, wake, used, outVars>>

HandOffCancelled(q) ==
    /\ stage[q] = "handed"
    /\ cancelled
    /\ stage' = [stage EXCEPT ![q] = "over"]
    /\ used' = used - Cost(q)
    /\ DispatchTo(q[1], "next")
    /\ UNCHANGED <<main, cancelled, genVars, wake, outVars>>

Finished(t) ==
    /\ disp[t] = "await"
    /\ InFlight(t) = {}
    /\ DispatchTo(t, "next")
    /\ UNCHANGED <<main, cancelled, genVars, wake, stage, used, outVars>>

\* pending.Wait, then OnTable unless the run was cancelled.
Done(t) ==
    /\ disp[t] = "drain"
    /\ InFlight(t) = {}
    /\ \A q \in PiecesOf(t) : stage[q] # "dropped"
    /\ tabled' = IF cancelled THEN tabled ELSE tabled \union {t}
    /\ DispatchTo(t, "done")
    /\ UNCHANGED <<main, cancelled, genVars, wake, stage, used, rows, erred, tally>>

(***************************************************************************)
(* The workers.                                                            *)
(***************************************************************************)
Move(q, s) == stage' = [stage EXCEPT ![q] = s]

Release(q) == Move(q, "over") /\ used' = used - Cost(q)

Write(q) ==
    /\ stage[q] = "accepted"
    /\ ~cancelled
    /\ Move(q, "writing")
    /\ UNCHANGED <<main, cancelled, genVars, wake, disp, used, outVars>>

WriteCancelled(q) ==
    /\ stage[q] = "accepted"
    /\ cancelled
    /\ Release(q)
    /\ UNCHANGED <<main, cancelled, genVars, wake, disp, outVars>>

\* insertStrict ends without error: one COPY, or every batch.
Insert(q) ==
    /\ stage[q] = "writing"
    /\ rows' = [rows EXCEPT ![q] = "all"]
    /\ Move(q, "inserted")
    /\ UNCHANGED <<main, cancelled, genVars, wake, disp, used, erred, tally, tabled>>

\* insertStrict ends with an error.  A refused batch leaves the batches before
\* it in the database.  A statement that a cancel or a lost connection cuts off
\* may have been carried out all the same: the last one, or the COPY whose
\* answer was lost and whose rows the batches then repeat in vain.
Refuse(q, left) ==
    /\ Faults \intersect {"write", "lost"} # {} \/ cancelled
    /\ left = "all" => "lost" \in Faults \/ cancelled
    /\ stage[q] = "writing"
    /\ rows' = [rows EXCEPT ![q] = left]
    /\ erred' = erred \union {q}
    /\ cancelled' = TRUE
    /\ Move(q, "refused")
    /\ UNCHANGED <<main, genVars, wake, disp, used, tally, tabled>>

\* Mutant of Written: rows that land after a failure are not counted.
WrittenUnlessCancelled(q) ==
    /\ stage[q] = "inserted"
    /\ tally' = IF cancelled THEN tally ELSE [tally EXCEPT ![q[1]] = @ + 1]
    /\ Release(q)
    /\ UNCHANGED <<main, cancelled, genVars, wake, disp, rows, erred, tabled>>

\* onWritten, then write's deferred release, close(finished), pending.Done.
Written(q) ==
    /\ stage[q] = "inserted"
    /\ tally' = [tally EXCEPT ![q[1]] = @ + 1]
    /\ Release(q)
    /\ UNCHANGED <<main, cancelled, genVars, wake, disp, rows, erred, tabled>>

\* The deferred release of a refused piece, or discard's of a dropped one.
Drop(q) ==
    /\ stage[q] \in {"refused", "dropped"}
    /\ Release(q)
    /\ UNCHANGED <<main, cancelled, genVars, wake, disp, outVars>>

(***************************************************************************)
(* The run.                                                                *)
(***************************************************************************)
UserCancels ==
    /\ "user" \in Faults
    /\ main # "returned"
    /\ ~cancelled
    /\ cancelled' = TRUE
    /\ UNCHANGED <<main, genVars, wake, disp, stage, used, outVars>>

\* Mutant of GenerationEnds: the generators' error does not abort the writer.
GenerationEndsQuietly ==
    /\ main = "generate"
    /\ \A t \in Tables : gen[t] \in GenOver
    /\ main' = "wait"
    /\ UNCHANGED <<cancelled, genVars, wake, disp, stage, used, outVars>>

GenerationEnds ==
    /\ main = "generate"
    /\ \A t \in Tables : gen[t] \in GenOver
    /\ main' = "wait"
    /\ cancelled' = (cancelled \/ failed)
    /\ UNCHANGED <<genVars, wake, disp, stage, used, outVars>>

Return ==
    /\ main = "wait"
    /\ \A t \in Tables : disp[t] = "done"
    /\ Working = {}
    /\ main' = "returned"
    /\ UNCHANGED <<cancelled, genVars, wake, disp, stage, used, outVars>>

\* The run is over: the only state in which nothing else may happen.
Terminated == main = "returned" /\ UNCHANGED vars

GenStep(t) ==
    \/ Start(t) \/ Skip(t) \/ SubmitFails(t)
    \/ \E q \in PiecesOf(t) : Submit(t, q) \/ Block(t, q)
    \/ GenerateFails(t) \/ GenerateEnds(t) \/ Signal(t) \/ Fail(t) \/ Generated(t)

DispatchStep(t) ==
    \/ ParentsWritten(t) \/ Discard(t) \/ Drained(t) \/ Wake(t) \/ Finished(t) \/ Done(t)
    \/ \E q \in PiecesOf(t) : Take(t, q) \/ HandOff(q) \/ HandOffCancelled(q)

PieceStep(q) ==
    \/ Write(q) \/ WriteCancelled(q) \/ Insert(q) \/ Written(q) \/ Drop(q)
    \/ \E left \in {"none", "some", "all"} : Refuse(q, left)

Next ==
    \/ \E t \in Tables : GenStep(t) \/ DispatchStep(t)
    \/ \E q \in Piece : PieceStep(q)
    \/ UserCancels \/ GenerationEnds \/ Return \/ Terminated

\* Every goroutine that can run is scheduled; the database answers.
Fairness ==
    /\ \A t \in Tables : WF_vars(GenStep(t)) /\ WF_vars(DispatchStep(t))
    /\ \A q \in Piece : WF_vars(PieceStep(q))
    /\ WF_vars(GenerationEnds) /\ WF_vars(Return)

Spec == Init /\ [][Next]_vars /\ Fairness

(***************************************************************************)
(* Correctness.                                                            *)
(***************************************************************************)
\* The pieces whose rows a piece's rows may point at: all of every table its
\* dispatcher waits for, and the table's own earlier pieces if it is ordered.
Before(q) ==
    {r \in Piece : r[1] \in WriteParents(q[1]) \/ (r[1] = q[1] /\ Ordered(q[1]) /\ r[2] < q[2])}

Load == INSTANCE OrderedLoad WITH
    Requires <- [q \in Piece |-> Before(q)],
    outcome <- CASE main # "returned" -> "running"
                 [] main = "returned" /\ ~cancelled -> "ok"
                 [] OTHER -> "failed"

\* Every variable keeps its type; a table whose generator failed, or whose
\* keys were released, has a closed writer, so its dispatcher cannot wait for
\* it for ever (the deferred close in generate, seed.go:190).
TypeOK ==
    /\ main \in {"generate", "wait", "returned"}
    /\ cancelled \in BOOLEAN /\ failed \in BOOLEAN
    /\ gen \in [Tables -> GenActive \union GenOver \union {"waiting"}]
    /\ keys \in [Tables -> {"absent", "merged", "released"}]
    /\ closed \subseteq Tables
    /\ broken \subseteq closed
    /\ recorded \subseteq closed
    /\ wake \subseteq Tables
    /\ disp \in [Tables -> {"parents", "next", "asleep", "handing", "await", "drain", "done"}]
    /\ stage \in [Piece -> {"unmade", "queued", "handed", "dropped", "over"} \union InWorker]
    /\ used \in Int
    /\ rows \in [Piece -> {"none", "some", "all"}]
    /\ erred \subseteq Piece
    /\ tally \in [Tables -> Nat]
    /\ tabled \subseteq Tables

\* No row is in the database before every row it may reference is: a child's
\* after all of its parents', a self-referencing table's in generation order
\* (writer.go:35-40), whatever fails or is cancelled meanwhile.
WritesInOrder ==
    \A q \in Piece : rows[q] # "none" => \A r \in Before(q) : rows[r] = "all"

\* The run implements OrderedLoad: the order above, each piece written once, and
\* a nil error only when every piece is in the database (writer.go:288-297).
ImplementsOrderedLoad == Load!Spec

\* The pieces between submit and the end of their write, and the budget they
\* are charged, unit by unit.
Holding == {q \in Piece : stage[q] \notin {"unmade", "over"}}
Charged(S) == UNION {{q} \X (1..Cost(q)) : q \in S}

\* The budget in use is what the queued, handed and in-flight pieces hold: no
\* path forgets a release or releases twice, and only a piece too big for the
\* budget, alone, ever exceeds the limit (writer.go:299-337).
BudgetExact ==
    /\ used = Cardinality(Charged(Holding))
    /\ used <= Limit \/ Cardinality(Holding) = 1

\* While a table generates, the keys of the earlier tables it references are
\* in the stream and not yet released, and it sees none of the keys of a later
\* table it references, exactly as in a sequential run (seed.go:223-228).
KeysWhileGenerating ==
    \A t \in Active : \A p \in Parents(t) : keys[p] = IF p < t THEN "merged" ELSE "absent"

\* When the run returns, the result counts exactly the pieces that are in the
\* database in full, but for those whose own write ended with an error: a
\* statement cut off by a cancel or a lost connection may have been carried out
\* and is not counted (writer.go:266-273).  That hides at most one piece per
\* connection, however many were on their way when the run failed, and nothing
\* of a run without error.  Such a run has reported every table, and a table
\* that is reported is written in full unless its generation failed or was
\* skipped (seed.go:427-449, writer.go:209-215).
ResultCountsRows ==
    /\ main = "returned" =>
          \A t \in Tables : tally[t] = Cardinality({q \in PiecesOf(t) : rows[q] = "all"} \ erred)
    /\ Cardinality(erred) <= Workers
    /\ main = "returned" /\ ~cancelled => erred = {} /\ tabled = Tables
    /\ \A t \in tabled : \/ gen[t] = "skipped" \/ t \in broken
                         \/ \A q \in PiecesOf(t) : rows[q] = "all"

\* Every run returns, whatever fails or is cancelled: no signal is lost, no
\* dispatcher waits for a table that will never close, and the budget a child
\* holds never blocks the parent it waits for (writer.go:42-44).
Termination == <>(main = "returned")
=============================================================================
