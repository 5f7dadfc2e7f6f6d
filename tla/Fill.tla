-------------------------------- MODULE Fill --------------------------------
(***************************************************************************)
(* Filling tables with an exact number of new rows, the engine of a mirror *)
(* run (internal/seeder/seeder.go Fill, fillTable, insertRows).  A table   *)
(* is filled in rounds: what is still missing is generated, split over a   *)
(* few connections and written, and what the database refused is generated *)
(* again in the next round, until nothing is missing or the table is given *)
(* up.                                                                     *)
(*                                                                         *)
(* Rows are counted and have no content: the database decides which ones   *)
(* it refuses.                                                             *)
(***************************************************************************)
EXTENDS Integers, FiniteSets, FiniteSetsExt

CONSTANTS N,              \* tables, numbered in the order they are filled
          Requested,      \* rows requested of each
          SelfRefs,       \* tables that reference themselves
          Chunk,          \* rows of a round
          BatchSize,      \* rows of an INSERT
          Workers,        \* connections that write a round
          MaxRowFailures, \* refused rows in a row that abandon a piece or a table
          MaxZeroRounds,  \* rounds without a generated row that abandon a table (3)
          Modes           \* options of the runs: [stop : StopOnError, copy : COPY]

FillTables == 1..N

ASSUME FillAssumption ==
    /\ N \in Nat \ {0}
    /\ Requested \in [FillTables -> Nat]
    /\ SelfRefs \subseteq FillTables
    /\ {Chunk, BatchSize, Workers, MaxRowFailures, MaxZeroRounds} \subseteq Nat \ {0}
    /\ Modes \subseteq [stop : BOOLEAN, copy : BOOLEAN]

VARIABLES
    mode,       \* the options of this run
    cancelled,  \* the run's context was cancelled
    fill,       \* "table", "round", "write" or "returned"
    table,      \* the table being filled
    stored,     \* rows of the run each table holds
    inserted,   \* TableResult.Inserted
    rejected,   \* TableResult.Rejected
    status,     \* TableResult.Status, "none" until the table is reported
    zeroRounds, \* rounds of this table that generated nothing
    refused,    \* refusedStreak
    piece       \* the pieces of the round being written

tableVars == <<stored, inserted, rejected, status>>
roundVars == <<zeroRounds, refused>>
fillVars == <<mode, cancelled, fill, table, tableVars, roundVars, piece>>

NoPiece == [i \in {} |-> 0]

\* A piece of rows left to write: first with one COPY, then in batches, then,
\* for a batch that was refused, row by row.
NewPiece(n) ==
    [step |-> "copy", left |-> n, batch |-> 0, failures |-> 0, in |-> 0, out |-> 0, err |-> "none"]

FillInit ==
    /\ mode \in Modes
    /\ cancelled = FALSE
    /\ fill = "table"
    /\ table = 1
    /\ stored = [t \in FillTables |-> 0]
    /\ inserted = [t \in FillTables |-> 0]
    /\ rejected = [t \in FillTables |-> 0]
    /\ status = [t \in FillTables |-> "none"]
    /\ zeroRounds = 0 /\ refused = 0
    /\ piece = NoPiece

Cancel ==
    /\ ~cancelled
    /\ fill # "returned"
    /\ cancelled' = TRUE
    /\ UNCHANGED <<mode, fill, table, tableVars, roundVars, piece>>

(***************************************************************************)
(* The end of a table.                                                     *)
(***************************************************************************)
\* finish(): the status of a table of which i rows were inserted.
Outcome(t, i) ==
    IF i >= Requested[t] THEN "ok" ELSE IF i = 0 THEN "failed" ELSE "partial"

\* The table is reported with i rows; the run goes on or returns.
Report(i, returns) ==
    /\ status' = [status EXCEPT ![table] = Outcome(table, i)]
    /\ inserted' = [inserted EXCEPT ![table] = i]
    /\ fill' = IF returns THEN "returned" ELSE "table"
    /\ table' = table + 1
    /\ zeroRounds' = 0 /\ refused' = 0
    /\ piece' = NoPiece

\* finishStuck(): the run stops only if it was asked to.
Stuck(i) == Report(i, mode.stop)

Skip ==
    /\ fill = "table"
    /\ table \in FillTables
    /\ Requested[table] = 0
    /\ table' = table + 1
    /\ UNCHANGED <<mode, cancelled, fill, tableVars, roundVars, piece>>

\* The parents' keys and the stored ones are read, once for all the rounds.
OpenTable ==
    /\ fill = "table"
    /\ table \in FillTables
    /\ Requested[table] > 0
    /\ fill' = "round"
    /\ UNCHANGED <<mode, cancelled, table, tableVars, roundVars, piece>>

\* The table is not in the schema, or its keys cannot be read.
OpenFails ==
    /\ fill = "table"
    /\ table \in FillTables
    /\ Requested[table] > 0
    /\ \/ Stuck(0)
       \/ cancelled /\ Report(0, TRUE)
    /\ UNCHANGED <<mode, cancelled, stored, rejected>>

Return ==
    /\ fill = "table"
    /\ table = N + 1
    /\ fill' = "returned"
    /\ UNCHANGED <<mode, cancelled, table, tableVars, roundVars, piece>>

(***************************************************************************)
(* A round.                                                                *)
(***************************************************************************)
Lower(a, b) == IF a < b THEN a ELSE b
Upper(a, b) == IF a < b THEN b ELSE a

\* Mutant of RoundRows: the last round is as large as the others.
RoundRowsFull(t) == Chunk

\* Rows asked of the generator: a chunk, or what is still missing.
RoundRows(t) == Lower(Chunk, Requested[t] - inserted[t])

\* Rows of each piece of g generated rows; the last one may have fewer.
PieceRows(t, g) ==
    IF Workers = 1 \/ t \in SelfRefs \/ g <= BatchSize THEN g
    ELSE Upper((g + Workers - 1) \div Workers, BatchSize)

Split(t, g) ==
    LET size == PieceRows(t, g)
        count == (g + size - 1) \div size
    IN [i \in 1..count |-> NewPiece(Lower(size, g - (i - 1) * size))]

\* The generator made g rows of those asked for.
Generate ==
    /\ fill = "round"
    /\ ~cancelled
    /\ \E g \in 1..RoundRows(table) : piece' = Split(table, g)
    /\ fill' = "write"
    /\ UNCHANGED <<mode, cancelled, table, tableVars, zeroRounds, refused>>

\* It made none: keys ran out, or every row of a small round collided.
GenerateNothing ==
    /\ fill = "round"
    /\ ~cancelled
    /\ IF zeroRounds + 1 >= MaxZeroRounds
       THEN Stuck(inserted[table])
       ELSE /\ zeroRounds' = zeroRounds + 1
            /\ UNCHANGED <<fill, table, inserted, status, refused, piece>>
    /\ UNCHANGED <<mode, cancelled, stored, rejected>>

GenerateFails ==
    /\ fill = "round"
    /\ ~cancelled
    /\ Stuck(inserted[table])
    /\ UNCHANGED <<mode, cancelled, stored, rejected>>

RoundCancelled ==
    /\ fill = "round"
    /\ cancelled
    /\ Report(inserted[table], TRUE)
    /\ UNCHANGED <<mode, cancelled, stored, rejected>>

(***************************************************************************)
(* insertRows on piece i.                                                  *)
(***************************************************************************)
\* The piece becomes p and n rows land in the table.
Becomes(i, p, n) ==
    /\ piece' = [piece EXCEPT ![i] = p]
    /\ stored' = [stored EXCEPT ![table] = @ + n]
    /\ UNCHANGED <<mode, cancelled, fill, table, inserted, rejected, status, roundVars>>

Ended(p, err) == [p EXCEPT !.step = "ended", !.left = 0, !.batch = 0, !.err = err]

\* A statement of n rows ended with the context: the server may have carried
\* it out all the same.
CutOff(i, n) ==
    /\ cancelled
    /\ \E landed \in {0, n} : Becomes(i, Ended(piece[i], "cancelled"), landed)

\* COPY takes the whole piece or nothing; refused or unsupported, the same
\* rows follow in batches.
Copy(i) ==
    LET p == piece[i]
    IN /\ p.step = "copy"
       /\ \/ mode.copy /\ ~cancelled /\ Becomes(i, [Ended(p, "none") EXCEPT !.in = p.left], p.left)
          \/ ~cancelled /\ Becomes(i, [p EXCEPT !.step = "batch"], 0)
          \/ CutOff(i, IF mode.copy THEN p.left ELSE 0)

Batch(i) ==
    LET p == piece[i]
        n == Lower(BatchSize, p.left)
    IN /\ p.step = "batch"
       /\ n > 0
       /\ \/ ~cancelled /\ Becomes(i, [p EXCEPT !.left = @ - n, !.in = @ + n], n)
          \/ ~cancelled /\ mode.stop /\ Becomes(i, [Ended(p, "failed") EXCEPT !.out = @ + n], 0)
          \/ ~cancelled /\ ~mode.stop
             /\ Becomes(i, [p EXCEPT !.step = "rows", !.left = @ - n, !.batch = n, !.failures = 0], 0)
          \/ CutOff(i, n)

Written(i) ==
    /\ piece[i].step = "batch"
    /\ piece[i].left = 0
    /\ Becomes(i, Ended(piece[i], "none"), 0)

RowIn(i) ==
    LET p == piece[i]
    IN /\ p.step = "rows" /\ p.batch > 0 /\ ~cancelled
       /\ Becomes(i, [p EXCEPT !.batch = @ - 1, !.in = @ + 1, !.failures = 0], 1)

\* MaxRowFailures refused rows in a row abandon the rest of the piece.
RowOut(i) ==
    LET p == piece[i]
        q == [p EXCEPT !.batch = @ - 1, !.out = @ + 1, !.failures = @ + 1]
    IN /\ p.step = "rows" /\ p.batch > 0 /\ ~cancelled
       /\ Becomes(i, IF q.failures >= MaxRowFailures THEN Ended(q, "none") ELSE q, 0)

\* The driver reports a cancelled statement.  If the run's own context still
\* runs, that is no error: the piece just ends.
RowCutOff(i) ==
    LET p == piece[i]
    IN /\ p.step = "rows" /\ p.batch > 0
       /\ \/ ~cancelled /\ Becomes(i, Ended(p, "none"), 0)
          \/ CutOff(i, 1)

NextBatch(i) ==
    /\ piece[i].step = "rows"
    /\ piece[i].batch = 0
    /\ Becomes(i, [piece[i] EXCEPT !.step = "batch"], 0)

InsertRows(i) ==
    Copy(i) \/ Batch(i) \/ Written(i) \/ RowIn(i) \/ RowOut(i) \/ RowCutOff(i) \/ NextBatch(i)

(***************************************************************************)
(* The end of a round.                                                     *)
(***************************************************************************)
Landed  == SumFunction([i \in DOMAIN piece |-> piece[i].in])
Refused == SumFunction([i \in DOMAIN piece |-> piece[i].out])

\* Mutant of Streak: a round that refused nothing is not counted.
StreakRefusals(in, out) == IF in > 0 THEN 0 ELSE refused + out

\* Rows refused since the last round that inserted any; a round that neither
\* inserted nor refused a row counts as one.
Streak(in, out) == IF in > 0 THEN 0 ELSE refused + Upper(out, 1)

\* rejectBudget()
RejectBudget(t) == 10 * Requested[t] + MaxRowFailures * 4

GivenUp(in, out) ==
    \/ Streak(in, out) >= MaxRowFailures
    \/ rejected[table] + out > RejectBudget(table)

EndRound ==
    /\ fill = "write"
    /\ \A i \in DOMAIN piece : piece[i].step = "ended"
    /\ LET in == Landed
           out == Refused
           now == inserted[table] + in
           failed == \E i \in DOMAIN piece : piece[i].err # "none"
       IN /\ rejected' = [rejected EXCEPT ![table] = @ + out]
          /\ IF failed THEN Report(now, TRUE)
             ELSE IF GivenUp(in, out) THEN Stuck(now)
             ELSE IF now >= Requested[table] THEN Report(now, FALSE)
             ELSE /\ inserted' = [inserted EXCEPT ![table] = now]
                  /\ refused' = Streak(in, out)
                  /\ fill' = "round"
                  /\ piece' = NoPiece
                  /\ UNCHANGED <<table, status, zeroRounds>>
    /\ UNCHANGED <<mode, cancelled, stored>>

FillTerminated == fill = "returned" /\ UNCHANGED fillVars

TableStep == Skip \/ OpenTable \/ OpenFails \/ Return
RoundStep == Generate \/ GenerateNothing \/ GenerateFails \/ RoundCancelled \/ EndRound
WriteStep == fill = "write" /\ \E i \in DOMAIN piece : InsertRows(i)

FillNext == TableStep \/ RoundStep \/ WriteStep \/ Cancel \/ FillTerminated

\* The goroutines of the fill run; nobody has to cancel, and nothing is
\* assumed of what the generator makes or the database refuses.
FillSpec == FillInit /\ [][FillNext]_fillVars /\ WF_fillVars(TableStep \/ RoundStep \/ WriteStep)

(***************************************************************************)
(* What a fill promises.                                                   *)
(***************************************************************************)
Pieces == [step : {"copy", "batch", "rows", "ended"}, left : Nat, batch : Nat, failures : Nat,
           in : Nat, out : Nat, err : {"none", "cancelled", "failed"}]

\* Every variable keeps its type, and the pieces of a round are numbered.
TypeOK ==
    /\ mode \in Modes
    /\ cancelled \in BOOLEAN
    /\ fill \in {"table", "round", "write", "returned"}
    /\ table \in 1..(N + 1)
    /\ stored \in [FillTables -> Nat]
    /\ inserted \in [FillTables -> Nat]
    /\ rejected \in [FillTables -> Nat]
    /\ status \in [FillTables -> {"none", "ok", "partial", "failed"}]
    /\ zeroRounds \in 0..(MaxZeroRounds - 1)
    /\ refused \in 0..(MaxRowFailures - 1)
    /\ DOMAIN piece \in {1..k : k \in 0..(IF table \in SelfRefs THEN 1 ELSE Workers)}
    /\ \A i \in DOMAIN piece : piece[i] \in Pieces

Reports == [t \in FillTables |-> IF status[t] = "none" THEN [inserted |-> 0, status |-> "none"]
                             ELSE [inserted |-> inserted[t], status |-> status[t]]]

Contract == INSTANCE FillContract WITH landed <- stored, reported <- Reports, over <- fill = "returned"

\* The concurrent rounds, retries and give-ups implement FillContract: never a
\* row too many, tables in order, and reports that tell what landed.
ImplementsFillContract == Contract!Spec

\* The fill returns whatever the generator makes and the database refuses.
FillTermination == <>(fill = "returned")
=============================================================================
