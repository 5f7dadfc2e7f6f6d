-------------------------- MODULE SeedPipelineProofs --------------------------
(***************************************************************************)
(* SeedPipeline writes rows in an order the database can accept, and       *)
(* implements OrderedLoad, for every number of tables, workers and         *)
(* generators, every set of foreign keys and every split into pieces.      *)
(* Three more results follow, each from an invariant of its own beside the *)
(* one of the order: the keys a generating table can see are those of a    *)
(* sequential run, the result counts the rows that are in the database,    *)
(* and the budget in use is what the pieces under way were charged.        *)
(***************************************************************************)
EXTENDS SeedPipeline, FiniteSetTheorems, TLAPS

(***************************************************************************)
(* The inductive invariant, by the goroutine whose bookkeeping it states.  *)
(***************************************************************************)
\* Generators: a piece exists only once its table started, all of them do once
\* it generated, and a table starts only after its dependencies generated.
GenInv ==
    /\ \A t \in Tables :
        /\ gen[t] \in {"waiting", "skipped", "running", "blocked"} => t \notin closed
        /\ gen[t] \in {"close", "generated", "failed"} => t \in closed
        /\ t \in broken => gen[t] \in {"signal", "close", "failed"}
        /\ gen[t] = "failed" => failed
        /\ gen[t] = "skipped" => failed \/ (Generators > 1 /\ cancelled)
        /\ gen[t] \notin {"waiting", "skipped"} => \A d \in GenDeps(t) : gen[d] = "generated"
    /\ \A q \in Piece :
        /\ gen[q[1]] \in {"waiting", "skipped"} => stage[q] = "unmade"
        /\ stage[q] = "unmade" => q[1] \notin closed \/ q[1] \in broken
    /\ \A q, r \in Piece :
        (q[1] = r[1] /\ r[2] < q[2] /\ stage[q] # "unmade") => stage[r] # "unmade"

\* Dispatchers: one piece is handed at a time, parents are done before a table
\* leaves "parents", and a table that drained has nothing left to write.  What
\* follows a cancellation is weaker: dispatchers give up in any order.
DispInv ==
    /\ \A t \in Tables :
        /\ (~cancelled /\ disp[t] # "parents") => \A p \in WriteParents(t) : disp[p] = "done"
        /\ (~cancelled /\ disp[t] \in {"drain", "done"}) => t \in closed
    /\ \A q \in Piece :
        /\ disp[q[1]] = "parents" => stage[q] \in {"unmade", "queued"}
        /\ stage[q] = "handed" => disp[q[1]] = "handing"
        /\ (~cancelled /\ disp[q[1]] \in {"drain", "done"}) => stage[q] # "queued"
        /\ (~cancelled /\ disp[q[1]] = "done") => stage[q] \in {"unmade", "over"}
        /\ (Ordered(q[1]) /\ disp[q[1]] # "await") => stage[q] \notin InWorker
    /\ \A q, r \in Piece :
        /\ (q[1] = r[1] /\ stage[q] = "handed" /\ stage[r] = "handed") => q = r
        /\ (~cancelled /\ Ordered(q[1]) /\ q[1] = r[1] /\ r[2] < q[2] /\ stage[q] \in InWorker \union {"handed"})
               => stage[r] = "over"

\* Pieces: what the database holds follows from where the piece is.
RowInv ==
    \A q \in Piece :
        /\ stage[q] \in {"dropped", "refused"} => cancelled
        /\ (~cancelled /\ stage[q] = "over") => rows[q] = "all"
        /\ stage[q] = "inserted" => rows[q] = "all"
        /\ rows[q] # "none" => stage[q] \in {"inserted", "refused", "over"}

\* WritesInOrder, for the pieces being written too.
OrderInv ==
    \A q \in Piece :
        (stage[q] = "writing" \/ rows[q] # "none") => \A r \in Before(q) : rows[r] = "all"

\* The main goroutine: after the join nothing moves.
MainInv ==
    /\ main # "generate" => \A t \in Tables : gen[t] \in GenOver
    /\ (main # "generate" /\ ~cancelled) => ~failed
    /\ main = "returned" => (\A t \in Tables : disp[t] = "done") /\ Working = {}

IInv == TypeOK /\ GenInv /\ DispInv /\ RowInv /\ OrderInv /\ MainInv

LEMMA PieceFacts ==
    /\ \A q \in Piece : q[1] \in Tables /\ q[2] \in Nat /\ q = <<q[1], q[2]>> /\ Cost(q) \in Nat
    /\ \A t \in Tables : \A q \in PiecesOf(t) : q \in Piece /\ q[1] = t
    BY RunAssumption DEF Piece, PiecesOf, Tables, Cost

\* A cancelled run stays cancelled.
LEMMA StaysCancelled ==
  ASSUME UserCancels \/ GenerationEnds \/ Return \/ Terminated \/ UNCHANGED vars
  PROVE  cancelled => cancelled'
  BY Zenon DEF UserCancels, GenerationEnds, Return, Terminated, vars

LEMMA TypeInit == Init => TypeOK
  <1> SUFFICES ASSUME Init PROVE TypeOK OBVIOUS
  <1> USE DEF Init
  <1>1. main \in {"generate", "wait", "returned"} /\ cancelled \in BOOLEAN /\ failed \in BOOLEAN
    OBVIOUS
  <1>2. closed \subseteq Tables /\ broken \subseteq closed /\ recorded \subseteq closed
    OBVIOUS
  <1>2a. wake \subseteq Tables /\ tabled \subseteq Tables /\ erred \subseteq Piece /\ used \in Int OBVIOUS
  <1>3. gen \in [Tables -> GenActive \union GenOver \union {"waiting"}] OBVIOUS
  <1>4. keys \in [Tables -> {"absent", "merged", "released"}] OBVIOUS
  <1>5. stage \in [Piece -> {"unmade", "queued", "handed", "dropped", "over"} \union InWorker] OBVIOUS
  <1>6. rows \in [Piece -> {"none", "some", "all"}] /\ tally \in [Tables -> Nat] OBVIOUS
  <1>7. disp \in [Tables -> {"parents", "next", "asleep", "handing", "await", "drain", "done"}] OBVIOUS
  <1> QED BY <1>1, <1>2, <1>2a, <1>3, <1>4, <1>5, <1>6, <1>7 DEF TypeOK

LEMMA TypeStep == ASSUME TypeOK, GenInv, [Next]_vars PROVE TypeOK'
  <1> USE PieceFacts DEF TypeOK, GenActive, GenOver, InWorker, genVars, outVars
  <1>1. ASSUME NEW t \in Tables, GenStep(t) PROVE TypeOK'
    <2>0. CASE Start(t) \/ Skip(t)
      BY <2>0 DEF Start, Skip
    <2>1a. CASE Signal(t) BY <2>1a DEF Signal
    <2>1b. CASE Fail(t) BY <2>1b DEF Fail
    <2>2. CASE SubmitFails(t) \/ GenerateFails(t) \/ GenerateEnds(t)
      BY <2>2 DEF SubmitFails, GenerateFails, GenerateEnds, Leave
    <2>3. ASSUME NEW q \in PiecesOf(t), Submit(t, q) PROVE TypeOK'
      BY <2>3 DEF Submit
    <2>4. ASSUME NEW q \in PiecesOf(t), Block(t, q) PROVE TypeOK'
      BY <2>4 DEF Block
    <2>5. CASE Generated(t)
      <3>1. t \in closed BY <2>5 DEF Generated, GenInv
      <3> QED BY <2>5, <3>1 DEF Generated, MergeTable
    <2> QED BY <1>1, <2>0, <2>1a, <2>1b, <2>2, <2>3, <2>4, <2>5 DEF GenStep
  <1>2. ASSUME NEW t \in Tables, DispatchStep(t) PROVE TypeOK'
    <2> USE DEF DispatchTo
    <2>1. CASE ParentsWritten(t) BY <2>1 DEF ParentsWritten
    <2>2. CASE Discard(t) BY <2>2 DEF Discard
    <2>3. CASE Drained(t) BY <2>3 DEF Drained
    <2>4. CASE Wake(t) BY <2>4 DEF Wake
    <2>5. CASE Finished(t) BY <2>5 DEF Finished
    <2>6. CASE Done(t) BY <2>6 DEF Done
    <2>7. ASSUME NEW q \in PiecesOf(t), Take(t, q) PROVE TypeOK'
      BY <2>7 DEF Take
    <2>8. ASSUME NEW q \in PiecesOf(t), HandOff(q) PROVE TypeOK'
      BY <2>8 DEF HandOff
    <2>9. ASSUME NEW q \in PiecesOf(t), HandOffCancelled(q) PROVE TypeOK'
      BY <2>9 DEF HandOffCancelled
    <2> QED BY <1>2, <2>1, <2>2, <2>3, <2>4, <2>5, <2>6, <2>7, <2>8, <2>9 DEF DispatchStep
  <1>3. ASSUME NEW q \in Piece, PieceStep(q) PROVE TypeOK'
    <2> USE DEF Move, Release
    <2>1. CASE Write(q) \/ WriteCancelled(q) BY <2>1 DEF Write, WriteCancelled
    <2>2. CASE Insert(q) BY <2>2 DEF Insert
    <2>3. CASE Written(q) BY <2>3 DEF Written
    <2>4. CASE Drop(q) BY <2>4 DEF Drop
    <2>5. ASSUME NEW left \in {"none", "some", "all"}, Refuse(q, left) PROVE TypeOK'
      BY <2>5 DEF Refuse
    <2> QED BY <1>3, <2>1, <2>2, <2>3, <2>4, <2>5 DEF PieceStep
  <1>4. CASE GenerationEnds
    <2>1. cancelled' \in BOOLEAN BY <1>4, Zenon DEF GenerationEnds
    <2> QED BY <1>4, <2>1 DEF GenerationEnds
  <1>5. CASE UserCancels
    <2>1. cancelled' \in BOOLEAN BY <1>5, Zenon DEF UserCancels
    <2> QED BY <1>5, <2>1 DEF UserCancels
  <1>6. CASE Return \/ Terminated \/ UNCHANGED vars
    <2>1. cancelled' \in BOOLEAN BY <1>6, Zenon DEF Return, Terminated, vars
    <2> QED BY <1>6, <2>1 DEF Return, Terminated, vars
  <1> QED BY <1>1, <1>2, <1>3, <1>4, <1>5, <1>6 DEF Next

(***************************************************************************)
(* The generators' bookkeeping.                                            *)
(***************************************************************************)
LEMMA GenInit == Init => GenInv
  BY PieceFacts DEF Init, GenInv

\* GenInv sees the pieces only as made or unmade, and the rest of the run only
\* as cancelled or not.
LEMMA GenFrame ==
  ASSUME GenInv, UNCHANGED <<gen, closed, broken, failed>>, cancelled => cancelled',
         \A q \in Piece : (stage'[q] = "unmade") = (stage[q] = "unmade")
  PROVE  GenInv'
  BY PieceFacts DEF GenInv

LEMMA GenStepInv == ASSUME IInv, [Next]_vars PROVE GenInv'
  <1> USE PieceFacts DEF genVars, outVars
  <1>0. TypeOK /\ GenInv BY DEF IInv
  <1>1. ASSUME NEW t \in Tables, GenStep(t) PROVE GenInv'
    <2> USE <1>0 DEF TypeOK, GenInv
    <2>1. CASE Start(t)
      <3>1. \A d \in GenDeps(t) : gen[d] = "generated"
        BY <2>1 DEF Start, GenOver, GenDeps
      <3> QED BY <2>1, <3>1 DEF Start, GenDeps
    <2>2. CASE Skip(t) BY <2>2 DEF Skip, GenDeps
    <2>3. CASE SubmitFails(t) BY <2>3 DEF SubmitFails, Leave, GenDeps
    <2>4. CASE GenerateFails(t) BY <2>4 DEF GenerateFails, Leave, GenDeps
    <2>5. CASE GenerateEnds(t)
      BY <2>5 DEF GenerateEnds, Leave, GenDeps, Unmade, PiecesOf
    <2>6. ASSUME NEW q \in PiecesOf(t), Submit(t, q) PROVE GenInv'
      BY <2>6 DEF Submit, GenDeps, Unmade, PiecesOf, IsFirst
    <2>7. ASSUME NEW q \in PiecesOf(t), Block(t, q) PROVE GenInv'
      BY <2>7 DEF Block, GenDeps
    <2>8. CASE Signal(t) BY <2>8 DEF Signal, GenDeps
    <2>9. CASE Fail(t) BY <2>9 DEF Fail, GenDeps
    <2>10. CASE Generated(t) BY <2>10 DEF Generated, GenDeps
    <2> QED BY <1>1, <2>1, <2>2, <2>3, <2>4, <2>5, <2>6, <2>7, <2>8, <2>9, <2>10 DEF GenStep
  <1> USE DEF InWorker
  <1>2. ASSUME NEW t \in Tables, DispatchStep(t) PROVE GenInv'
    <2> SUFFICES /\ UNCHANGED <<gen, closed, broken, failed, cancelled>>
                 /\ \A r \in Piece : (stage'[r] = "unmade") = (stage[r] = "unmade")
      BY <1>0, GenFrame
    <2> USE DEF TypeOK
    <2>1. CASE ParentsWritten(t) \/ Drained(t) \/ Wake(t) \/ Finished(t) \/ Done(t)
      BY <2>1 DEF ParentsWritten, Drained, Wake, Finished, Done
    <2>2. CASE Discard(t) BY <1>0, <2>2 DEF Discard, Queue
    <2>3. ASSUME NEW q \in PiecesOf(t), Take(t, q) \/ HandOff(q) \/ HandOffCancelled(q)
          PROVE  /\ UNCHANGED <<gen, closed, broken, failed, cancelled>>
                 /\ \A r \in Piece : (stage'[r] = "unmade") = (stage[r] = "unmade")
      BY <1>0, <2>3 DEF Take, HandOff, HandOffCancelled, IsFirst, Queue
    <2> QED BY <1>2, <2>1, <2>2, <2>3 DEF DispatchStep
  <1>3. ASSUME NEW q \in Piece, PieceStep(q) PROVE GenInv'
    <2> SUFFICES /\ UNCHANGED <<gen, closed, broken, failed>>
                 /\ cancelled => cancelled'
                 /\ \A r \in Piece : (stage'[r] = "unmade") = (stage[r] = "unmade")
      BY <1>0, GenFrame
    <2>1. CASE Write(q) \/ WriteCancelled(q) \/ Insert(q) \/ Written(q) \/ Drop(q)
      BY <1>0, <2>1 DEF Write, WriteCancelled, Insert, Written, Drop, Release, Move, TypeOK
    <2>2. ASSUME NEW left \in {"none", "some", "all"}, Refuse(q, left)
          PROVE  /\ UNCHANGED <<gen, closed, broken, failed>>
                 /\ cancelled => cancelled'
                 /\ \A r \in Piece : (stage'[r] = "unmade") = (stage[r] = "unmade")
      BY <1>0, <2>2 DEF Refuse, Move, TypeOK
    <2> QED BY <1>3, <2>1, <2>2 DEF PieceStep
  <1>4. CASE UserCancels \/ GenerationEnds \/ Return \/ Terminated \/ UNCHANGED vars
    <2>1. UNCHANGED <<gen, closed, broken, failed, stage>>
      BY <1>4 DEF UserCancels, GenerationEnds, Return, Terminated, vars
    <2> QED BY <1>0, <1>4, <2>1, StaysCancelled, GenFrame
  <1> QED BY <1>1, <1>2, <1>3, <1>4 DEF Next

(***************************************************************************)
(* The dispatchers' bookkeeping.                                           *)
(***************************************************************************)
LEMMA DispInit == Init => DispInv
  BY PieceFacts DEF Init, DispInv, InWorker

LEMMA DispFrame ==
  ASSUME DispInv, UNCHANGED <<disp, stage>>, closed \subseteq closed', cancelled => cancelled'
  PROVE  DispInv'
  BY DEF DispInv

LEMMA DispStepInv == ASSUME IInv, [Next]_vars PROVE DispInv'
  <1> USE PieceFacts DEF genVars, outVars
  <1>0. TypeOK /\ GenInv /\ DispInv /\ RowInv BY DEF IInv
  <1>1. ASSUME NEW t \in Tables, GenStep(t) PROVE DispInv'
    <2>1. CASE Start(t) \/ Skip(t) \/ Signal(t) \/ Fail(t)
      BY <1>0, <2>1, DispFrame DEF Start, Skip, Signal, Fail
    <2>2. CASE SubmitFails(t) \/ GenerateFails(t) \/ GenerateEnds(t)
      BY <1>0, <2>2, DispFrame DEF SubmitFails, GenerateFails, GenerateEnds, Leave
    <2>3. CASE Generated(t)
      BY <1>0, <2>3, DispFrame DEF Generated
    <2>4. ASSUME NEW q \in PiecesOf(t), Block(t, q) PROVE DispInv'
      BY <1>0, <2>4, DispFrame DEF Block
    <2>5. ASSUME NEW q \in PiecesOf(t), Submit(t, q) PROVE DispInv'
      <3>1. t \notin closed BY <1>0, <2>5 DEF Submit, GenInv
      <3>2. q \in Piece /\ q[1] = t /\ stage[q] = "unmade" BY <2>5 DEF Submit, IsFirst, Unmade
      <3>3. \A r \in Piece : stage'[r] = IF r = q THEN "queued" ELSE stage[r]
        BY <1>0, <2>5, <3>2 DEF Submit, TypeOK
      <3>4. UNCHANGED <<cancelled, disp, closed>> BY <2>5 DEF Submit
      <3> QED BY <1>0, <3>1, <3>2, <3>3, <3>4 DEF DispInv, InWorker
    <2> QED BY <1>1, <2>1, <2>2, <2>3, <2>4, <2>5 DEF GenStep
  <1>2. ASSUME NEW t \in Tables, DispatchStep(t) PROVE DispInv'
    <2> USE <1>0 DEF TypeOK, DispInv, DispatchTo, InWorker
    <2>1. CASE ParentsWritten(t) BY <2>1 DEF ParentsWritten
    <2>2. CASE Discard(t) BY <2>2 DEF Discard, Queue, PiecesOf
    <2>3. CASE Drained(t) BY <2>3 DEF Drained, Queue, PiecesOf
    <2>4. CASE Wake(t) BY <2>4 DEF Wake
    <2>5. CASE Finished(t) BY <2>5 DEF Finished, InFlight, PiecesOf
    <2>6. CASE Done(t) BY <2>6 DEF Done, InFlight, PiecesOf
    <2>7. ASSUME NEW q \in PiecesOf(t), Take(t, q) PROVE DispInv'
      BY <2>7 DEF Take, Queue, PiecesOf, IsFirst, GenInv, RowInv
    <2>8. ASSUME NEW q \in PiecesOf(t), HandOff(q) PROVE DispInv'
      BY <2>8 DEF HandOff
    <2>9. ASSUME NEW q \in PiecesOf(t), HandOffCancelled(q) PROVE DispInv'
      BY <2>9 DEF HandOffCancelled
    <2> QED BY <1>2, <2>1, <2>2, <2>3, <2>4, <2>5, <2>6, <2>7, <2>8, <2>9 DEF DispatchStep
  <1>3. ASSUME NEW q \in Piece, PieceStep(q) PROVE DispInv'
    <2> USE <1>0 DEF TypeOK, DispInv, InWorker, Move, Release
    <2>1. CASE Write(q) BY <2>1 DEF Write
    <2>2. CASE WriteCancelled(q) BY <2>2 DEF WriteCancelled
    <2>3. CASE Insert(q) BY <2>3 DEF Insert
    <2>4. CASE Written(q) BY <2>4 DEF Written
    <2>5. CASE Drop(q) BY <2>5 DEF Drop, RowInv
    <2>6. ASSUME NEW left \in {"none", "some", "all"}, Refuse(q, left) PROVE DispInv'
      BY <2>6 DEF Refuse
    <2> QED BY <1>3, <2>1, <2>2, <2>3, <2>4, <2>5, <2>6 DEF PieceStep
  <1>4. CASE UserCancels \/ GenerationEnds \/ Return \/ Terminated \/ UNCHANGED vars
    <2>1. UNCHANGED <<disp, stage, closed>>
      BY <1>4 DEF UserCancels, GenerationEnds, Return, Terminated, vars
    <2> QED BY <1>0, <1>4, <2>1, StaysCancelled, DispFrame
  <1> QED BY <1>1, <1>2, <1>3, <1>4 DEF Next

(***************************************************************************)
(* What the database holds.                                                *)
(***************************************************************************)
LEMMA RowInit == Init => RowInv
  BY DEF Init, RowInv

LEMMA RowFrame ==
  ASSUME RowInv, UNCHANGED <<rows, stage>>, cancelled => cancelled'
  PROVE  RowInv'
  BY DEF RowInv

LEMMA RowStepInv == ASSUME IInv, [Next]_vars PROVE RowInv'
  <1> USE PieceFacts DEF genVars, outVars
  <1>0. TypeOK /\ RowInv BY DEF IInv
  <1>1. ASSUME NEW t \in Tables, GenStep(t) PROVE RowInv'
    <2>1. CASE Start(t) \/ Skip(t) \/ Signal(t) \/ Fail(t) \/ Generated(t)
      BY <1>0, <2>1, RowFrame DEF Start, Skip, Signal, Fail, Generated
    <2>2. CASE SubmitFails(t) \/ GenerateFails(t) \/ GenerateEnds(t)
      BY <1>0, <2>2, RowFrame DEF SubmitFails, GenerateFails, GenerateEnds, Leave
    <2>3. ASSUME NEW q \in PiecesOf(t), Block(t, q) PROVE RowInv'
      BY <1>0, <2>3, RowFrame DEF Block
    <2>4. ASSUME NEW q \in PiecesOf(t), Submit(t, q) PROVE RowInv'
      BY <1>0, <2>4 DEF Submit, IsFirst, Unmade, RowInv, TypeOK
    <2> QED BY <1>1, <2>1, <2>2, <2>3, <2>4 DEF GenStep
  <1>2. ASSUME NEW t \in Tables, DispatchStep(t) PROVE RowInv'
    <2>1. CASE ParentsWritten(t) \/ Drained(t) \/ Wake(t) \/ Finished(t) \/ Done(t)
      BY <1>0, <2>1, RowFrame DEF ParentsWritten, Drained, Wake, Finished, Done
    <2> USE <1>0 DEF TypeOK, RowInv, InWorker
    <2>2. CASE Discard(t) BY <2>2 DEF Discard, Queue
    <2>3. ASSUME NEW q \in PiecesOf(t), Take(t, q) PROVE RowInv'
      BY <2>3 DEF Take, IsFirst, Queue
    <2>4. ASSUME NEW q \in PiecesOf(t), HandOff(q) PROVE RowInv'
      BY <2>4 DEF HandOff
    <2>5. ASSUME NEW q \in PiecesOf(t), HandOffCancelled(q) PROVE RowInv'
      BY <2>5 DEF HandOffCancelled
    <2> QED BY <1>2, <2>1, <2>2, <2>3, <2>4, <2>5 DEF DispatchStep
  <1>3. ASSUME NEW q \in Piece, PieceStep(q) PROVE RowInv'
    <2> USE <1>0 DEF TypeOK, RowInv, InWorker, Move, Release
    <2>1. CASE Write(q) BY <2>1 DEF Write
    <2>2. CASE WriteCancelled(q) BY <2>2 DEF WriteCancelled
    <2>3. CASE Insert(q) BY <2>3 DEF Insert
    <2>4. CASE Written(q) BY <2>4 DEF Written
    <2>5. CASE Drop(q) BY <2>5 DEF Drop
    <2>6. ASSUME NEW left \in {"none", "some", "all"}, Refuse(q, left) PROVE RowInv'
      BY <2>6 DEF Refuse
    <2> QED BY <1>3, <2>1, <2>2, <2>3, <2>4, <2>5, <2>6 DEF PieceStep
  <1>4. CASE UserCancels \/ GenerationEnds \/ Return \/ Terminated \/ UNCHANGED vars
    <2>1. UNCHANGED <<rows, stage>>
      BY <1>4 DEF UserCancels, GenerationEnds, Return, Terminated, vars
    <2> QED BY <1>0, <1>4, <2>1, StaysCancelled, RowFrame
  <1> QED BY <1>1, <1>2, <1>3, <1>4 DEF Next

(***************************************************************************)
(* The order of writes.                                                    *)
(***************************************************************************)
LEMMA OrderInit == Init => OrderInv
  BY DEF Init, OrderInv

LEMMA BeforeFacts == \A q \in Piece : Before(q) \subseteq Piece
  BY DEF Before

\* A step that starts no write and leaves the database alone.
LEMMA OrderFrame ==
  ASSUME OrderInv, UNCHANGED rows,
         \A q \in Piece : stage'[q] = "writing" => stage[q] = "writing"
  PROVE  OrderInv'
  BY DEF OrderInv, Before

\* The heart of the argument.  When a worker passes the context check, the
\* dispatcher has seen every parent's dispatcher done with the run not yet
\* cancelled: all they made was written, and since the table generates they
\* made everything.
LEMMA ReadyToWrite ==
  ASSUME IInv, NEW q \in Piece, stage[q] = "accepted", ~cancelled, NEW r \in Before(q)
  PROVE  rows[r] = "all"
  <1> USE PieceFacts
  <1>0. TypeOK /\ GenInv /\ DispInv /\ RowInv /\ r \in Piece BY DEF IInv, Before
  <1>1. CASE r[1] \in WriteParents(q[1])
    <2>1. disp[q[1]] # "parents" BY <1>0 DEF DispInv
    <2>2. disp[r[1]] = "done" BY <1>0, <1>1, <2>1 DEF DispInv
    <2>3. stage[r] \in {"unmade", "over"} BY <1>0, <2>2 DEF DispInv
    <2>4. gen[q[1]] \notin {"waiting", "skipped"} BY <1>0 DEF GenInv
    <2>5. r[1] \in GenDeps(q[1]) BY <1>0, <1>1 DEF WriteParents, GenDeps, Readers, Parents
    <2>6. gen[r[1]] = "generated" BY <1>0, <2>4, <2>5 DEF GenInv
    <2>7. r[1] \in closed /\ r[1] \notin broken BY <1>0, <2>6 DEF GenInv
    <2>8. stage[r] = "over" BY <1>0, <2>3, <2>7 DEF GenInv
    <2> QED BY <1>0, <2>8 DEF RowInv
  <1>2. CASE r[1] = q[1] /\ Ordered(q[1]) /\ r[2] < q[2]
    <2>1. stage[r] = "over" BY <1>0, <1>2 DEF DispInv, InWorker
    <2> QED BY <1>0, <2>1 DEF RowInv
  <1> QED BY <1>1, <1>2 DEF Before

LEMMA OrderStepInv == ASSUME IInv, [Next]_vars PROVE OrderInv'
  <1> USE PieceFacts DEF genVars, outVars
  <1>0. TypeOK /\ RowInv /\ OrderInv BY DEF IInv
  <1>1. ASSUME NEW t \in Tables, GenStep(t) PROVE OrderInv'
    <2> SUFFICES UNCHANGED rows /\ \A r \in Piece : stage'[r] = "writing" => stage[r] = "writing"
      BY <1>0, OrderFrame
    <2>1. CASE Start(t) \/ Skip(t) \/ Signal(t) \/ Fail(t) \/ Generated(t)
      BY <2>1 DEF Start, Skip, Signal, Fail, Generated
    <2>2. CASE SubmitFails(t) \/ GenerateFails(t) \/ GenerateEnds(t)
      BY <2>2 DEF SubmitFails, GenerateFails, GenerateEnds, Leave
    <2>3. ASSUME NEW q \in PiecesOf(t), Submit(t, q) \/ Block(t, q)
          PROVE  UNCHANGED rows /\ \A r \in Piece : stage'[r] = "writing" => stage[r] = "writing"
      BY <1>0, <2>3 DEF Submit, Block, TypeOK
    <2> QED BY <1>1, <2>1, <2>2, <2>3 DEF GenStep
  <1>2. ASSUME NEW t \in Tables, DispatchStep(t) PROVE OrderInv'
    <2> SUFFICES UNCHANGED rows /\ \A r \in Piece : stage'[r] = "writing" => stage[r] = "writing"
      BY <1>0, OrderFrame
    <2>1. CASE ParentsWritten(t) \/ Drained(t) \/ Wake(t) \/ Finished(t) \/ Done(t)
      BY <2>1 DEF ParentsWritten, Drained, Wake, Finished, Done
    <2>2. CASE Discard(t) BY <1>0, <2>2 DEF Discard, TypeOK
    <2>3. ASSUME NEW q \in PiecesOf(t), Take(t, q) \/ HandOff(q) \/ HandOffCancelled(q)
          PROVE  UNCHANGED rows /\ \A r \in Piece : stage'[r] = "writing" => stage[r] = "writing"
      BY <1>0, <2>3 DEF Take, HandOff, HandOffCancelled, TypeOK
    <2> QED BY <1>2, <2>1, <2>2, <2>3 DEF DispatchStep
  <1>3. ASSUME NEW q \in Piece, PieceStep(q) PROVE OrderInv'
    <2> USE DEF Move, Release
    <2>1. CASE Write(q)
      <3>1. \A r \in Before(q) : rows[r] = "all" BY <2>1, ReadyToWrite DEF Write
      <3>2. \A r \in Piece : r # q => stage'[r] = stage[r] BY <1>0, <2>1 DEF Write, TypeOK
      <3> QED BY <1>0, <2>1, <3>1, <3>2 DEF Write, OrderInv, Before
    <2>2. CASE WriteCancelled(q) \/ Written(q) \/ Drop(q)
      BY <1>0, <2>2, OrderFrame DEF WriteCancelled, Written, Drop, TypeOK
    <2>3. ASSUME NEW left \in {"none", "some", "all"}, stage[q] = "writing",
                 rows' = [rows EXCEPT ![q] = left], \A r \in Piece : r # q => stage'[r] = stage[r]
          PROVE  OrderInv'
      <3>1. rows[q] = "none" BY <1>0, <2>3 DEF TypeOK, RowInv
      <3>2. \A r \in Piece : (stage[r] = "writing" \/ rows[r] # "none") => q \notin Before(r)
        BY <1>0, <3>1 DEF OrderInv
      <3>3. \A r \in Piece : r # q => rows'[r] = rows[r] BY <1>0, <2>3 DEF TypeOK
      <3>4. \A r \in Piece : (stage'[r] = "writing" \/ rows'[r] # "none")
                                 => stage[r] = "writing" \/ rows[r] # "none"
        BY <2>3, <3>3
      <3> QED BY <1>0, <3>2, <3>3, <3>4 DEF OrderInv, Before
    <2>4. CASE Insert(q) BY <1>0, <2>3, <2>4 DEF Insert, TypeOK
    <2>5. ASSUME NEW left \in {"none", "some", "all"}, Refuse(q, left) PROVE OrderInv'
      BY <1>0, <2>3, <2>5 DEF Refuse, TypeOK
    <2> QED BY <1>3, <2>1, <2>2, <2>4, <2>5 DEF PieceStep
  <1>4. CASE UserCancels \/ GenerationEnds \/ Return \/ Terminated \/ UNCHANGED vars
    <2>1. UNCHANGED <<rows, stage>>
      BY <1>4 DEF UserCancels, GenerationEnds, Return, Terminated, vars
    <2> QED BY <1>0, <2>1, OrderFrame
  <1> QED BY <1>1, <1>2, <1>3, <1>4 DEF Next

(***************************************************************************)
(* The main goroutine.                                                     *)
(***************************************************************************)
LEMMA MainInit == Init => MainInv
  BY DEF Init, MainInv

LEMMA MainStepInv == ASSUME IInv, [Next]_vars PROVE MainInv'
  <1> USE PieceFacts DEF genVars, outVars
  <1>0. TypeOK /\ GenInv /\ DispInv /\ MainInv BY DEF IInv
  <1> USE <1>0 DEF TypeOK, MainInv, Working
  <1>1. ASSUME NEW t \in Tables, GenStep(t) PROVE MainInv'
    <2> USE DEF GenOver, GenActive
    <2>1. CASE Start(t) BY <2>1 DEF Start
    <2>2. CASE Skip(t) BY <2>2 DEF Skip
    <2>3. CASE SubmitFails(t) \/ GenerateFails(t) \/ GenerateEnds(t)
      BY <2>3 DEF SubmitFails, GenerateFails, GenerateEnds, Leave
    <2>4. CASE Signal(t) BY <2>4 DEF Signal
    <2>5. CASE Fail(t) BY <2>5 DEF Fail
    <2>6. CASE Generated(t) BY <2>6 DEF Generated
    <2>7. ASSUME NEW q \in PiecesOf(t), Submit(t, q) PROVE MainInv'
      BY <2>7 DEF Submit, InWorker
    <2>8. ASSUME NEW q \in PiecesOf(t), Block(t, q) PROVE MainInv'
      BY <2>8 DEF Block
    <2> QED BY <1>1, <2>1, <2>2, <2>3, <2>4, <2>5, <2>6, <2>7, <2>8 DEF GenStep
  <1>2. ASSUME NEW t \in Tables, DispatchStep(t) PROVE MainInv'
    <2>0. \A q \in PiecesOf(t) : stage[q] = "handed" => disp[t] = "handing"
      BY DEF DispInv
    <2>1. disp[t] # "done"
      BY <1>2, <2>0 DEF DispatchStep, ParentsWritten, Discard, Drained, Wake, Finished, Done,
                        Take, HandOff, HandOffCancelled
    <2>2. main # "returned" BY <2>1
    <2>3. UNCHANGED <<main, gen, cancelled, failed>>
      BY <1>2 DEF DispatchStep, ParentsWritten, Discard, Drained, Wake, Finished, Done,
                  Take, HandOff, HandOffCancelled
    <2> QED BY <2>2, <2>3
  <1>3. ASSUME NEW q \in Piece, PieceStep(q) PROVE MainInv'
    <2>1. UNCHANGED <<main, gen, failed, disp>> /\ (cancelled => cancelled')
      BY <1>3 DEF PieceStep, Write, WriteCancelled, Insert, Written, Drop, Refuse, Move, Release
    <2>2. CASE main # "returned" BY <2>1, <2>2
    <2>3. CASE main = "returned"
      <3>1. stage[q] = "dropped"
        BY <1>3, <2>3 DEF PieceStep, Write, WriteCancelled, Insert, Written, Drop, Refuse, InWorker
      <3>2. stage' = [stage EXCEPT ![q] = "over"]
        BY <1>3, <3>1 DEF PieceStep, Write, WriteCancelled, Insert, Written, Drop, Refuse, Move, Release
      <3> QED BY <2>1, <2>3, <3>2 DEF InWorker
    <2> QED BY <2>2, <2>3
  <1>4. CASE UserCancels BY <1>4 DEF UserCancels
  <1>5. CASE GenerationEnds BY <1>5 DEF GenerationEnds
  <1>6. CASE Return BY <1>6 DEF Return
  <1>7. CASE Terminated \/ UNCHANGED vars BY <1>7 DEF Terminated, vars
  <1> QED BY <1>1, <1>2, <1>3, <1>4, <1>5, <1>6, <1>7 DEF Next

(***************************************************************************)
(* The theorems.                                                           *)
(***************************************************************************)
LEMMA Inductive == Spec => []IInv
  <1>1. Init => IInv
    BY TypeInit, GenInit, DispInit, RowInit, OrderInit, MainInit DEF IInv
  <1>2. IInv /\ [Next]_vars => IInv'
    <2> SUFFICES ASSUME IInv, [Next]_vars PROVE IInv' OBVIOUS
    <2>1. TypeOK' BY TypeStep DEF IInv
    <2> QED BY <2>1, GenStepInv, DispStepInv, RowStepInv, OrderStepInv, MainStepInv DEF IInv
  <1> QED BY <1>1, <1>2, PTL DEF Spec

\* Every variable keeps its type, and a table whose generator failed has a
\* closed writer, in every run.
THEOREM TypeCorrect == Spec => []TypeOK
  <1>1. IInv => TypeOK BY DEF IInv
  <1> QED BY <1>1, Inductive, PTL

\* In every run of every size, a row reaches the database only after every row
\* it may reference: parents first, self-references in generation order.
THEOREM WritesAreOrdered == Spec => []WritesInOrder
  <1>1. IInv => WritesInOrder BY DEF IInv, OrderInv, WritesInOrder
  <1> QED BY <1>1, Inductive, PTL

(***************************************************************************)
(* SeedPipeline implements OrderedLoad.                                    *)
(***************************************************************************)
\* A run returns nil only when everything is in the database.
LEMMA SuccessIsComplete ==
  ASSUME IInv, Return, ~cancelled
  PROVE  \A q \in Piece : rows[q] = "all"
  <1> USE PieceFacts
  <1>0. TypeOK /\ GenInv /\ DispInv /\ RowInv /\ MainInv BY DEF IInv
  <1>1. \A t \in Tables : gen[t] \in GenOver /\ disp[t] = "done" /\ ~failed
    BY <1>0 DEF MainInv, Return
  <1>2. \A t \in Tables : gen[t] = "generated"
    <2> SUFFICES ASSUME NEW t \in Tables PROVE gen[t] = "generated" OBVIOUS
    <2>1. gen[t] # "failed" BY <1>0, <1>1 DEF GenInv
    <2>2. gen[t] # "skipped" BY <1>0, <1>1 DEF GenInv
    <2> QED BY <1>1, <2>1, <2>2 DEF GenOver
  <1>3. \A t \in Tables : t \in closed /\ t \notin broken
    BY <1>0, <1>2 DEF GenInv
  <1>4. \A q \in Piece : stage[q] = "over"
    BY <1>0, <1>1, <1>3 DEF GenInv, DispInv
  <1> QED BY <1>0, <1>4 DEF RowInv

\* Every step is a step of OrderedLoad, or leaves what it sees unchanged.
LEMMA StepRefines ==
  ASSUME IInv, [Next]_vars
  PROVE  [Load!Next]_(Load!loadVars)
  <1> USE PieceFacts DEF genVars, outVars, Load!loadVars
  <1>0. TypeOK /\ RowInv /\ OrderInv /\ MainInv BY DEF IInv
  <1>1. ASSUME UNCHANGED <<rows, main>>, main # "returned" \/ UNCHANGED cancelled
        PROVE  [Load!Next]_(Load!loadVars)
    BY <1>1
  <1>2. ASSUME NEW t \in Tables, GenStep(t) PROVE [Load!Next]_(Load!loadVars)
    BY <1>1, <1>2 DEF GenStep, Start, Skip, SubmitFails, GenerateFails, GenerateEnds, Leave,
                      Submit, Block, Signal, Fail, Generated
  <1>3. ASSUME NEW t \in Tables, DispatchStep(t) PROVE [Load!Next]_(Load!loadVars)
    BY <1>1, <1>3 DEF DispatchStep, ParentsWritten, Discard, Drained, Wake, Finished, Done,
                      Take, HandOff, HandOffCancelled
  <1>4. ASSUME NEW q \in Piece, PieceStep(q) PROVE [Load!Next]_(Load!loadVars)
    <2>1. CASE Write(q) \/ WriteCancelled(q) \/ Written(q) \/ Drop(q)
      BY <1>1, <2>1 DEF Write, WriteCancelled, Written, Drop, Release, Move
    <2>2. ASSUME stage[q] = "writing"
          PROVE  main # "returned" /\ rows[q] = "none" /\ \A r \in Before(q) : rows[r] = "all"
      BY <1>0, <2>2 DEF MainInv, Working, InWorker, RowInv, OrderInv, TypeOK
    <2>3. CASE Insert(q)
      <3>1. Load!Load(q) BY <2>2, <2>3 DEF Insert, Load!Load, Load!Ready
      <3> QED BY <3>1 DEF Load!Next
    <2>3a. ASSUME Refuse(q, "all") PROVE [Load!Next]_(Load!loadVars)
      <3>1. Load!Load(q) BY <2>2, <2>3a DEF Refuse, Load!Load, Load!Ready
      <3> QED BY <3>1 DEF Load!Next
    <2>4. ASSUME Refuse(q, "some") PROVE [Load!Next]_(Load!loadVars)
      <3>1. Load!Spoil(q) BY <2>2, <2>4 DEF Refuse, Load!Spoil, Load!Ready
      <3> QED BY <3>1 DEF Load!Next
    <2>5. ASSUME Refuse(q, "none") PROVE [Load!Next]_(Load!loadVars)
      <3>1. rows' = rows BY <1>0, <2>2, <2>5 DEF Refuse, TypeOK
      <3> QED BY <1>1, <2>2, <2>5, <3>1 DEF Refuse
    <2> QED BY <1>4, <2>1, <2>3, <2>3a, <2>4, <2>5 DEF PieceStep
  <1>5. CASE UserCancels \/ Terminated \/ UNCHANGED vars
    BY <1>1, <1>5 DEF UserCancels, Terminated, vars
  <1>6. CASE GenerationEnds
    BY <1>6 DEF GenerationEnds
  <1>7. CASE Return
    <2>1. CASE cancelled
      <3>1. Load!Fail BY <1>7, <2>1 DEF Return, Load!Fail
      <3> QED BY <3>1 DEF Load!Next
    <2>2. CASE ~cancelled
      <3>1. Load!Succeed BY <1>7, <2>2, SuccessIsComplete DEF Return, Load!Succeed
      <3> QED BY <3>1 DEF Load!Next
    <2> QED BY <2>1, <2>2
  <1> QED BY <1>2, <1>3, <1>4, <1>5, <1>6, <1>7 DEF Next

\* The pipeline implements the load it promises: pieces in a valid order, each
\* at most once, and success only when all of them are in the database.
THEOREM Refinement == Spec => ImplementsOrderedLoad
  <1>1. Init => Load!Init BY DEF Init, Load!Init
  <1> QED BY <1>1, StepRefines, Inductive, PTL DEF Spec, ImplementsOrderedLoad, Load!Spec

(***************************************************************************)
(* Key pools.                                                              *)
(***************************************************************************)
\* A table's keys are in the stream once it has generated, until every table
\* that reads them has.
KeyInv ==
    /\ recorded = {t \in Tables : gen[t] = "generated"}
    /\ \A p \in Tables :
          /\ keys[p] = "absent" <=> p \notin recorded
          /\ keys[p] = "released" => Readers(p) \subseteq recorded

LEMMA KeyInit == Init => KeyInv
  BY DEF Init, KeyInv

LEMMA KeyFrame ==
  ASSUME KeyInv, UNCHANGED <<keys, recorded>>,
         \A t \in Tables : gen'[t] = "generated" <=> gen[t] = "generated"
  PROVE  KeyInv'
  BY DEF KeyInv, Readers, Parents

LEMMA KeyStep == ASSUME TypeOK, KeyInv, [Next]_vars PROVE KeyInv'
  <1> USE PieceFacts DEF genVars, outVars
  <1>1. ASSUME NEW t \in Tables, GenStep(t) PROVE KeyInv'
    <2> USE DEF TypeOK
    <2>1. CASE Start(t) \/ Skip(t) \/ Signal(t) \/ Fail(t)
      BY <2>1, KeyFrame DEF Start, Skip, Signal, Fail
    <2>2. CASE SubmitFails(t) \/ GenerateFails(t) \/ GenerateEnds(t)
      BY <2>2, KeyFrame DEF SubmitFails, GenerateFails, GenerateEnds, Leave
    <2>3. ASSUME NEW q \in PiecesOf(t), Submit(t, q) \/ Block(t, q) PROVE KeyInv'
      BY <2>3, KeyFrame DEF Submit, Block
    <2>4. CASE Generated(t)
      <3>1. recorded' = {u \in Tables : gen'[u] = "generated"}
        BY <2>4 DEF Generated, KeyInv
      <3>2. \A p \in Tables : keys'[p] = IF p \in Releasable(t, recorded') THEN "released"
                                         ELSE IF p = t THEN "merged" ELSE keys[p]
        BY <2>4 DEF Generated, MergeTable
      <3>3. recorded' = recorded \union {t}
        BY <2>4 DEF Generated
      <3>4. \A p \in Releasable(t, recorded') : p \in recorded' /\ Readers(p) \subseteq recorded'
        BY DEF Releasable
      <3>5. \A p \in Tables : Readers(p)' = Readers(p)
        BY DEF Readers, Parents
      <3>6. ASSUME NEW p \in Tables
            PROVE  /\ keys'[p] = "absent" <=> p \notin recorded'
                   /\ keys'[p] = "released" => Readers(p) \subseteq recorded'
        <4>1. CASE p \in Releasable(t, recorded')
          BY <3>2, <3>4, <4>1
        <4>2. CASE p \notin Releasable(t, recorded')
          <5>1. keys'[p] = IF p = t THEN "merged" ELSE keys[p]
            BY <3>2, <4>2
          <5> QED
            BY <3>3, <5>1 DEF KeyInv
        <4> QED
          BY <4>1, <4>2
      <3> QED
        BY <3>1, <3>5, <3>6 DEF KeyInv
    <2> QED BY <1>1, <2>1, <2>2, <2>3, <2>4 DEF GenStep
  <1>2. ASSUME NEW t \in Tables, DispatchStep(t) PROVE KeyInv'
    <2>1. UNCHANGED <<gen, keys, recorded>>
      BY <1>2 DEF DispatchStep, ParentsWritten, Discard, Drained, Wake, Finished, Done,
                  Take, HandOff, HandOffCancelled
    <2> QED BY <2>1, KeyFrame
  <1>3. ASSUME NEW q \in Piece, PieceStep(q) PROVE KeyInv'
    <2>1. UNCHANGED <<gen, keys, recorded>>
      BY <1>3 DEF PieceStep, Write, WriteCancelled, Insert, Written, Drop, Refuse
    <2> QED BY <2>1, KeyFrame
  <1>4. CASE UserCancels \/ GenerationEnds \/ Return \/ Terminated \/ UNCHANGED vars
    <2>1. UNCHANGED <<gen, keys, recorded>>
      BY <1>4 DEF UserCancels, GenerationEnds, Return, Terminated, vars
    <2> QED BY <2>1, KeyFrame
  <1> QED BY <1>1, <1>2, <1>3, <1>4 DEF Next

\* Of two tables one of which references the other, the later one starts when
\* the earlier has generated.
LEMMA KeysAreThere == ASSUME IInv, KeyInv PROVE KeysWhileGenerating
  <1> SUFFICES ASSUME NEW t \in Active, NEW p \in Parents(t)
               PROVE  keys[p] = IF p < t THEN "merged" ELSE "absent"
    BY DEF KeysWhileGenerating
  <1>1. t \in Tables /\ p \in Tables /\ p # t /\ t \in Readers(p) /\ gen[t] \in GenActive
    BY DEF Active, Parents, Readers
  <1>2. t \notin recorded
    BY <1>1 DEF KeyInv, GenActive
  <1>3. CASE p < t
    <2>1. p \in GenDeps(t) BY <1>1, <1>3 DEF GenDeps
    <2>2. gen[p] = "generated"
      BY <1>1, <2>1 DEF IInv, GenInv, GenActive
    <2>3. keys[p] # "absent" /\ keys[p] # "released"
      BY <1>1, <1>2, <2>2 DEF KeyInv
    <2> QED BY <1>1, <1>3, <2>3 DEF IInv, TypeOK
  <1>4. CASE ~(p < t)
    <2>1. t < p BY <1>1, <1>4, RunAssumption DEF Tables
    <2>2. t \in GenDeps(p) BY <1>1, <2>1 DEF GenDeps
    <2>3. gen[p] # "generated"
      <3> SUFFICES ASSUME gen[p] = "generated" PROVE gen[t] = "generated"
        BY <1>1 DEF GenActive
      <3> QED BY <1>1, <2>2 DEF IInv, GenInv
    <2> QED BY <1>1, <1>4, <2>3 DEF KeyInv
  <1> QED BY <1>3, <1>4

\* While a table generates it sees the keys of the earlier tables it references,
\* not yet released, and none of a later one's: what it would see if the tables
\* ran one after the other (seed.go:223-228).
THEOREM KeysAsInSequence == Spec => []KeysWhileGenerating
  <1>1. Spec => []KeyInv
    <2>1. IInv /\ KeyInv /\ [Next]_vars => KeyInv'
      BY KeyStep DEF IInv
    <2> QED BY KeyInit, <2>1, Inductive, PTL DEF Spec
  <1>2. IInv /\ KeyInv => KeysWhileGenerating
    BY KeysAreThere
  <1> QED BY <1>1, <1>2, Inductive, PTL

(***************************************************************************)
(* The result.                                                             *)
(***************************************************************************)
\* The pieces the tally of t has counted.
Stored(q)  == stage[q] = "over" /\ rows[q] = "all" /\ q \notin erred
Counted(t) == {q \in PiecesOf(t) : Stored(q)}

\* Why a reported table may lack rows.
Excused(t) == gen[t] = "skipped" \/ t \in broken
InFull(t)  == \A q \in PiecesOf(t) : rows[q] = "all"

TallyInv  == \A t \in Tables : tally[t] = Cardinality(Counted(t))

\* A worker holds at most one piece, and after the first error none begins to
\* write another one: those that err are among those that were being written.
Writing   == {q \in Piece : stage[q] = "writing"}
ErredInv ==
    /\ \A q \in erred : stage[q] \in {"refused", "over"}
    /\ \A q \in Piece : stage[q] = "refused" => q \in erred
    /\ erred # {} => cancelled
    /\ Cardinality(Working) <= Workers
    /\ Cardinality(erred \union Writing) <= Workers

TabledInv == \A t \in Tables : /\ ~cancelled /\ disp[t] = "done" => t \in tabled
                               /\ t \in tabled => Excused(t) \/ InFull(t)

LEMMA PiecesFinite == ASSUME NEW t \in Tables PROVE IsFiniteSet(PiecesOf(t))
  <1> DEFINE n == Len(Charge[t])
  <1> DEFINE f == [q \in PiecesOf(t) |-> q[2]]
  <1>1. n \in Nat BY RunAssumption
  <1>2. \A q \in PiecesOf(t) : q = <<t, q[2]>> /\ q[2] \in 1..n
    BY PieceFacts DEF PiecesOf, Piece
  <1>3. f \in Injection(PiecesOf(t), 1..n)
    BY <1>2 DEF Injection, IsInjective
  <1>4. IsFiniteSet(1..n) BY <1>1, FS_Interval
  <1> QED BY <1>3, <1>4, FS_Injection

LEMMA PieceFinite == IsFiniteSet(Piece)
  <1> DEFINE All == {PiecesOf(t) : t \in Tables}
  <1>1. IsFiniteSet(Tables) BY RunAssumption, FS_Interval DEF Tables
  <1> DEFINE f == [t \in Tables |-> PiecesOf(t)]
  <1>2. IsFiniteSet(All)
    <2>1. f \in Surjection(Tables, All) BY DEF Surjection
    <2> HIDE DEF f, All
    <2> QED BY <1>1, <2>1, FS_Surjection
  <1>3. \A S \in All : IsFiniteSet(S) BY PiecesFinite
  <1>4. Piece = UNION All BY PieceFacts DEF PiecesOf
  <1> HIDE DEF All
  <1> QED BY <1>2, <1>3, <1>4, FS_UNION

LEMMA OneMore ==
  ASSUME NEW S, IsFiniteSet(S), NEW x, x \notin S
  PROVE  Cardinality(S \union {x}) = Cardinality(S) + 1
  <1>1. Cardinality(S \cup {x}) = IF x \in S THEN Cardinality(S) ELSE Cardinality(S) + 1
    BY FS_AddElement, Zenon
  <1> QED BY <1>1

LEMMA TallyInit == Init => TallyInv
  <1> SUFFICES ASSUME Init, NEW t \in Tables PROVE tally[t] = Cardinality(Counted(t))
    BY DEF TallyInv
  <1>1. Counted(t) = {} BY PieceFacts DEF Init, Counted, Stored
  <1> QED BY <1>1, FS_EmptySet DEF Init

LEMMA TallyFrame ==
  ASSUME TallyInv, UNCHANGED tally,
         \A q \in Piece : Stored(q)' <=> Stored(q)
  PROVE  TallyInv'
  <1>1. \A t \in Tables : Counted(t)' = Counted(t)
    BY PieceFacts DEF Counted, PiecesOf
  <1> QED BY <1>1 DEF TallyInv

\* Only a worker that has inserted a piece counts one, and the one it inserted.
LEMMA TallyStep == ASSUME TypeOK, RowInv, ErredInv, TallyInv, [Next]_vars PROVE TallyInv'
  <1> USE PieceFacts DEF genVars, outVars
  <1>1. ASSUME NEW t \in Tables, GenStep(t) PROVE TallyInv'
    <2>1. CASE Start(t) \/ Skip(t) \/ Signal(t) \/ Fail(t) \/ Generated(t)
      BY <2>1, TallyFrame DEF Start, Skip, Signal, Fail, Generated, Stored
    <2>2. CASE SubmitFails(t) \/ GenerateFails(t) \/ GenerateEnds(t)
      BY <2>2, TallyFrame DEF SubmitFails, GenerateFails, GenerateEnds, Leave, Stored
    <2>3. ASSUME NEW q \in PiecesOf(t), Submit(t, q) \/ Block(t, q) PROVE TallyInv'
      BY <2>3, TallyFrame DEF Submit, Block, Stored, IsFirst, Unmade, TypeOK
    <2> QED BY <1>1, <2>1, <2>2, <2>3 DEF GenStep
  <1>2. ASSUME NEW t \in Tables, DispatchStep(t) PROVE TallyInv'
    <2> USE DEF TypeOK, RowInv
    <2>1. CASE ParentsWritten(t) \/ Drained(t) \/ Wake(t) \/ Finished(t) \/ Done(t)
      BY <2>1, TallyFrame DEF ParentsWritten, Drained, Wake, Finished, Done, Stored
    <2>2. CASE Discard(t) BY <2>2, TallyFrame DEF Discard, Queue, Stored
    <2>3. ASSUME NEW q \in PiecesOf(t), Take(t, q) \/ HandOff(q) PROVE TallyInv'
      BY <2>3, TallyFrame DEF Take, HandOff, IsFirst, Queue, Stored
    <2>4. ASSUME NEW q \in PiecesOf(t), HandOffCancelled(q) PROVE TallyInv'
      BY <2>4, TallyFrame DEF HandOffCancelled, Stored
    <2> QED BY <1>2, <2>1, <2>2, <2>3, <2>4 DEF DispatchStep
  <1>3. ASSUME NEW q \in Piece, PieceStep(q) PROVE TallyInv'
    <2> USE DEF TypeOK, RowInv, Move, Release
    <2>1. CASE Write(q) \/ WriteCancelled(q)
      BY <2>1, TallyFrame DEF Write, WriteCancelled, Stored
    <2>2. CASE Insert(q) BY <2>2, TallyFrame DEF Insert, Stored
    <2>3. CASE Drop(q) BY <2>3, TallyFrame DEF Drop, Stored, ErredInv
    <2>4. ASSUME NEW left \in {"none", "some", "all"}, Refuse(q, left) PROVE TallyInv'
      BY <2>4, TallyFrame DEF Refuse, Stored
    <2>5. CASE Written(q)
      <3>1. /\ stage[q] = "inserted" /\ rows[q] = "all" /\ rows' = rows
            /\ q \notin erred /\ erred' = erred
            /\ stage' = [stage EXCEPT ![q] = "over"]
            /\ tally' = [tally EXCEPT ![q[1]] = @ + 1]
        BY <2>5 DEF Written, ErredInv
      <3> SUFFICES ASSUME NEW t \in Tables PROVE tally'[t] = Cardinality(Counted(t)')
        BY DEF TallyInv
      <3>2. CASE t = q[1]
        <4>1. Counted(t)' = Counted(t) \union {q} /\ q \notin Counted(t)
          BY <3>1, <3>2 DEF Counted, Stored, PiecesOf
        <4>2. IsFiniteSet(Counted(t))
          BY PiecesFinite, FS_Subset DEF Counted
        <4> DEFINE C == Counted(t)
        <4>3. Cardinality(C \union {q}) = Cardinality(C) + 1
          <5> HIDE DEF C
          <5>1. q \notin C /\ IsFiniteSet(C) BY <4>1, <4>2 DEF C
          <5> QED BY <5>1, OneMore
        <4> QED BY <3>1, <3>2, <4>1, <4>3 DEF TallyInv
      <3>3. CASE t # q[1]
        <4>1. Counted(t)' = Counted(t)
          BY <3>1, <3>3 DEF Counted, Stored, PiecesOf
        <4> QED BY <3>1, <3>3, <4>1 DEF TallyInv
      <3> QED BY <3>2, <3>3
    <2> QED BY <1>3, <2>1, <2>2, <2>3, <2>4, <2>5 DEF PieceStep
  <1>4. CASE UserCancels \/ GenerationEnds \/ Return \/ Terminated \/ UNCHANGED vars
    BY <1>4, TallyFrame DEF UserCancels, GenerationEnds, Return, Terminated, vars, Stored
  <1> QED BY <1>1, <1>2, <1>3, <1>4 DEF Next

LEMMA ErredInit == Init => ErredInv
  <1> SUFFICES ASSUME Init PROVE ErredInv OBVIOUS
  <1>1. erred = {} /\ Working = {} /\ Writing = {} BY DEF Init, Working, Writing, InWorker
  <1>2. \A q \in Piece : stage[q] # "refused" BY DEF Init
  <1>3. Workers \in Nat BY RunAssumption
  <1> QED BY <1>1, <1>2, <1>3, FS_EmptySet DEF ErredInv

\* A set of pieces is at most as large as one it is part of.
LEMMA AtMost ==
  ASSUME NEW S, NEW T \in SUBSET Piece, S \subseteq T, Cardinality(T) <= Workers
  PROVE  Cardinality(S) <= Workers
  <1>1. IsFiniteSet(T) BY PieceFinite, FS_Subset
  <1>2. IsFiniteSet(S) /\ Cardinality(S) <= Cardinality(T) BY <1>1, FS_Subset
  <1>3. Cardinality(S) \in Nat /\ Cardinality(T) \in Nat BY <1>1, <1>2, FS_CardinalityType
  <1> QED BY <1>2, <1>3, RunAssumption

\* What no worker's step touches.
LEMMA ErredFrame ==
  ASSUME TypeOK, ErredInv, UNCHANGED erred, cancelled => cancelled',
         \A q \in Piece :
            /\ stage'[q] \in InWorker => stage[q] \in InWorker
            /\ stage'[q] = "writing" => stage[q] = "writing"
            /\ stage'[q] = "refused" => stage[q] = "refused"
            /\ q \in erred => stage'[q] \in {"refused", "over"}
  PROVE  ErredInv'
  <1>1. Working \in SUBSET Piece /\ Working' \subseteq Working BY DEF Working
  <1>2. Cardinality(Working') <= Workers BY <1>1, AtMost DEF ErredInv
  <1>3. erred \union Writing \in SUBSET Piece /\ (erred \union Writing)' \subseteq erred \union Writing
    BY DEF Writing, TypeOK
  <1>4. Cardinality((erred \union Writing)') <= Workers BY <1>3, AtMost DEF ErredInv
  <1> QED BY <1>2, <1>4 DEF ErredInv, TypeOK

LEMMA ErredStep == ASSUME TypeOK, RowInv, ErredInv, [Next]_vars PROVE ErredInv'
  <1> USE PieceFacts DEF genVars, outVars
  <1>1. ASSUME NEW t \in Tables, GenStep(t) PROVE ErredInv'
    <2>1. CASE Start(t) \/ Skip(t) \/ Signal(t) \/ Fail(t) \/ Generated(t)
      BY <2>1, ErredFrame DEF Start, Skip, Signal, Fail, Generated, ErredInv
    <2>2. CASE SubmitFails(t) \/ GenerateFails(t) \/ GenerateEnds(t)
      BY <2>2, ErredFrame DEF SubmitFails, GenerateFails, GenerateEnds, Leave, ErredInv
    <2>3. ASSUME NEW q \in PiecesOf(t), Submit(t, q) \/ Block(t, q) PROVE ErredInv'
      BY <2>3, ErredFrame DEF Submit, Block, IsFirst, Unmade, ErredInv, TypeOK, InWorker
    <2> QED BY <1>1, <2>1, <2>2, <2>3 DEF GenStep
  <1>2. ASSUME NEW t \in Tables, DispatchStep(t) PROVE ErredInv'
    <2>1. CASE ParentsWritten(t) \/ Drained(t) \/ Wake(t) \/ Finished(t) \/ Done(t)
      BY <2>1, ErredFrame DEF ParentsWritten, Drained, Wake, Finished, Done, ErredInv
    <2>2. CASE Discard(t)
      BY <2>2, ErredFrame DEF Discard, Queue, ErredInv, TypeOK, InWorker
    <2>3. ASSUME NEW q \in PiecesOf(t), Take(t, q) \/ HandOffCancelled(q) PROVE ErredInv'
      BY <2>3, ErredFrame DEF Take, HandOffCancelled, IsFirst, Queue, ErredInv, TypeOK, InWorker
    <2>4. ASSUME NEW q \in PiecesOf(t), HandOff(q) PROVE ErredInv'
      <3>1. /\ stage[q] = "handed" /\ Cardinality(Working) < Workers
            /\ stage' = [stage EXCEPT ![q] = "accepted"]
            /\ UNCHANGED <<erred, cancelled>>
        BY <2>4 DEF HandOff
      <3>2. Working' = Working \union {q} /\ q \notin Working
        BY <3>1 DEF Working, InWorker, TypeOK
      <3>3. Working \in SUBSET Piece BY DEF Working
      <3>4. IsFiniteSet(Working) BY <3>3, PieceFinite, FS_Subset
      <3>5. Cardinality(Working') = Cardinality(Working) + 1
        <4> DEFINE W == Working
        <4>1. q \notin W /\ IsFiniteSet(W) BY <3>2, <3>4
        <4> HIDE DEF W
        <4>2. Cardinality(W \union {q}) = Cardinality(W) + 1 BY <4>1, OneMore
        <4> QED BY <3>2, <4>2 DEF W
      <3>6. Cardinality(Working) \in Nat BY <3>4, FS_CardinalityType
      <3>7. Cardinality(Working') <= Workers BY <3>1, <3>5, <3>6, RunAssumption
      <3>8. Writing' = Writing BY <3>1 DEF Writing, TypeOK
      <3>9. Cardinality((erred \union Writing)') <= Workers BY <3>1, <3>8 DEF ErredInv
      <3> QED BY <3>1, <3>7, <3>9 DEF ErredInv, TypeOK
    <2> QED BY <1>2, <2>1, <2>2, <2>3, <2>4 DEF DispatchStep
  <1>3. ASSUME NEW q \in Piece, PieceStep(q) PROVE ErredInv'
    <2> USE DEF Move, Release
    <2>1. CASE WriteCancelled(q) \/ Insert(q) \/ Written(q) \/ Drop(q)
      BY <2>1, ErredFrame DEF WriteCancelled, Insert, Written, Drop, ErredInv, TypeOK, InWorker
    <2>2. CASE Write(q)
      <3>1. /\ stage[q] = "accepted" /\ ~cancelled /\ ~cancelled'
            /\ stage' = [stage EXCEPT ![q] = "writing"] /\ erred' = erred
        BY <2>2 DEF Write
      <3>2. erred = {} BY <3>1 DEF ErredInv
      <3>3. Working' = Working BY <3>1 DEF Working, InWorker, TypeOK
      <3>4. Working \in SUBSET Piece /\ (erred \union Writing)' \subseteq Working
        BY <3>1, <3>2, <3>3 DEF Writing, Working, InWorker
      <3>5. Cardinality((erred \union Writing)') <= Workers BY <3>4, AtMost DEF ErredInv
      <3>6. Cardinality(Working') <= Workers BY <3>3 DEF ErredInv
      <3> QED BY <3>1, <3>2, <3>5, <3>6 DEF ErredInv, TypeOK
    <2>3. ASSUME NEW left \in {"none", "some", "all"}, Refuse(q, left) PROVE ErredInv'
      <3>1. /\ stage[q] = "writing" /\ cancelled'
            /\ stage' = [stage EXCEPT ![q] = "refused"] /\ erred' = erred \union {q}
        BY <2>3 DEF Refuse
      <3>2. Working' = Working BY <3>1 DEF Working, InWorker, TypeOK
      <3>3. Cardinality(Working') <= Workers BY <3>2 DEF ErredInv
      <3>4. (erred \union Writing)' = erred \union Writing BY <3>1 DEF Writing, TypeOK
      <3>5. Cardinality((erred \union Writing)') <= Workers BY <3>4 DEF ErredInv
      <3> QED BY <3>1, <3>3, <3>5 DEF ErredInv, TypeOK
    <2> QED BY <1>3, <2>1, <2>2, <2>3 DEF PieceStep
  <1>4. CASE UserCancels \/ GenerationEnds \/ Return \/ Terminated \/ UNCHANGED vars
    BY <1>4, ErredFrame DEF UserCancels, GenerationEnds, Return, Terminated, vars, ErredInv, TypeOK
  <1> QED BY <1>1, <1>2, <1>3, <1>4 DEF Next

\* What excuses a table stays, and so do stored rows.
LEMMA TabledFrame ==
  ASSUME TabledInv, UNCHANGED <<disp, tabled>>, cancelled => cancelled',
         \A t \in Tables : Excused(t) => Excused(t)',
         \A q \in Piece : rows[q] = "all" => rows'[q] = "all"
  PROVE  TabledInv'
  BY PieceFacts DEF TabledInv, InFull, PiecesOf

\* A table is reported only when none of its pieces is on the way and, unless it
\* broke off, none is still to be made.
LEMMA DoneInFull ==
  ASSUME IInv, NEW t \in Tables, Done(t), ~cancelled
  PROVE  Excused(t) \/ InFull(t)
  <1> SUFFICES ASSUME t \notin broken, NEW q \in PiecesOf(t) PROVE rows[q] = "all"
    BY DEF Excused, InFull
  <1>1. q \in Piece /\ q[1] = t BY PieceFacts
  <1>2. disp[t] = "drain" /\ t \in closed BY DEF Done, IInv, DispInv
  <1>3. stage[q] \notin {"queued", "handed", "dropped", "unmade"} \union InWorker
    BY <1>1, <1>2 DEF Done, InFlight, IInv, DispInv, GenInv
  <1> QED BY <1>1, <1>3 DEF IInv, TypeOK, RowInv

LEMMA TabledStep == ASSUME IInv, TabledInv, [Next]_vars PROVE TabledInv'
  <1> USE PieceFacts DEF genVars, outVars
  <1>0. TypeOK /\ RowInv BY DEF IInv
  <1>1. ASSUME NEW t \in Tables, GenStep(t) PROVE TabledInv'
    <2> USE <1>0 DEF TypeOK, Excused
    <2>1. CASE Start(t) \/ Skip(t) \/ Signal(t) \/ Fail(t) \/ Generated(t)
      BY <2>1, TabledFrame DEF Start, Skip, Signal, Fail, Generated
    <2>2. CASE SubmitFails(t) \/ GenerateFails(t) \/ GenerateEnds(t)
      BY <2>2, TabledFrame DEF SubmitFails, GenerateFails, GenerateEnds, Leave
    <2>3. ASSUME NEW q \in PiecesOf(t), Submit(t, q) \/ Block(t, q) PROVE TabledInv'
      BY <2>3, TabledFrame DEF Submit, Block
    <2> QED BY <1>1, <2>1, <2>2, <2>3 DEF GenStep
  <1>2. ASSUME NEW t \in Tables, DispatchStep(t) PROVE TabledInv'
    <2>1. UNCHANGED <<cancelled, gen, broken, rows>>
      BY <1>2 DEF DispatchStep, ParentsWritten, Discard, Drained, Wake, Finished, Done,
                  Take, HandOff, HandOffCancelled
    <2>2. \A u \in Tables : (Excused(u)' <=> Excused(u)) /\ (InFull(u)' <=> InFull(u))
      BY <2>1 DEF Excused, InFull
    <2>3. CASE Done(t)
      <3>1. /\ disp' = [disp EXCEPT ![t] = "done"]
            /\ cancelled => tabled' = tabled
            /\ ~cancelled => tabled' = tabled \union {t}
        BY <2>3 DEF Done, DispatchTo
      <3>2. CASE cancelled
        BY <1>0, <2>1, <2>2, <3>1, <3>2 DEF TabledInv, TypeOK
      <3>3. CASE ~cancelled
        <4>1. Excused(t) \/ InFull(t) BY <2>3, <3>3, DoneInFull
        <4> QED BY <1>0, <2>1, <2>2, <3>1, <3>3, <4>1 DEF TabledInv, TypeOK
      <3> QED BY <3>2, <3>3
    <2>4. CASE ~Done(t)
      <3>1. UNCHANGED tabled /\ \A u \in Tables : disp'[u] = "done" => disp[u] = "done"
        BY <1>0, <1>2, <2>4 DEF DispatchStep, ParentsWritten, Discard, Drained, Wake, Finished,
                                Take, HandOff, HandOffCancelled, DispatchTo, TypeOK
      <3> QED BY <2>1, <2>2, <3>1 DEF TabledInv
    <2> QED BY <2>3, <2>4
  <1>3. ASSUME NEW q \in Piece, PieceStep(q) PROVE TabledInv'
    <2> USE <1>0 DEF TypeOK, RowInv, Excused, Move, Release
    <2>1. CASE Write(q) \/ WriteCancelled(q) \/ Written(q) \/ Drop(q)
      BY <2>1, TabledFrame DEF Write, WriteCancelled, Written, Drop
    <2>2. CASE Insert(q) BY <2>2, TabledFrame DEF Insert
    <2>3. ASSUME NEW left \in {"none", "some", "all"}, Refuse(q, left) PROVE TabledInv'
      BY <2>3, TabledFrame DEF Refuse
    <2> QED BY <1>3, <2>1, <2>2, <2>3 DEF PieceStep
  <1>4. CASE UserCancels \/ GenerationEnds \/ Return \/ Terminated \/ UNCHANGED vars
    <2>1. /\ UNCHANGED <<disp, tabled, rows>>
          /\ \A t \in Tables : Excused(t) => Excused(t)'
      BY <1>4 DEF UserCancels, GenerationEnds, Return, Terminated, vars, Excused
    <2> QED BY <1>4, <2>1, StaysCancelled, TabledFrame
  <1> QED BY <1>1, <1>2, <1>3, <1>4 DEF Next

LEMMA ResultIsExact ==
  ASSUME IInv, ErredInv, TallyInv, TabledInv
  PROVE  ResultCountsRows
  <1>1. ASSUME main = "returned", NEW t \in Tables
        PROVE  tally[t] = Cardinality({q \in PiecesOf(t) : rows[q] = "all"} \ erred)
    <2>1. \A q \in PiecesOf(t) : rows[q] = "all" /\ q \notin erred => stage[q] = "over"
      BY <1>1, PieceFacts DEF IInv, MainInv, RowInv, Working, InWorker, ErredInv
    <2>2. Counted(t) = {q \in PiecesOf(t) : rows[q] = "all"} \ erred
      BY <2>1 DEF Counted, Stored
    <2> QED BY <2>2 DEF TallyInv
  <1>2. ASSUME main = "returned", ~cancelled PROVE erred = {} /\ tabled = Tables
    BY <1>2 DEF IInv, MainInv, TypeOK, TabledInv, ErredInv
  <1>3. \A t \in tabled : gen[t] = "skipped" \/ t \in broken \/ \A q \in PiecesOf(t) : rows[q] = "all"
    BY DEF IInv, TypeOK, TabledInv, Excused, InFull
  <1>4. Cardinality(erred) <= Workers
    <2>1. erred \union Writing \in SUBSET Piece BY DEF IInv, TypeOK, Writing
    <2> QED BY <2>1, AtMost DEF ErredInv
  <1> QED BY <1>1, <1>2, <1>3, <1>4 DEF ResultCountsRows

\* When a run returns, its result counts exactly the pieces the database holds
\* in full, but for those whose own write ended with an error, at most one per
\* connection however many were on their way, and none in a run without error;
\* such a run has reported every table, and a reported table is complete unless
\* its generation failed or was skipped (seed.go:427-449, writer.go:209-215).
THEOREM ResultIsTrue == Spec => []ResultCountsRows
  <1>1. Init => TabledInv
    BY PieceFacts DEF Init, TabledInv
  <1>2. IInv /\ ErredInv /\ TallyInv /\ TabledInv /\ [Next]_vars
            => ErredInv' /\ TallyInv' /\ TabledInv'
    BY ErredStep, TallyStep, TabledStep DEF IInv
  <1>3. IInv /\ ErredInv /\ TallyInv /\ TabledInv => ResultCountsRows
    BY ResultIsExact
  <1> QED BY <1>1, <1>2, <1>3, ErredInit, TallyInit, Inductive, PTL DEF Spec

(***************************************************************************)
(* The budget.                                                             *)
(***************************************************************************)
LEMMA UnitsCount ==
  ASSUME NEW q \in Piece
  PROVE  /\ IsFiniteSet({q} \X (1..Cost(q)))
         /\ Cardinality({q} \X (1..Cost(q))) = Cost(q)
  <1>1. Cost(q) \in Nat BY PieceFacts
  <1>2. IsFiniteSet(1..Cost(q)) /\ Cardinality(1..Cost(q)) = Cost(q)
    <2>1. Cardinality(1..Cost(q)) = IF 1 > Cost(q) THEN 0 ELSE Cost(q) - 1 + 1
      BY <1>1, FS_Interval
    <2> QED BY <1>1, <2>1, FS_Interval
  <1>3. IsFiniteSet({q}) /\ Cardinality({q}) = 1 BY FS_Singleton
  <1>4. /\ IsFiniteSet({q} \X (1..Cost(q)))
        /\ Cardinality({q} \X (1..Cost(q))) = Cardinality({q}) * Cardinality(1..Cost(q))
    BY <1>2, <1>3, FS_Product
  <1> QED BY <1>1, <1>2, <1>3, <1>4

LEMMA ChargedFinite == ASSUME NEW S \in SUBSET Piece PROVE IsFiniteSet(Charged(S))
  <1> DEFINE All == {{q} \X (1..Cost(q)) : q \in S}
  <1>1. IsFiniteSet(S) BY PieceFinite, FS_Subset
  <1> DEFINE f == [q \in S |-> {q} \X (1..Cost(q))]
  <1>2. IsFiniteSet(All)
    <2>1. f \in Surjection(S, All) BY DEF Surjection
    <2> HIDE DEF f, All
    <2> QED BY <1>1, <2>1, FS_Surjection
  <1>3. \A T \in All : IsFiniteSet(T) BY UnitsCount
  <1>4. Charged(S) = UNION All BY DEF Charged
  <1> HIDE DEF All
  <1> QED BY <1>2, <1>3, <1>4, FS_UNION

\* One more piece is charged its own cost and nothing else.
LEMMA ChargedWith ==
  ASSUME NEW S \in SUBSET Piece, NEW q \in Piece, q \notin S
  PROVE  Cardinality(Charged(S \union {q})) = Cardinality(Charged(S)) + Cost(q)
  <1> DEFINE A == Charged(S)
             B == {q} \X (1..Cost(q))
  <1>1. Charged(S \union {q}) = A \union B BY DEF Charged
  <1>2. A \cap B = {}
    <2>1. \A u \in A : u[1] \in S BY DEF Charged
    <2>2. \A u \in B : u[1] = q OBVIOUS
    <2> QED BY <2>1, <2>2
  <1>3. IsFiniteSet(A) BY ChargedFinite
  <1>4. IsFiniteSet(B) /\ Cardinality(B) = Cost(q) BY UnitsCount
  <1>5. Cost(q) \in Nat BY PieceFacts
  <1> HIDE DEF A, B
  <1>6. Cardinality(A \union B) = Cardinality(A) + Cardinality(B) - Cardinality(A \cap B)
    BY <1>3, <1>4, FS_Union
  <1>7. Cardinality(A) \in Nat BY <1>3, FS_CardinalityType
  <1>8. Cardinality(A \cap B) = 0 BY <1>2, FS_EmptySet
  <1>9. Cardinality(A \union B) = Cardinality(A) + Cost(q)
    BY <1>4, <1>5, <1>6, <1>7, <1>8
  <1> QED BY <1>1, <1>9 DEF A

\* A set that is charged nothing is empty: every piece costs something.
LEMMA ChargedNothing ==
  ASSUME NEW S \in SUBSET Piece, Cardinality(Charged(S)) = 0
  PROVE  S = {}
  <1>1. Charged(S) = {} BY ChargedFinite, FS_EmptySet
  <1>2. \A q \in Piece : Cost(q) \in Nat /\ Cost(q) >= 1
    BY RunAssumption DEF Piece, Cost, Tables
  <1>3. \A q \in S : <<q, 1>> \in Charged(S) BY <1>2 DEF Charged
  <1> QED BY <1>1, <1>3

LEMMA BudgetInit == Init => BudgetExact
  <1> SUFFICES ASSUME Init PROVE BudgetExact OBVIOUS
  <1>1. Holding = {} BY DEF Init, Holding
  <1>2. Charged(Holding) = {} BY <1>1 DEF Charged
  <1> QED BY <1>2, FS_EmptySet, RunAssumption DEF Init, BudgetExact

LEMMA BudgetFrame ==
  ASSUME BudgetExact, UNCHANGED used,
         \A q \in Piece : stage'[q] \in {"unmade", "over"} <=> stage[q] \in {"unmade", "over"}
  PROVE  BudgetExact'
  <1>1. Holding' = Holding BY DEF Holding
  <1>2. Charged(Holding)' = Charged(Holding) BY <1>1 DEF Charged, Cost
  <1> QED BY <1>1, <1>2 DEF BudgetExact

LEMMA BudgetTakes ==
  ASSUME TypeOK, BudgetExact, NEW q \in Piece, stage[q] = "unmade", Fits(Cost(q)),
         used' = used + Cost(q), stage' = [stage EXCEPT ![q] = "queued"]
  PROVE  BudgetExact'
  <1>1. Holding' = Holding \union {q} BY DEF Holding, TypeOK
  <1>2. Holding \in SUBSET Piece /\ q \notin Holding BY DEF Holding
  <1>3. Cardinality(Charged(Holding')) = Cardinality(Charged(Holding)) + Cost(q)
    BY <1>1, <1>2, ChargedWith
  <1>4. used' = Cardinality(Charged(Holding')) BY <1>3 DEF BudgetExact
  <1>5. CASE used = 0
    <2>1. Holding = {} BY <1>2, <1>5, ChargedNothing DEF BudgetExact
    <2>2. Cardinality(Holding') = 1
      <3>1. Holding' = {q} BY <1>1, <2>1
      <3> QED BY <3>1, FS_Singleton
    <2> QED BY <1>4, <2>2 DEF BudgetExact, Charged, Cost
  <1>6. CASE used + Cost(q) <= Limit
    BY <1>4, <1>6 DEF BudgetExact, Charged, Cost
  <1> QED BY <1>5, <1>6 DEF Fits

LEMMA BudgetGives ==
  ASSUME TypeOK, BudgetExact, NEW q \in Piece, stage[q] \notin {"unmade", "over"},
         used' = used - Cost(q), stage' = [stage EXCEPT ![q] = "over"]
  PROVE  BudgetExact'
  <1>1. Holding = Holding' \union {q} /\ q \notin Holding' BY DEF Holding, TypeOK
  <1>2. Holding \in SUBSET Piece /\ Holding' \in SUBSET Piece BY DEF Holding, TypeOK
  <1>3. Cardinality(Charged(Holding)) = Cardinality(Charged(Holding')) + Cost(q)
    BY <1>1, <1>2, ChargedWith
  <1>4. Cost(q) \in Nat BY PieceFacts
  <1>5. Cardinality(Charged(Holding')) \in Nat BY <1>2, ChargedFinite, FS_CardinalityType
  <1>6. used' = Cardinality(Charged(Holding')) BY <1>3, <1>4, <1>5 DEF BudgetExact
  <1>7. CASE used <= Limit
    <2>1. used \in Int /\ Limit \in Nat
      BY RunAssumption DEF TypeOK
    <2>2. used' <= Limit
      BY <1>4, <1>7, <2>1
    <2> QED
      BY <1>6, <2>2 DEF BudgetExact, Charged, Cost
  <1>8. CASE Cardinality(Holding) = 1
    <2>1. Holding' = {}
      <3>1. IsFiniteSet(Holding') BY <1>2, PieceFinite, FS_Subset
      <3> DEFINE H == Holding'
      <3>2. Cardinality(H \union {q}) = Cardinality(H) + 1 BY <1>1, <3>1, OneMore
      <3>3. Cardinality(H) \in Nat BY <3>1, FS_CardinalityType
      <3>4. Cardinality(H \union {q}) = 1 BY <1>1, <1>8
      <3>5. Cardinality(H) = 0 BY <3>2, <3>3, <3>4
      <3> QED BY <3>1, <3>5, FS_EmptySet
    <2>2. Charged(Holding') = {} BY <2>1 DEF Charged
    <2>3. used' = 0 BY <1>6, <2>2, FS_EmptySet
    <2> QED BY <1>6, <2>3, RunAssumption DEF BudgetExact, Charged, Cost
  <1> QED BY <1>7, <1>8 DEF BudgetExact

LEMMA BudgetStep == ASSUME TypeOK, BudgetExact, [Next]_vars PROVE BudgetExact'
  <1> USE PieceFacts DEF genVars, outVars
  <1>1. ASSUME NEW t \in Tables, GenStep(t) PROVE BudgetExact'
    <2>1. CASE Start(t) \/ Skip(t) \/ Signal(t) \/ Fail(t) \/ Generated(t)
      BY <2>1, BudgetFrame DEF Start, Skip, Signal, Fail, Generated
    <2>2. CASE SubmitFails(t) \/ GenerateFails(t) \/ GenerateEnds(t)
      BY <2>2, BudgetFrame DEF SubmitFails, GenerateFails, GenerateEnds, Leave
    <2>3. ASSUME NEW q \in PiecesOf(t), Submit(t, q) PROVE BudgetExact'
      BY <2>3, BudgetTakes DEF Submit, IsFirst, Unmade
    <2>4. ASSUME NEW q \in PiecesOf(t), Block(t, q) PROVE BudgetExact'
      BY <2>4, BudgetFrame DEF Block
    <2> QED BY <1>1, <2>1, <2>2, <2>3, <2>4 DEF GenStep
  <1>2. ASSUME NEW t \in Tables, DispatchStep(t) PROVE BudgetExact'
    <2>1. CASE ParentsWritten(t) \/ Drained(t) \/ Wake(t) \/ Finished(t) \/ Done(t)
      BY <2>1, BudgetFrame DEF ParentsWritten, Drained, Wake, Finished, Done
    <2>2. CASE Discard(t) BY <2>2, BudgetFrame DEF Discard, Queue, TypeOK
    <2>3. ASSUME NEW q \in PiecesOf(t), Take(t, q) \/ HandOff(q) PROVE BudgetExact'
      BY <2>3, BudgetFrame DEF Take, HandOff, IsFirst, Queue, TypeOK
    <2>4. ASSUME NEW q \in PiecesOf(t), HandOffCancelled(q) PROVE BudgetExact'
      BY <2>4, BudgetGives DEF HandOffCancelled
    <2> QED BY <1>2, <2>1, <2>2, <2>3, <2>4 DEF DispatchStep
  <1>3. ASSUME NEW q \in Piece, PieceStep(q) PROVE BudgetExact'
    <2> USE DEF Move, Release
    <2>1. CASE Write(q) \/ Insert(q)
      BY <2>1, BudgetFrame DEF Write, Insert, TypeOK
    <2>2. CASE WriteCancelled(q) \/ Written(q) \/ Drop(q)
      BY <2>2, BudgetGives DEF WriteCancelled, Written, Drop
    <2>3. ASSUME NEW left \in {"none", "some", "all"}, Refuse(q, left) PROVE BudgetExact'
      BY <2>3, BudgetFrame DEF Refuse, TypeOK
    <2> QED BY <1>3, <2>1, <2>2, <2>3 DEF PieceStep
  <1>4. CASE UserCancels \/ GenerationEnds \/ Return \/ Terminated \/ UNCHANGED vars
    BY <1>4, BudgetFrame DEF UserCancels, GenerationEnds, Return, Terminated, vars
  <1> QED BY <1>1, <1>2, <1>3, <1>4 DEF Next

\* In every run, whatever fails, the budget in use is exactly what the pieces
\* between submit and the end of their write were charged, and only one piece
\* alone may exceed the limit (writer.go:299-337).
THEOREM BudgetIsExact == Spec => []BudgetExact
  <1>1. TypeOK /\ BudgetExact /\ [Next]_vars => BudgetExact' BY BudgetStep
  <1> QED BY <1>1, BudgetInit, TypeCorrect, PTL DEF Spec
=============================================================================
