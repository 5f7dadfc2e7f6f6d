------------------------------ MODULE RunPlan ------------------------------
(***************************************************************************)
(* From a request to the tables a run empties and writes: seed, gaps and   *)
(* generate of the web server, the command line and the terminal pages     *)
(* (internal/web/runners.go, internal/cli, internal/tui) over what they    *)
(* share (internal/graph, seeder/gaps.go, faker/partitions.go,             *)
(* db/truncate.go), and from there to the exit code of the process.        *)
(* Mirror and clone, planned elsewhere, are here as one step and its       *)
(* outcome: what is theirs is the way a terminal confirms and leaves them. *)
(*                                                                         *)
(* Each front end is the sequence of the steps its function takes.  A step *)
(* acts, passes or refuses the run.  How rows are written is the pipeline's *)
(* matter: here a table is written, or cannot be for want of a key of a    *)
(* table it requires.                                                      *)
(***************************************************************************)
EXTENDS Wizard

CONSTANTS Requests,  \* the requests made, see Request
          Faults,    \* what can fail: "profile", "count", "truncate", "insert", "act"
          None

VARIABLES
    request,
    at,        \* the step the run is at
    status,    \* "running", "done", "refused", "failed", "stranded", "interrupted" or "cut"
    order,     \* the order the tables of the schema go in
    plan,      \* the tables of the run
    rows,      \* the tables of the database that have rows
    counted,   \* the tables whose rows were counted, and those known to be empty
    emptied,   \* the tables the run has truncated
    made,      \* the tables it has generated rows of
    keys,      \* the tables whose keys it can reference
    cancelled, \* Ctrl+C was pressed in a command
    exit       \* the exit code, None while the process runs

runVars == <<at, status, order, plan, rows, counted, emptied, made, keys>>
vars == <<request, runVars, cancelled, exit, wizardVars>>

\* Mutant of CliGaps: one of the front ends does not apply the ignore list.
CliGapsAll == <<"order", "count", "profile", "gaps", "confirm", "preload", "write">>

\* The functions.  The profile's ignore list is no part of what the terminal
\* pages are given (tui.Profile).
WebSeed     == <<"profile", "order", "select", "ignore", "seedable", "truncate", "preload", "write">>
CliSeed     == <<"profile", "order", "ignore", "seedable", "confirm", "truncate", "preload", "write">>
TuiSeed     == <<"profile", "order", "pages", "truncate", "preload", "write">>
WebGaps     == <<"order", "count", "gaps", "profile", "ignore", "preload", "write">>
CliGaps     == <<"order", "count", "profile", "gaps", "ignore", "confirm", "preload", "write">>
TuiGaps     == <<"order", "count", "profile", "pages", "preload", "write">>
WebGenerate == <<"order", "select", "profile", "ignore", "preload", "write">>
CliGenerate == <<"profile", "order", "ignore", "preload", "write">>
TuiGenerate == <<"profile", "order", "pages", "preload", "write">>
CliMirror   == <<"confirm", "act">>
TuiMirror   == <<"ask", "act">>
CliClone    == <<"act">>
TuiClone    == <<"ask", "act">>

Flow == [webSeed |-> WebSeed, cliSeed |-> CliSeed, tuiSeed |-> TuiSeed,
         webGaps |-> WebGaps, cliGaps |-> CliGaps, tuiGaps |-> TuiGaps,
         webGenerate |-> WebGenerate, cliGenerate |-> CliGenerate, tuiGenerate |-> TuiGenerate,
         cliMirror |-> CliMirror, tuiMirror |-> TuiMirror, cliClone |-> CliClone, tuiClone |-> TuiClone]
Gaps      == {"webGaps", "cliGaps", "tuiGaps"}
Generates == {"webGenerate", "cliGenerate", "tuiGenerate"}
Pages     == {"tuiSeed", "tuiGaps", "tuiGenerate"}
Asking    == {"tuiMirror", "tuiClone"}
Commands  == {"cliSeed", "cliGaps", "cliGenerate", "cliMirror", "cliClone"}

\* A schema keeps its tables in a map: it lists each once (graph.go:29-33).
ASSUME RequestAssumption ==
    /\ \A r \in Requests :
          /\ r.from \in DOMAIN Flow
          /\ r.schema.names \in Seq(TablesOf(r.schema)) /\ IsInjective(r.schema.names)
    /\ None \notin Nat

Schema == request.schema
Tables == TablesOf(Schema)
From   == request.from
Needs(t) == Parents(Schema, t)

\* from: the front end; literal: foreign keys are ignored (disable-fk);
\* bare: an empty seed with truncation asked for, or a mirror with nothing to insert; chosen: tables selected, or none for all;
\* odd: tables that cannot be generated (Unseedable); uncounted: tables whose
\* count fails; filled: tables with rows.
Init ==
    /\ request \in Requests
    /\ at = 1 /\ status = "running"
    /\ order = <<>> /\ plan = {}
    /\ rows = request.filled
    /\ counted = [known |-> {}, empty |-> {}]
    /\ emptied = {} /\ made = {} /\ keys = {}
    /\ cancelled = FALSE /\ exit = None
    /\ WizardInit

\* The run is at this step.  Reading and writing end with the context.
Local == {"profile", "order", "select", "gaps", "seedable", "confirm"}
At(name) ==
    /\ status = "running" /\ exit = None
    /\ at <= Len(Flow[From]) /\ Flow[From][at] = name
    /\ cancelled => name \in Local
Pass == at' = at + 1 /\ UNCHANGED status
End(how) == status' = how /\ UNCHANGED at
Stay == UNCHANGED <<at, status>>

Quiet == UNCHANGED <<request, cancelled, exit, wizardVars>>

\* The profile is compiled; rules that do not fit the schema refuse the run.
ApplyProfile ==
    /\ At("profile")
    /\ Pass \/ ("profile" \in Faults /\ End("refused"))
    /\ Quiet /\ UNCHANGED <<order, plan, rows, counted, emptied, made, keys>>

\* Without foreign keys, any order; a cycle of required ones has none.
Order ==
    /\ At("order")
    /\ IF request.literal
         THEN Pass /\ order' \in SetToSeqs(Tables)
         ELSE /\ order' = TopologicalSort(Schema)
              /\ IF Len(order') < Cardinality(Tables) THEN End("refused") ELSE Pass
    /\ plan' = Tables
    /\ Quiet /\ UNCHANGED <<rows, counted, emptied, made, keys>>

\* ResolveSelection's tables; they go in the order of the schema's.
WithParents(S) == S \cup Ancestors(Schema, S)

Select ==
    /\ At("select")
    /\ plan' = CASE request.chosen = {} -> plan
                 [] request.chosen # {} /\ request.literal -> request.chosen
                 [] OTHER -> Tables \cap WithParents(request.chosen)
    /\ Pass
    /\ Quiet /\ UNCHANGED <<order, rows, counted, emptied, made, keys>>

\* Every table is counted; the ones that cannot be are reported.
Count ==
    /\ At("count")
    /\ LET known == Tables \ request.uncounted
       IN  counted' = [known |-> known, empty |-> known \ rows]
    /\ Pass \/ ("count" \in Faults /\ End("refused"))
    /\ Quiet /\ UNCHANGED <<order, plan, rows, emptied, made, keys>>

GapTables(S) == S \cap counted.empty

\* A selection is closed over the parents that are empty too.
FindGaps ==
    /\ At("gaps")
    /\ plan' = IF request.chosen = {} THEN GapTables(plan)
               ELSE GapTables(WithParents(GapTables(request.chosen)))
    /\ Pass
    /\ Quiet /\ UNCHANGED <<order, rows, counted, emptied, made, keys>>

\* The ignored tables that tables kept require.
Required(kept) == {p \in request.ignored : \E t \in kept : p \in Needs(t)}

\* Without a connection nothing is stored.
Populated == IF From \in Generates THEN {} ELSE rows

\* Mutant of ApplyIgnore: the parents the kept tables need are not looked at.
ApplyIgnoreBlind ==
    /\ At("ignore")
    /\ plan' = plan \ request.ignored
    /\ Pass
    /\ Quiet /\ UNCHANGED <<order, rows, counted, emptied, made, keys>>

\* A kept table needs rows in the ignored tables it requires.  They are looked
\* for now; generate has no database to look in.  Gaps without tables is over.
ApplyIgnore ==
    LET kept == plan \ request.ignored
    IN  /\ At("ignore")
        /\ IF /\ Required(kept) \cap request.uncounted = {}
              /\ Required(kept) \subseteq Populated
             THEN plan' = kept /\ IF From \in Gaps /\ kept = {} THEN End("done") ELSE Pass
             ELSE UNCHANGED plan /\ End("refused")
        /\ Quiet /\ UNCHANGED <<order, rows, counted, emptied, made, keys>>

CheckSeedable ==
    /\ At("seedable")
    /\ IF plan \cap request.odd = {} THEN Pass ELSE End("refused")
    /\ Quiet /\ UNCHANGED <<order, plan, rows, counted, emptied, made, keys>>

\* The command line asks before it truncates, and before it fills.
Confirm ==
    /\ At("confirm")
    /\ Pass \/ (((request.truncate /\ ~request.bare) \/ From \in Gaps) /\ End("refused"))
    /\ Quiet /\ UNCHANGED <<order, plan, rows, counted, emptied, made, keys>>

(***************************************************************************)
(* The terminal pages.                                                     *)
(***************************************************************************)
First    == IF From = "tuiGaps" THEN counted.empty ELSE Tables
Nameless == IF From = "tuiGaps" THEN Tables \ counted.known ELSE {}

Paging ==
    /\ At("pages")
    /\ page \notin {"run", "left"}
    /\ \/ Open(First)
       \/ \E t \in Tables : Toggle(t)
       \/ All(Schema) \/ NoTables \/ Pick(Schema, Nameless)
       \/ From # "tuiGaps" /\ Options(Schema)
       \/ From = "tuiGaps" /\ GapOptions(Schema, Nameless)
       \/ Volumes(From # "tuiGenerate") \/ Review \/ Back \/ Leave
    /\ Stay
    /\ UNCHANGED <<request, order, plan, rows, counted, emptied, made, keys, cancelled, exit>>

Paged ==
    /\ At("pages")
    /\ page \in {"run", "left"}
    /\ IF page = "run" THEN plan' = ToSet(shown) /\ Pass ELSE UNCHANGED plan /\ End("refused")
    /\ Quiet /\ UNCHANGED <<order, rows, counted, emptied, made, keys>>

(***************************************************************************)
(* Emptying and writing.                                                   *)
(***************************************************************************)
Skip ==
    /\ At("truncate")
    /\ ~request.truncate
    /\ Pass
    /\ Quiet /\ UNCHANGED <<order, plan, rows, counted, emptied, made, keys>>

\* A bare seed only empties.
Truncated == IF request.bare THEN End("done") ELSE Pass

Empty(S) == rows' = rows \ S /\ emptied' = emptied \cup S

\* PostgreSQL: one statement, with every table that references them.
TruncateCascade ==
    /\ At("truncate") /\ request.truncate /\ request.engine = "pgx"
    /\ plan # {}
    /\ Empty(plan \cup Descendants(Schema, plan))
    /\ Truncated
    /\ Quiet /\ UNCHANGED <<order, plan, counted, made, keys>>

\* MySQL: one table after the other, the last of the order first.
TruncateOne ==
    /\ At("truncate") /\ request.truncate /\ request.engine = "mysql"
    /\ \/ plan \subseteq emptied /\ Truncated /\ UNCHANGED <<rows, emptied>>
       \/ \E t \in LastOf(order, plan \ emptied) : Empty({t}) /\ Stay
    /\ Quiet /\ UNCHANGED <<order, plan, counted, made, keys>>

\* Naming no table at all is an error of the database.
TruncateFails ==
    /\ At("truncate") /\ request.truncate
    /\ "truncate" \in Faults \/ (request.engine = "pgx" /\ plan = {})
    /\ End("failed")
    /\ Quiet /\ UNCHANGED <<order, plan, rows, counted, emptied, made, keys>>

\* The stored keys of the tables foreign keys may point at: all of them, only
\* those of the run in a seed from the pages, none without a database.  The
\* tables that cannot be generated are looked for once more.
Preload ==
    /\ At("preload")
    /\ IF plan \cap request.odd = {} THEN Pass ELSE End("refused")
    /\ keys' = CASE From \in Generates -> {}
                 [] From = "tuiSeed" -> rows \cap plan
                 [] OTHER -> rows
    /\ Quiet /\ UNCHANGED <<order, plan, rows, counted, emptied, made>>

\* The next table: its required references need keys, its own excepted.
Write ==
    /\ At("write")
    /\ \E t \in FirstOf(order, plan \ made) :
          IF Needs(t) \subseteq keys
            THEN /\ made' = made \cup {t}
                 /\ keys' = keys \cup {t}
                 /\ rows' = IF From \in Generates THEN rows ELSE rows \cup {t}
                 /\ Stay
            ELSE End("stranded") /\ UNCHANGED <<made, keys, rows>>
    /\ Quiet /\ UNCHANGED <<order, plan, counted, emptied>>

Written ==
    /\ status = "running" /\ exit = None /\ at = Len(Flow[From]) /\ Flow[From][at] = "write"
    /\ \/ plan \subseteq made /\ End("done")
       \/ "insert" \in Faults /\ End("failed")
    /\ Quiet /\ UNCHANGED <<order, plan, rows, counted, emptied, made, keys>>

(***************************************************************************)
(* Confirming, leaving, and the exit code.                                 *)
(***************************************************************************)
\* Mirror shows its plan, asks again before it truncates (esc goes back) and has
\* nothing to confirm when nothing is missing; clone asks once.
Ask ==
    /\ At("ask")
    /\ \/ page = "closed" /\ page' = "review" /\ Stay
       \/ /\ page = "review" /\ ~request.bare
          /\ IF request.truncate /\ From = "tuiMirror" THEN page' = "confirm" /\ Stay
             ELSE page' = "run" /\ Pass
       \/ page = "confirm" /\ page' = "run" /\ Pass
       \/ page = "confirm" /\ page' = "review" /\ Stay
       \/ page \in {"review", "confirm"} /\ page' = "left" /\ End("refused")
    /\ UNCHANGED <<request, order, plan, rows, counted, emptied, made, keys, cancelled, exit, picked, auto, shown>>

Act ==
    /\ At("act")
    /\ End("done") \/ ("act" \in Faults /\ ~request.bare /\ End("failed"))
    /\ Quiet /\ UNCHANGED <<order, plan, rows, counted, emptied, made, keys>>

Failed == {"refused", "failed", "stranded", "interrupted"}

\* A command that was told to stop returns at its next read or write; at a prompt
\* it goes on waiting for the line.
Interrupt ==
    /\ From \in Commands /\ exit = None /\ ~cancelled
    /\ cancelled' = TRUE
    /\ UNCHANGED <<request, runVars, exit, wizardVars>>

InterruptAgain ==
    /\ cancelled /\ exit = None
    /\ exit' = 130
    /\ status' = IF status = "running" THEN "cut" ELSE status
    /\ UNCHANGED <<request, at, order, plan, rows, counted, emptied, made, keys, cancelled, wizardVars>>

Interrupted ==
    /\ cancelled /\ status = "running" /\ exit = None
    /\ Flow[From][at] \notin Local
    /\ ~(Flow[From][at] = "write" /\ plan \subseteq made)
    /\ status' = "interrupted"
    /\ Quiet /\ UNCHANGED <<at, order, plan, rows, counted, emptied, made, keys>>

\* A process whose run is over leaves, but for the pages of seed, gaps and
\* generate, which show the outcome and wait for a key.
Code == CASE status \notin Failed -> 0 [] cancelled -> 130 [] OTHER -> 1

Exit ==
    /\ From \in Commands \cup Asking \cup Pages
    /\ status # "running" /\ exit = None
    /\ From \in Pages => page # "run"
    /\ exit' = Code
    /\ UNCHANGED <<request, runVars, cancelled, wizardVars>>

\* Ctrl+C on the last page, whether or not the run is over; clone's is Quit.
Abort ==
    /\ From \in Pages \cup {"tuiMirror"}
    /\ page = "run" /\ exit = None
    /\ From = "tuiMirror" => status = "running"
    /\ exit' = 1
    /\ status' = IF status = "running" THEN "cut" ELSE status
    /\ UNCHANGED <<request, at, order, plan, rows, counted, emptied, made, keys, cancelled, wizardVars>>

\* Mutant of Quit: the outcome of the run is not looked at.
QuitBlind ==
    /\ From \in {"tuiSeed", "tuiClone"}
    /\ page = "run" /\ exit = None
    /\ exit' = 0
    /\ status' = IF status = "running" THEN "cut" ELSE status
    /\ UNCHANGED <<request, at, order, plan, rows, counted, emptied, made, keys, cancelled, wizardVars>>

\* q on the last page of seed, and of clone; gaps and generate do not heed it.
Quit ==
    /\ From \in {"tuiSeed", "tuiClone"}
    /\ page = "run" /\ exit = None
    /\ exit' = Code
    /\ status' = IF status = "running" THEN "cut" ELSE status
    /\ UNCHANGED <<request, at, order, plan, rows, counted, emptied, made, keys, cancelled, wizardVars>>

Ended ==
    /\ status # "running"
    /\ exit # None \/ From \in {"webSeed", "webGaps", "webGenerate"}
    /\ UNCHANGED vars

Next == \/ ApplyProfile \/ Order \/ Select \/ Count \/ FindGaps \/ ApplyIgnore \/ CheckSeedable
        \/ Confirm \/ Paging \/ Paged \/ Skip \/ TruncateCascade \/ TruncateOne \/ TruncateFails
        \/ Preload \/ Write \/ Written \/ Ask \/ Act
        \/ Interrupt \/ InterruptAgain \/ Interrupted \/ Exit \/ Abort \/ Quit \/ Ended

Spec == Init /\ [][Next]_vars

(***************************************************************************)
(* Properties.                                                             *)
(***************************************************************************)
\* A run refused for its profile, its order, its ignored tables, a table that
\* cannot be generated or by the user has emptied and written nothing
\* (runners.go:273, cli/seed.go:203 "before anything is truncated"), but for a
\* seed from the pages, which looks for such tables after it truncated.
Untouched == emptied = {} /\ made = {} /\ rows = request.filled
RefusedUntouched ==
    status = "refused" => Untouched \/ (From = "tuiSeed" /\ plan \cap request.odd # {})

\* A run that passed its checks lacks keys of a required table only when foreign
\* keys were disabled, an uncounted table turned out empty, truncation took
\* rows of an ignored table with it, or the pages kept a locked parent whose
\* child is no longer picked (faker.go:538-556).
StrandedOnlyIf ==
    status = "stranded" =>
        \/ request.literal
        \/ From \in Gaps /\ request.uncounted # {}
        \/ emptied \cap request.ignored # {}
        \/ From \in {"tuiSeed", "tuiGenerate"} /\ Stale(Schema) # {}

\* An ignored table is never written to and loses its rows only to the CASCADE
\* of a planned one, except in runs from the terminal pages (ignore.go:11-20).
IgnoredSpared ==
    From \notin Pages =>
        /\ made \cap request.ignored = {}
        /\ emptied \cap request.ignored \subseteq
             IF request.engine = "pgx" THEN Descendants(Schema, plan) ELSE {}

\* gaps of the web server and the command line never write to a table that had
\* rows, counted or not, and empty nothing (commands.md:207).
GapsFillOnlyEmpty ==
    From \in Gaps => /\ emptied = {}
                     /\ From # "tuiGaps" => made \cap request.filled = {}

\* What a run is to leave alone, it does: every check comes before the first
\* row is lost, and no later step takes in what an earlier one left out.
LeftAlone == RefusedUntouched /\ IgnoredSpared /\ GapsFillOnlyEmpty

\* A run that failed is never reported as a success, and a command's success
\* means that all of its plan was written, also when it was interrupted on the
\* way (docs/commands.md:22, main.go:47-62).
FailureIsReported ==
    exit = 0 => /\ status \notin Failed
                /\ From \in Commands => status = "done" /\ (request.bare \/ plan \subseteq made)

\* 0 is success (docs/commands.md:22): the run was not cut off half way.
SuccessIsComplete == exit = 0 => status = "done"

\* Ignored tables are neither written nor truncated (docs/profiles.md:109).
IgnoredUntouched == (made \cup emptied) \cap request.ignored = {}

\* CheckSeedable comes before any write, "truncation included"
\* (partitions.go:212-214).
UnseedableUntouched == status = "refused" => Untouched

\* The pages lock every required parent of what was picked: a run started from
\* them has the parents of each of its tables (table_picker.go:56).
PagesKeepParents ==
    page = "run" => \A t \in ToSet(shown) : Needs(t) \subseteq ToSet(shown)
=============================================================================
