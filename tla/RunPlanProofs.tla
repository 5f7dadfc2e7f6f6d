--------------------------- MODULE RunPlanProofs ----------------------------
(***************************************************************************)
(* Theorems about RunPlan, for every set of requests: whatever front end a *)
(* run comes from, what is to be left alone is; no failure leaves the      *)
(* process with success; and a run finds the keys of the parents its       *)
(* tables require, but for the reasons StrandedOnlyIf lists.               *)
(*                                                                         *)
(* The invariant follows what a run knows at each step of its flow: once   *)
(* past a check, the plan has passed it, and no later step of that flow    *)
(* makes the plan anew; and rows are gone or made only past the checks.    *)
(***************************************************************************)
EXTENDS RunPlan, TableGraphProofs

Picking   == {"order", "select", "gaps", "pages"}  \* steps that make the plan
Touching  == {"truncate", "write"}
Planless  == {"cliMirror", "tuiMirror", "cliClone", "tuiClone"}  \* their plans are made elsewhere

Step(i)    == Flow[From][i]
Steps      == 1..Len(Flow[From])
Past(name) == \E i \in Steps : i < at /\ Step(i) = name

\* What holds of each flow.
Ordered(f) ==
    LET s == Flow[f]
        D == 1..Len(s)
    IN  /\ \A i \in D : s[i] = "write" => i = Len(s)
        /\ \A i, j \in D : s[i] = "truncate" /\ i < j => s[j] \in {"preload", "write"}
        /\ \A i, j \in D : s[i] \in {"ignore", "seedable"} /\ i < j => s[j] \notin Picking
        /\ \A i, j \in D : s[i] = "gaps" /\ i < j => s[j] \notin {"order", "select", "pages"}
        /\ f \notin Pages => \A j \in D : s[j] \in Touching => \E i \in D : i < j /\ s[i] = "ignore"
        /\ f \in {"webSeed", "cliSeed"} =>
               \A j \in D : s[j] = "truncate" => \E i \in D : i < j /\ s[i] = "seedable"
        /\ f \notin {"webSeed", "cliSeed", "tuiSeed"} => \A j \in D : s[j] # "truncate"
        /\ f \in {"webGaps", "cliGaps"} =>
               \A j \in D : s[j] = "write" => \E i \in D : i < j /\ s[i] = "gaps"
        /\ f \notin Planless => \A i \in D : s[i] # "act"

LEMMA FlowsAreOrdered == \A f \in DOMAIN Flow : Ordered(f)
<1>1. Ordered("webSeed")
  BY DEF Ordered, Flow, WebSeed, Picking, Touching, Pages, Planless
<1>2. Ordered("cliSeed")
  BY DEF Ordered, Flow, CliSeed, Picking, Touching, Pages, Planless
<1>3. Ordered("tuiSeed")
  BY DEF Ordered, Flow, TuiSeed, Picking, Touching, Pages, Planless
<1>4. Ordered("webGaps")
  BY DEF Ordered, Flow, WebGaps, Picking, Touching, Pages, Planless
<1>5. Ordered("cliGaps")
  BY DEF Ordered, Flow, CliGaps, Picking, Touching, Pages, Planless
<1>6. Ordered("tuiGaps")
  BY DEF Ordered, Flow, TuiGaps, Picking, Touching, Pages, Planless
<1>7. Ordered("webGenerate")
  BY DEF Ordered, Flow, WebGenerate, Picking, Touching, Pages, Planless
<1>8. Ordered("cliGenerate")
  BY DEF Ordered, Flow, CliGenerate, Picking, Touching, Pages, Planless
<1>9. Ordered("tuiGenerate")
  BY DEF Ordered, Flow, TuiGenerate, Picking, Touching, Pages, Planless
<1>10. Ordered("cliMirror")
  BY DEF Ordered, Flow, CliMirror, Picking, Touching, Pages, Planless
<1>11. Ordered("tuiMirror")
  BY DEF Ordered, Flow, TuiMirror, Picking, Touching, Pages, Planless
<1>12. Ordered("cliClone")
  BY DEF Ordered, Flow, CliClone, Picking, Touching, Pages, Planless
<1>13. Ordered("tuiClone")
  BY DEF Ordered, Flow, TuiClone, Picking, Touching, Pages, Planless
<1> QED
  BY <1>1, <1>2, <1>3, <1>4, <1>5, <1>6, <1>7, <1>8, <1>9, <1>10, <1>11, <1>12, <1>13 DEF Flow

(***************************************************************************)
(* The inductive invariant.                                                *)
(***************************************************************************)
Place == request \in Requests /\ at \in Nat \ {0}

\* Rows are lost and made at their steps, and stay so.
TouchInv ==
    /\ ~Untouched => \E i \in Steps : i <= at /\ Step(i) \in Touching
    /\ emptied # {} => \E i \in Steps : i <= at /\ Step(i) = "truncate"
    /\ made # {} => at \in Steps /\ Step(at) = "write"

\* What may lose rows when these tables are truncated.
Reach(S) == S \cup (IF request.engine = "pgx" THEN Descendants(Schema, S) ELSE {})

PlanInv ==
    /\ Past("ignore") => plan \cap request.ignored = {}
    /\ Past("seedable") => plan \cap request.odd = {}
    /\ From \in {"webGaps", "cliGaps"} /\ Past("gaps") => plan \cap request.filled = {}
    /\ counted.empty \cap request.filled = {}
    /\ made \subseteq plan
    /\ emptied \subseteq Reach(plan)

IInv == Place /\ TouchInv /\ PlanInv /\ RefusedUntouched

LEMMA Initially == Init => IInv
<1> SUFFICES ASSUME Init PROVE IInv
  OBVIOUS
<1>1. ~Past("ignore") /\ ~Past("seedable") /\ ~Past("gaps")
  BY DEF Init, Past, Steps
<1> QED
  BY <1>1 DEF Init, IInv, Place, TouchInv, PlanInv, RefusedUntouched, Untouched

(***************************************************************************)
(* What is known at a step.                                                *)
(***************************************************************************)
LEMMA RunIsOrdered == ASSUME Place PROVE Ordered(From)
  BY FlowsAreOrdered, RequestAssumption DEF Place, From

\* No check, no choice of tables and no question comes after a touching step.
LEMMA UntouchedAt ==
    ASSUME IInv, NEW name, At(name), name \notin Touching, name # "preload"
    PROVE  Untouched
<1> SUFFICES ASSUME NEW i \in Steps, i <= at, Step(i) \in Touching PROVE FALSE
  BY DEF IInv, TouchInv
<1>1. Ordered(From) /\ at \in Steps /\ Step(at) = name
  BY RunIsOrdered DEF IInv, Place, At, Steps, Step
<1>2. i # at
  BY <1>1
<1>3. CASE Step(i) = "write"
  BY <1>1, <1>2, <1>3 DEF Ordered, Steps, Step, IInv, Place
<1>4. CASE Step(i) = "truncate"
  BY <1>1, <1>2, <1>4 DEF Ordered, Steps, Step, IInv, Place, Touching
<1> QED
  BY <1>3, <1>4 DEF Touching

\* A table that cannot be generated and that a check let through is not found
\* after the truncation.
LEMMA PreloadAfterCheck ==
    ASSUME IInv, At("preload"), plan \cap request.odd # {}, From # "tuiSeed"
    PROVE  Untouched
<1> SUFFICES ASSUME NEW i \in Steps, i <= at, Step(i) \in Touching PROVE FALSE
  BY DEF IInv, TouchInv
<1>1. Ordered(From) /\ at \in Steps /\ Step(at) = "preload"
  BY RunIsOrdered DEF IInv, Place, At, Steps, Step
<1>2. i < at
  BY <1>1 DEF Steps, Touching
<1>3. Step(i) = "truncate"
  BY <1>1, <1>2 DEF Ordered, Steps, Step, IInv, Place, Touching
<1>4. PICK j \in Steps : j < i /\ Step(j) = "seedable"
  BY <1>1, <1>3 DEF Ordered, Steps, Step
<1>5. Past("seedable")
  BY <1>2, <1>4 DEF Past, Steps, IInv, Place
<1> QED
  BY <1>5 DEF IInv, PlanInv

\* When a step passes, what it checked is past.
LEMMA PassedIs ==
    ASSUME Place, NEW name, At(name), NEW other, request' = request, at' = at + 1
    PROVE  Past(other)' <=> Past(other) \/ other = name
<1>1. at \in Steps /\ Step(at) = name
  BY DEF Place, At, Steps, Step
<1> QED
  BY <1>1 DEF Past, Steps, Step, Place, From

\* Otherwise nothing changes about what is past.
LEMMA StayedIs ==
    ASSUME NEW other, request' = request, at' = at
    PROVE  Past(other)' <=> Past(other)
  BY DEF Past, Steps, Step, From

(***************************************************************************)
(* The steps.                                                              *)
(***************************************************************************)
\* A step that leaves plan and rows alone.
LEMMA Checking ==
    ASSUME IInv, NEW name, At(name), name # "write",
           UNCHANGED <<request, plan, rows, emptied, made>>,
           Pass \/ status' = status \/ status' # "refused" \/ Untouched
              \/ (From = "tuiSeed" /\ plan \cap request.odd # {}),
           at' = at \/ Pass,
           counted'.empty \cap request.filled = {},
           name = "ignore" /\ Pass => plan \cap request.ignored = {},
           name = "seedable" /\ Pass => plan \cap request.odd = {},
           name = "gaps" /\ Pass => plan \cap request.filled = {}
    PROVE  IInv'
<1>1. status = "running" /\ Place' /\ (Pass => at' = at + 1)
  BY DEF At, IInv, Place, Pass
<1>2. TouchInv'
  <2>1. at \in Steps /\ Step(at) = name
    BY DEF At, IInv, Place, Steps, Step
  <2>2. made' = {}
    BY <2>1 DEF IInv, TouchInv
  <2> QED
    BY <1>1, <2>2 DEF IInv, TouchInv, Untouched, Steps, Step, From, Place, Pass
<1>3. PlanInv'
  <2>1. CASE at' = at
    BY <2>1, StayedIs DEF IInv, PlanInv, Reach, From, Schema
  <2>2. CASE Pass
    BY <1>1, <2>2, PassedIs DEF IInv, PlanInv, Reach, From, Schema
  <2> QED
    BY <2>1, <2>2
<1>4. RefusedUntouched'
  BY <1>1 DEF IInv, RefusedUntouched, Untouched, Pass, From
<1> QED
  BY <1>1, <1>2, <1>3, <1>4 DEF IInv

\* A step that makes the plan anew, or smaller, before anything was touched.
LEMMA Choosing ==
    ASSUME IInv, NEW name, At(name), name \notin Touching, name # "preload",
           UNCHANGED <<request, rows, counted, emptied, made>>,
           at' = at \/ Pass,
           name \in Picking \/ plan' \subseteq plan,
           name = "ignore" => at' = at \/ plan' \cap request.ignored = {},
           name = "gaps" => plan' \cap request.filled = {},
           name # "seedable"
    PROVE  IInv'
<1>1. Untouched /\ Untouched'
  BY UntouchedAt DEF Untouched
<1>2. Ordered(From) /\ at \in Steps /\ Step(at) = name
  BY RunIsOrdered DEF IInv, Place, At, Steps, Step
<1>3. Place' /\ (Pass => at' = at + 1)
  BY DEF IInv, Place, Pass
<1>4. TouchInv'
  BY <1>1 DEF TouchInv, Untouched
<1>5. RefusedUntouched'
  BY <1>1 DEF RefusedUntouched
<1>6. PlanInv'
  <2>1. ASSUME NEW other, Past(other)' PROVE Past(other) \/ (other = name /\ at' # at)
    BY <1>3, <2>1, StayedIs, PassedIs DEF IInv, Place
  <2>2. name \in Picking => ~Past("ignore") /\ ~Past("seedable")
    BY <1>2 DEF Past, Ordered, Steps, Step
  <2>3. name \in Picking /\ name # "gaps" => ~Past("gaps")
    BY <1>2 DEF Past, Ordered, Steps, Step, Picking
  <2>4. made' = {} /\ emptied' = {}
    BY <1>1 DEF Untouched
  <2>5. (Past("ignore") => plan \cap request.ignored = {})'
    BY <2>1, <2>2 DEF IInv, PlanInv, Picking
  <2>6. (Past("seedable") => plan \cap request.odd = {})'
    BY <2>1, <2>2 DEF IInv, PlanInv
  <2>7. (From \in {"webGaps", "cliGaps"} /\ Past("gaps") => plan \cap request.filled = {})'
    BY <2>1, <2>3 DEF IInv, PlanInv, From
  <2> QED
    BY <2>4, <2>5, <2>6, <2>7 DEF IInv, PlanInv
<1> QED
  BY <1>3, <1>4, <1>5, <1>6 DEF IInv

\* What is emptied is planned, or CASCADE reaches it.
LEMMA Truncating ==
    ASSUME IInv, TruncateCascade \/ TruncateOne
    PROVE  IInv'
<1>1. /\ At("truncate")
      /\ UNCHANGED <<request, plan, counted, made>>
      /\ at' = at \/ at' = at + 1
      /\ status' # "refused"
      /\ emptied' \subseteq emptied \cup Reach(plan)
  BY DEF TruncateCascade, TruncateOne, Truncated, Empty, Pass, End, Stay, Quiet, Reach, LastOf, At
<1>2. at \in Steps /\ Step(at) = "truncate" /\ Place'
  BY <1>1 DEF IInv, Place, At, Steps, Step
<1>3. TouchInv'
  BY <1>1, <1>2 DEF IInv, TouchInv, Untouched, Steps, Step, From, Place, Touching
<1>4. PlanInv'
  BY <1>1, <1>2, StayedIs, PassedIs DEF IInv, PlanInv, Reach, From, Schema
<1>5. RefusedUntouched'
  BY <1>1 DEF RefusedUntouched
<1> QED
  BY <1>2, <1>3, <1>4, <1>5 DEF IInv

\* What is written is planned.
LEMMA Writing ==
    ASSUME IInv, Write
    PROVE  IInv'
<1>1. /\ At("write")
      /\ UNCHANGED <<request, plan, counted, emptied, at>>
      /\ status' # "refused"
      /\ made' \subseteq made \cup plan
  BY DEF Write, End, Stay, Quiet, FirstOf, At
<1>2. at \in Steps /\ Step(at) = "write" /\ Place'
  BY <1>1 DEF IInv, Place, At, Steps, Step
<1>3. TouchInv'
  BY <1>1, <1>2 DEF IInv, TouchInv, Untouched, Steps, Step, From, Place, Touching
<1>4. PlanInv'
  BY <1>1, <1>2, StayedIs DEF IInv, PlanInv, Reach, From, Schema
<1>5. RefusedUntouched'
  BY <1>1 DEF RefusedUntouched
<1> QED
  BY <1>2, <1>3, <1>4, <1>5 DEF IInv

\* A run that ends, or a process that does.
LEMMA Leaving ==
    ASSUME IInv, UNCHANGED <<request, at, plan, rows, counted, emptied, made>>,
           status' = "refused" => status = "refused"
    PROVE  IInv'
<1>1. Place' /\ TouchInv'
  BY DEF IInv, Place, TouchInv, Untouched, Steps, Step, From
<1>2. PlanInv'
  BY StayedIs DEF IInv, PlanInv, Reach, From, Schema
<1>3. RefusedUntouched'
  BY DEF IInv, RefusedUntouched, Untouched, From
<1> QED
  BY <1>1, <1>2, <1>3 DEF IInv

LEMMA Inductive == IInv /\ [Next]_vars => IInv'
<1> SUFFICES ASSUME IInv, [Next]_vars PROVE IInv'
  OBVIOUS
<1>1. counted.empty \cap request.filled = {}
  BY DEF IInv, PlanInv
<1>2. CASE ApplyProfile
  BY <1>1, <1>2, Checking, UntouchedAt DEF ApplyProfile, Quiet, Pass, End, Touching
<1>3. CASE Order
  BY <1>3, Choosing DEF Order, Quiet, Pass, End, Picking, Touching
<1>4. CASE Select
  BY <1>4, Choosing DEF Select, Quiet, Pass, Picking, Touching
<1>5. CASE Count
  <2>1. Untouched
    BY <1>5, UntouchedAt DEF Count, Touching
  <2>2. counted'.empty \cap request.filled = {}
    BY <1>5, <2>1 DEF Count, Untouched
  <2> QED
    BY <1>5, <2>1, <2>2, Checking DEF Count, Quiet, Pass, End
<1>6. CASE FindGaps
  <2>1. plan' \cap request.filled = {}
    BY <1>1, <1>6 DEF FindGaps, GapTables
  <2> QED
    BY <1>6, <2>1, Choosing DEF FindGaps, Quiet, Pass, Picking, Touching
<1>7. CASE ApplyIgnore
  <2>1. /\ At("ignore")
        /\ UNCHANGED <<request, rows, counted, emptied, made>>
        /\ plan' = plan \ request.ignored \/ (plan' = plan /\ at' = at)
        /\ at' = at \/ Pass
    BY <1>7 DEF ApplyIgnore, Quiet, Pass, End
  <2> QED
    BY <2>1, Choosing DEF Touching
<1>8. CASE CheckSeedable
  <2>1. Untouched /\ at \in Nat
    BY <1>8, UntouchedAt DEF CheckSeedable, Touching, IInv, Place
  <2> QED
    BY <1>1, <1>8, <2>1, Checking DEF CheckSeedable, Quiet, Pass, End
<1>9. CASE Confirm
  BY <1>1, <1>9, Checking, UntouchedAt DEF Confirm, Quiet, Pass, End, Touching
<1>10. CASE Paging
  BY <1>10, Leaving DEF Paging, Stay
<1>11. CASE Paged
  BY <1>11, Choosing DEF Paged, Quiet, Pass, End, Picking, Touching
<1>12. CASE Skip
  BY <1>1, <1>12, Checking DEF Skip, Quiet, Pass
<1>13. CASE TruncateCascade \/ TruncateOne
  BY <1>13, Truncating
<1>14. CASE TruncateFails
  BY <1>1, <1>14, Checking DEF TruncateFails, Quiet, End
<1>15. CASE Preload
  BY <1>1, <1>15, Checking, PreloadAfterCheck DEF Preload, Quiet, Pass, End
<1>16. CASE Write
  BY <1>16, Writing
<1>17. CASE Written
  BY <1>17, Leaving DEF Written, Quiet, End
<1>18. CASE Ask
  <2>1. At("ask") /\ UNCHANGED <<request, plan, rows, counted, emptied, made>>
    BY <1>18 DEF Ask
  <2>2. Untouched
    BY <2>1, UntouchedAt DEF Touching
  <2>3. at' = at \/ Pass
    BY <1>18 DEF Ask, Stay, Pass, End
  <2> QED
    BY <1>1, <2>1, <2>2, <2>3, Checking
<1>19. CASE Act
  BY <1>1, <1>19, Checking DEF Act, Quiet, Pass, End
<1>20. CASE Interrupt \/ InterruptAgain \/ Interrupted \/ Exit \/ Abort \/ Quit \/ Ended
  BY <1>20, Leaving DEF Interrupt, InterruptAgain, Interrupted, Exit, Abort, Quit, Ended, vars, runVars, Quiet
<1>21. CASE UNCHANGED vars
  BY <1>21, Leaving DEF vars, runVars
<1> QED
  BY <1>2, <1>3, <1>4, <1>5, <1>6, <1>7, <1>8, <1>9, <1>10, <1>11, <1>12, <1>13, <1>14,
     <1>15, <1>16, <1>17, <1>18, <1>19, <1>20, <1>21 DEF Next

(***************************************************************************)
(* The theorem.                                                            *)
(***************************************************************************)
LEMMA IgnoredStay == ASSUME IInv PROVE IgnoredSpared
<1> SUFFICES ASSUME From \notin Pages PROVE
      /\ made \cap request.ignored = {}
      /\ emptied \cap request.ignored \subseteq
             IF request.engine = "pgx" THEN Descendants(Schema, plan) ELSE {}
  BY DEF IgnoredSpared
<1>1. Ordered(From)
  BY RunIsOrdered DEF IInv
<1>2. ASSUME NEW i \in Steps, i <= at, Step(i) \in Touching PROVE Past("ignore")
  BY <1>1, <1>2 DEF Ordered, Steps, Step, Past, IInv, Place
<1>3. made # {} \/ emptied # {} => Past("ignore")
  BY <1>2 DEF IInv, TouchInv, Touching, Steps, Place
<1> QED
  BY <1>3 DEF IInv, PlanInv, Reach

LEMMA GapsAreFilled == ASSUME IInv PROVE GapsFillOnlyEmpty
<1> SUFFICES ASSUME From \in Gaps PROVE
      /\ emptied = {}
      /\ From # "tuiGaps" => made \cap request.filled = {}
  BY DEF GapsFillOnlyEmpty
<1>1. Ordered(From)
  BY RunIsOrdered DEF IInv
<1>2. emptied = {}
  BY <1>1 DEF IInv, TouchInv, Ordered, Steps, Step, Gaps
<1>3. From # "tuiGaps" /\ made # {} => Past("gaps")
  BY <1>1 DEF IInv, TouchInv, Ordered, Steps, Step, Past, Gaps
<1> QED
  BY <1>2, <1>3 DEF IInv, PlanInv, Gaps

\* Whatever is asked of whichever front end, a run that is refused has emptied
\* and written nothing, an ignored table is spared and gaps writes to empty
\* tables only (runners.go:273, ignore.go:11-20, docs/commands.md:207); the
\* exceptions are in LeftAlone.
THEOREM RunsLeaveAlone == Spec => []LeftAlone
<1>1. IInv => LeftAlone
  BY IgnoredStay, GapsAreFilled DEF LeftAlone, IInv
<1> QED
  BY <1>1, Initially, Inductive, PTL DEF Spec

(***************************************************************************)
(* The exit code.                                                          *)
(***************************************************************************)
Statuses == {"running", "done", "cut"} \cup Failed

ExitInv ==
    /\ Place
    /\ status \in Statuses
    /\ From \in Planless => plan = {}
    /\ status = "done" => request.bare \/ plan \subseteq made
    /\ status = "cut" => exit # None
    /\ FailureIsReported

LEMMA NoPlanToMake ==
    ASSUME Place, From \in Planless, NEW name, At(name)
    PROVE  name \in {"confirm", "ask", "act"}
<1>1. /\ Flow["cliMirror"] = <<"confirm", "act">> /\ Flow["tuiMirror"] = <<"ask", "act">>
      /\ Flow["cliClone"] = <<"act">> /\ Flow["tuiClone"] = <<"ask", "act">>
  BY DEF Flow, CliMirror, TuiMirror, CliClone, TuiClone
<1>2. at \in 1..Len(Flow[From]) /\ Flow[From][at] = name
  BY DEF Place, At
<1>3. CASE From = "cliMirror"
  BY <1>1, <1>2, <1>3
<1>4. CASE From = "tuiMirror"
  BY <1>1, <1>2, <1>4
<1>5. CASE From = "cliClone"
  BY <1>1, <1>2, <1>5
<1>6. CASE From = "tuiClone"
  BY <1>1, <1>2, <1>6
<1> QED
  BY <1>3, <1>4, <1>5, <1>6 DEF Planless

LEMMA ExitInitially == Init => ExitInv
<1> SUFFICES ASSUME Init PROVE ExitInv
  OBVIOUS
<1>1. exit # 0
  BY RequestAssumption DEF Init
<1> QED
  BY <1>1 DEF Init, ExitInv, Place, FailureIsReported, Statuses

\* A step of the run: no process leaves.
LEMMA RunSteps ==
    ASSUME ExitInv, exit = None, exit' = exit, request' = request,
           at' = at \/ at' = at + 1,
           status' \in Statuses \ {"cut"},
           From \in Planless => plan' = plan,
           status' = "done" => request.bare \/ plan' \subseteq made'
    PROVE  ExitInv'
<1>1. exit' # 0
  BY RequestAssumption
<1> QED
  BY <1>1 DEF ExitInv, Place, FailureIsReported, From

\* A process leaves, or its user asks it to: the run stays as it is, or is cut.
LEMMA LeavingSteps ==
    ASSUME ExitInv, UNCHANGED <<request, at, plan, made>>,
           status' = status \/ (status = "running" /\ status' \in {"cut", "interrupted"}),
           status' = "cut" => exit' # None,
           exit' = 0 => \/ exit = 0 /\ status' = status
                        \/ status' \notin Failed /\ (From \in Commands => status' = "done")
    PROVE  ExitInv'
  BY DEF ExitInv, Place, FailureIsReported, From, Statuses, Failed

LEMMA ExitInductive == ExitInv /\ [Next]_vars => ExitInv'
<1> SUFFICES ASSUME ExitInv, [Next]_vars PROVE ExitInv'
  OBVIOUS
<1> USE DEF Statuses, Failed
<1>1. ASSUME NEW name, At(name) PROVE exit = None /\ status = "running"
  BY <1>1 DEF At
<1>2. CASE ApplyProfile \/ Count \/ CheckSeedable \/ Confirm \/ Skip \/ TruncateFails \/ Preload
  BY <1>1, <1>2, RunSteps
     DEF ApplyProfile, Count, CheckSeedable, Confirm, Skip, TruncateFails, Preload, Quiet, Pass, End
<1>3. CASE Order \/ Select \/ FindGaps \/ Paged
  BY <1>1, <1>3, RunSteps, NoPlanToMake
     DEF Order, Select, FindGaps, Paged, Quiet, Pass, End, ExitInv
<1>4. CASE ApplyIgnore
  BY <1>1, <1>4, RunSteps, NoPlanToMake DEF ApplyIgnore, Quiet, Pass, End, ExitInv
<1>5. CASE Paging
  BY <1>1, <1>5, RunSteps DEF Paging, Stay
<1>6. CASE TruncateCascade \/ TruncateOne
  BY <1>1, <1>6, RunSteps DEF TruncateCascade, TruncateOne, Truncated, Quiet, Pass, End, Stay
<1>7. CASE Write
  BY <1>1, <1>7, RunSteps DEF Write, Quiet, End, Stay
<1>8. CASE Written
  BY <1>8, RunSteps DEF Written, Quiet, End
<1>9. CASE Ask
  BY <1>1, <1>9, RunSteps DEF Ask, Pass, End, Stay
<1>10. CASE Act
  <2>1. plan = {}
    <3>1. From \in Planless
      BY <1>10, RunIsOrdered DEF Act, At, ExitInv, Place, Ordered
    <3> QED
      BY <3>1 DEF ExitInv
  <2> QED
    BY <1>1, <1>10, <2>1, RunSteps DEF Act, Quiet, End
<1>11. CASE Interrupt \/ Interrupted
  <2>1. exit = None /\ exit' = None /\ exit # 0
    BY <1>11, RequestAssumption DEF Interrupt, Interrupted, Quiet
  <2>2. UNCHANGED <<request, at, plan, made>>
    BY <1>11 DEF Interrupt, Interrupted, runVars, Quiet
  <2>3. status' = status \/ (status = "running" /\ status' = "interrupted")
    BY <1>11 DEF Interrupt, Interrupted, runVars
  <2>4. status' # "cut"
    BY <2>1, <2>3 DEF ExitInv
  <2> QED
    BY <2>1, <2>2, <2>3, <2>4, LeavingSteps
<1>12. CASE InterruptAgain
  BY <1>12, LeavingSteps, RequestAssumption DEF InterruptAgain, ExitInv
<1>13. CASE Abort
  BY <1>13, LeavingSteps, RequestAssumption DEF Abort, ExitInv
<1>14. CASE Exit \/ Quit
  <2>1. exit' \in Nat /\ (exit' = 0 => status \notin Failed)
    BY <1>14 DEF Exit, Quit, Code
  <2>2. From \in Commands => Exit
    BY <1>14 DEF Quit, Commands
  <2>3. Exit => status' = status /\ status # "running"
    BY DEF Exit, runVars
  <2>4. status' = status \/ (status = "running" /\ status' = "cut")
    BY <1>14, <2>3 DEF Quit
  <2>5. status = "cut" => exit # None
    BY DEF ExitInv
  <2>6. exit = None /\ exit' # None
    BY <1>14, <2>1, RequestAssumption DEF Exit, Quit
  <2>7. UNCHANGED <<request, at, plan, made>>
    BY <1>14 DEF Exit, Quit, runVars
  <2>8. exit' = 0 => status' \notin Failed /\ (From \in Commands => status' = "done")
    BY <2>1, <2>2, <2>3, <2>4, <2>5, <2>6 DEF ExitInv
  <2> QED
    BY <2>4, <2>6, <2>7, <2>8, LeavingSteps
<1>15. CASE Ended \/ UNCHANGED vars
  <2>1. UNCHANGED <<request, at, plan, made, status, exit>>
    BY <1>15 DEF Ended, vars, runVars
  <2> QED
    BY <2>1 DEF ExitInv, Place, FailureIsReported, From
<1> QED
  BY <1>2, <1>3, <1>4, <1>5, <1>6, <1>7, <1>8, <1>9, <1>10, <1>11, <1>12, <1>13, <1>14, <1>15
     DEF Next

\* No failure is reported as a success, and a command that exits with 0 has
\* written all it planned, however it was interrupted (main.go:47-62).
THEOREM FailuresAreReported == Spec => []FailureIsReported
<1>1. ExitInv => FailureIsReported
  BY DEF ExitInv
<1> QED
  BY <1>1, ExitInitially, ExitInductive, PTL DEF Spec

(***************************************************************************)
(* STRANDED ONLY IF                                                        *)
(*                                                                         *)
(* A table written in its turn finds the keys of a required parent when    *)
(* the parent is in the plan, for then it came before, or is one of the    *)
(* tables the plan relies on, whose stored keys were loaded.  So the       *)
(* invariant says how each flow comes to a plan that has the parents it    *)
(* does not find stored, and what the later steps leave of that.           *)
(***************************************************************************)
\* The tables whose stored rows a plan may rely on.
Outside ==
    CASE From \in {"webGaps", "cliGaps"} -> request.filled
      [] From \in {"webSeed", "cliSeed"} -> request.filled \cap request.ignored
      [] OTHER -> {}

\* The plan has been made; it may still lose ignored tables.
Planned ==
    CASE From \in {"webGaps", "cliGaps"} -> Past("gaps")
      [] From \in Pages -> Past("pages")
      [] OTHER -> Past("order")

Excused ==
    \/ request.literal
    \/ From \in Gaps /\ request.uncounted # {}
    \/ From \in {"tuiSeed", "tuiGenerate"} /\ Stale(Schema) # {}

\* What tables S require is among them or out.
Supplied(S, out) == S \subseteq Tables /\ \A t \in S : Needs(t) \subseteq S \cup out

SuppliedInv ==
    /\ From \in {"webGaps", "cliGaps"} /\ Past("order") /\ ~Past("gaps") => plan = Tables
    /\ Planned /\ ~Excused => Supplied(plan, Outside)

OrderInv ==
    Past("order") /\ ~request.literal =>
        order = TopologicalSort(Schema) /\ Len(order) >= Cardinality(Tables)

CountInv ==
    /\ counted.empty \subseteq Tables
    /\ Past("count") /\ request.uncounted = {} => counted.empty = Tables \ request.filled

KeysInv ==
    /\ made \subseteq keys
    /\ Past("preload") => Outside \ emptied \subseteq keys
    /\ request.filled \ emptied \subseteq rows

\* Once the tables are picked, so are their parents.
PickInv ==
    From \in {"tuiSeed", "tuiGenerate"} =>
        /\ page \in {"options", "volumes", "review", "run"} => Ancestors(Schema, picked \ auto) \subseteq picked
        /\ page \in {"volumes", "review", "run"} /\ ~request.literal => ToSet(shown) = Tables \cap picked
GapInv ==
    From = "tuiGaps" /\ page \in {"volumes", "review", "run"} /\ ~request.literal => Supplied(ToSet(shown), {})

StrandInv == OrderInv /\ CountInv /\ KeysInv /\ PickInv /\ GapInv /\ SuppliedInv /\ StrandedOnlyIf

\* What holds of each flow.
Provided(f) ==
    LET s == Flow[f]
        D == 1..Len(s)
        Preceded(a, b) == \A j \in D : s[j] = a => \E i \in D : i < j /\ s[i] = b
        Lacks(S) == \A j \in D : s[j] \notin S
    IN  /\ \A i, j \in D : s[i] = s[j] => i = j
        /\ Preceded("write", "preload") /\ Preceded("write", "order") /\ Preceded("ignore", "order")
        /\ Preceded("select", "order") /\ Preceded("gaps", "order") /\ Preceded("pages", "order")
        /\ f \in {"webGaps", "cliGaps"} =>
               /\ Preceded("write", "gaps") /\ Preceded("ignore", "gaps") /\ Preceded("gaps", "count")
               /\ Lacks({"select", "pages", "ask"})
        /\ f \in Pages => Preceded("write", "pages") /\ Lacks({"select", "gaps", "ignore", "ask"})
        /\ f \notin {"webGaps", "cliGaps"} => Lacks({"gaps"})
        /\ f \notin Pages => Lacks({"pages"})
        /\ f \in Planless => Lacks({"ignore", "select"})

LEMMA FlowsProvide == \A f \in DOMAIN Flow : Provided(f)
<1>1. Provided("webSeed")
  BY DEF Provided, Flow, WebSeed, Pages, Planless
<1>2. Provided("cliSeed")
  BY DEF Provided, Flow, CliSeed, Pages, Planless
<1>3. Provided("tuiSeed")
  BY DEF Provided, Flow, TuiSeed, Pages, Planless
<1>4. Provided("webGaps")
  BY DEF Provided, Flow, WebGaps, Pages, Planless
<1>5. Provided("cliGaps")
  BY DEF Provided, Flow, CliGaps, Pages, Planless
<1>6. Provided("tuiGaps")
  BY DEF Provided, Flow, TuiGaps, Pages, Planless
<1>7. Provided("webGenerate")
  BY DEF Provided, Flow, WebGenerate, Pages, Planless
<1>8. Provided("cliGenerate")
  BY DEF Provided, Flow, CliGenerate, Pages, Planless
<1>9. Provided("tuiGenerate")
  BY DEF Provided, Flow, TuiGenerate, Pages, Planless
<1>10. Provided("cliMirror")
  BY DEF Provided, Flow, CliMirror, Pages, Planless
<1>11. Provided("tuiMirror")
  BY DEF Provided, Flow, TuiMirror, Pages, Planless
<1>12. Provided("cliClone")
  BY DEF Provided, Flow, CliClone, Pages, Planless
<1>13. Provided("tuiClone")
  BY DEF Provided, Flow, TuiClone, Pages, Planless
<1> QED
  BY <1>1, <1>2, <1>3, <1>4, <1>5, <1>6, <1>7, <1>8, <1>9, <1>10, <1>11, <1>12, <1>13 DEF Flow

\* Of the flow a run is on.
LEMMA RunIsProvided == ASSUME Place PROVE Provided(From)
  BY FlowsProvide, RequestAssumption DEF Place, From

\* The step a run is at is its only one of that name, and has those it follows behind it.
LEMMA StepIs ==
    ASSUME Place, NEW name, At(name)
    PROVE  /\ at \in Steps /\ Step(at) = name /\ ~Past(name)
           /\ name \in {"write", "ignore", "select", "gaps", "pages"} => Past("order")
           /\ name = "write" => Past("preload") /\ Planned
           /\ name = "ignore" => Planned
           /\ name = "gaps" => Past("count") /\ From \in {"webGaps", "cliGaps"}
           /\ name = "pages" => From \in Pages
           /\ name = "select" => From \notin {"webGaps", "cliGaps"} \cup Pages \cup Planless
           /\ name = "ignore" => From \notin Pages \cup Planless
           /\ name = "ask" => From \notin {"webGaps", "cliGaps"} \cup Pages
<1> DEFINE D == 1..Len(Flow[From])
           Preceded(a, b) == \A j \in D : Flow[From][j] = a => \E i \in D : i < j /\ Flow[From][i] = b
           Lacks(S) == \A j \in D : Flow[From][j] \notin S
<1>1. at \in D /\ Flow[From][at] = name /\ at \in Nat
  BY DEF Place, At
<1>2. at \in Steps /\ Step(at) = name
  BY <1>1 DEF Steps, Step
<1>3. \A b : Past(b) <=> \E i \in D : i < at /\ Flow[From][i] = b
  BY DEF Past, Steps, Step
<1>4. /\ \A i, j \in D : Flow[From][i] = Flow[From][j] => i = j
      /\ Preceded("write", "preload") /\ Preceded("write", "order") /\ Preceded("ignore", "order")
      /\ Preceded("select", "order") /\ Preceded("gaps", "order") /\ Preceded("pages", "order")
      /\ From \in {"webGaps", "cliGaps"} =>
             /\ Preceded("write", "gaps") /\ Preceded("ignore", "gaps") /\ Preceded("gaps", "count")
             /\ Lacks({"select", "pages", "ask"})
      /\ From \in Pages => Preceded("write", "pages") /\ Lacks({"select", "gaps", "ignore", "ask"})
      /\ From \notin {"webGaps", "cliGaps"} => Lacks({"gaps"})
      /\ From \notin Pages => Lacks({"pages"})
      /\ From \in Planless => Lacks({"ignore", "select"})
  BY RunIsProvided DEF Provided
<1>5. \A a, b : Preceded(a, b) /\ name = a => Past(b)
  <2> SUFFICES ASSUME NEW a, NEW b, Preceded(a, b), name = a PROVE Past(b)
    OBVIOUS
  <2> QED
    BY <1>1, <1>3
<1>6. \A S : Lacks(S) => name \notin S
  BY <1>1
<1>7. ~Past(name)
  BY <1>1, <1>3, <1>4
<1> HIDE DEF Preceded, Lacks, D
<1>8. {"webGaps", "cliGaps"} \cap Pages = {}
  BY DEF Pages
<1>9. /\ name \in {"write", "ignore", "select", "gaps", "pages"} => Past("order")
      /\ name = "write" => Past("preload")
  BY <1>4, <1>5
<1>10. name \in {"write", "ignore"} => Planned
  BY <1>4, <1>5, <1>6, <1>9 DEF Planned
<1>11. /\ name = "gaps" => Past("count") /\ From \in {"webGaps", "cliGaps"}
       /\ name = "pages" => From \in Pages
       /\ name = "select" => From \notin {"webGaps", "cliGaps"} \cup Pages \cup Planless
       /\ name = "ignore" => From \notin Pages \cup Planless
       /\ name = "ask" => From \notin {"webGaps", "cliGaps"} \cup Pages
  <2>1. name = "gaps" => Past("count") /\ From \in {"webGaps", "cliGaps"}
    BY <1>4, <1>5, <1>6
  <2>2. name = "pages" => From \in Pages
    BY <1>4, <1>6
  <2>3. name \in {"select", "ask"} => From \notin {"webGaps", "cliGaps"} \cup Pages
    BY <1>4, <1>6
  <2>4. name \in {"select", "ignore"} => From \notin Planless
    BY <1>4, <1>6
  <2>5. name = "ignore" => From \notin Pages
    BY <1>4, <1>6
  <2> QED
    BY <2>1, <2>2, <2>3, <2>4, <2>5
<1> QED
  BY <1>2, <1>7, <1>9, <1>10, <1>11

(***************************************************************************)
(* The graph of the request.                                               *)
(***************************************************************************)
\* A full order has every table, each after what it requires.
LEMMA OrderHasAll ==
    ASSUME Place, order = TopologicalSort(Schema), Len(order) >= Cardinality(Tables)
    PROVE  /\ order \in Seq(Tables) /\ IsInjective(order) /\ ToSet(order) = Tables
           /\ \A t \in Tables : \A p \in Needs(t) : p \in Tables /\ Precedes(order, p, t)
<1>1. Listed(Schema) /\ Tables = TablesOf(Schema)
  BY RequestAssumption DEF Place, Listed, Schema, Tables
<1>2. Cardinality(Tables) = Len(Schema.names)
  BY <1>1, CountOfSet DEF Listed, TablesOf
<1>3. order \in Seq(Tables) /\ IsInjective(order) /\ ToSet(order) = Tables /\ AfterParents(Schema, order)
  BY <1>1, <1>2, SortedIs
<1>4. ASSUME NEW t \in Tables, NEW p \in Needs(t) PROVE p \in Tables /\ Precedes(order, p, t)
  <2>1. PICK i \in DOMAIN order : order[i] = t
    BY <1>3 DEF ToSet
  <2>2. PICK j \in DOMAIN order : j < i /\ order[j] = p
    BY <1>3, <2>1 DEF AfterParents, Needs
  <2> QED
    BY <1>3, <2>1, <2>2 DEF Precedes, ToSet
<1> QED
  BY <1>3, <1>4

\* Of two tables only one comes before the other.
LEMMA PrecedesOnce ==
    ASSUME NEW T, NEW q \in Seq(T), IsInjective(q), NEW t, NEW u, Precedes(q, t, u), Precedes(q, u, t)
    PROVE  FALSE
<1>1. PICK i, j \in DOMAIN q : i < j /\ q[i] = t /\ q[j] = u
  BY DEF Precedes
<1>2. PICK k, l \in DOMAIN q : k < l /\ q[k] = u /\ q[l] = t
  BY DEF Precedes
<1>3. i = l /\ j = k
  BY <1>1, <1>2 DEF IsInjective
<1> QED
  BY <1>1, <1>2, <1>3

LEMMA AncestorsClose ==
    ASSUME NEW S
    PROVE  /\ \A t \in S : Needs(t) \subseteq Ancestors(Schema, S)
           /\ \A t \in Ancestors(Schema, S) : Needs(t) \subseteq Ancestors(Schema, S)
<1> DEFINE R == Edges(Schema)
           A == Reachable(S, R)
<1>1. Image(S, R) \subseteq A /\ Image(A, R) \subseteq A
  BY ReachableContains, ReachableIsClosed
<1>2. \A C : \A t \in C : Needs(t) \subseteq Image(C, R)
  BY DEF Needs, Parents, Image
<1>3. Ancestors(Schema, S) = A
  BY DEF Ancestors
<1> HIDE DEF A, R
<1> QED
  BY <1>1, <1>2, <1>3

(***************************************************************************)
(* What the steps leave alone.                                             *)
(***************************************************************************)
LEMMA PastAfter ==
    ASSUME Place, NEW name, At(name), request' = request, at' = at \/ at' = at + 1
    PROVE  \A other : other # name => (Past(other)' <=> Past(other))
<1>1. CASE at' = at
  BY <1>1, StayedIs
<1>2. CASE at' = at + 1
  BY <1>2, PassedIs
<1> QED
  BY <1>1, <1>2

LEMMA SameRequest ==
    ASSUME request' = request
    PROVE  /\ From' = From /\ Schema' = Schema /\ Tables' = Tables /\ Outside' = Outside
           /\ \A t : Needs(t)' = Needs(t)
           /\ \A S, out : Supplied(S, out)' = Supplied(S, out)
  BY DEF From, Schema, Tables, Outside, Needs, Supplied

LEMMA OrderSame ==
    ASSUME OrderInv, request' = request, order' = order, Past("order")' => Past("order")
    PROVE  OrderInv'
  BY SameRequest DEF OrderInv

LEMMA CountSame ==
    ASSUME CountInv, request' = request, counted' = counted, Past("count")' => Past("count")
    PROVE  CountInv'
  BY SameRequest DEF CountInv

LEMMA KeysSame ==
    ASSUME KeysInv, request' = request, made' = made, keys' = keys, Past("preload")' => Past("preload"),
           emptied \subseteq emptied', rows \ emptied' \subseteq rows'
    PROVE  KeysInv'
  BY SameRequest DEF KeysInv

LEMMA WizardSame ==
    ASSUME PickInv, GapInv, request' = request, wizardVars' = wizardVars
    PROVE  PickInv' /\ GapInv'
<1>1. UNCHANGED <<page, picked, auto, shown>>
  BY DEF wizardVars
<1> QED
  BY <1>1, SameRequest DEF PickInv, GapInv

\* No page of seed, gaps or generate.
LEMMA NoPages ==
    ASSUME request' = request, From \notin Pages PROVE PickInv' /\ GapInv'
  BY SameRequest DEF PickInv, GapInv, Pages

LEMMA ExcusedSame ==
    ASSUME request' = request, UNCHANGED <<picked, auto>> \/ From \notin Pages
    PROVE  Excused' = Excused
  BY SameRequest DEF Excused, Stale, Pages

LEMMA SuppliedSame ==
    ASSUME SuppliedInv, request' = request, plan' = plan, Planned' => Planned,
           Past("order")' => Past("order"), Past("gaps") => Past("gaps")',
           UNCHANGED <<picked, auto>> \/ From \notin Pages
    PROVE  SuppliedInv'
  BY SameRequest, ExcusedSame DEF SuppliedInv

LEMMA StrandedSame ==
    ASSUME StrandedOnlyIf, request' = request, status' = status, emptied' = emptied,
           UNCHANGED <<picked, auto>> \/ From \notin Pages
    PROVE  StrandedOnlyIf'
  BY SameRequest DEF StrandedOnlyIf, Stale, Pages

LEMMA NotStranded == ASSUME status' # "stranded" PROVE StrandedOnlyIf'
  BY DEF StrandedOnlyIf

\* Whether the plan has been made hangs on the steps that make it.
LEMMA PlannedSame ==
    ASSUME request' = request, \A other \in {"order", "gaps", "pages"} : Past(other)' <=> Past(other)
    PROVE  Planned' <=> Planned
  BY SameRequest DEF Planned

\* A check that passes or refuses.
LEMMA Aside ==
    ASSUME Place, StrandInv, NEW name, At(name), name \notin {"order", "count", "gaps", "pages", "preload"},
           request' = request, at' = at \/ at' = at + 1, status' # "stranded",
           UNCHANGED <<order, plan, rows, counted, emptied, made, keys>>,
           wizardVars' = wizardVars \/ From \notin Pages
    PROVE  StrandInv'
<1>1. \A other \in {"order", "count", "gaps", "pages", "preload"} : Past(other)' <=> Past(other)
  BY PastAfter
<1>2. UNCHANGED <<picked, auto>> \/ From \notin Pages
  BY DEF wizardVars
<1>3. Planned' <=> Planned
  BY <1>1, PlannedSame
<1>4. OrderInv' /\ CountInv' /\ KeysInv'
  BY <1>1, OrderSame, CountSame, KeysSame DEF StrandInv
<1>5. PickInv' /\ GapInv'
  BY WizardSame, NoPages DEF StrandInv
<1>6. SuppliedInv'
  BY <1>1, <1>2, <1>3, SuppliedSame DEF StrandInv
<1> QED
  BY <1>4, <1>5, <1>6, NotStranded DEF StrandInv

\* A step that touches only the status, the exit code and the signal.
LEMMA Apart ==
    ASSUME StrandInv, request' = request, at' = at, status' = status \/ status' # "stranded",
           UNCHANGED <<order, plan, rows, counted, emptied, made, keys>>, wizardVars' = wizardVars
    PROVE  StrandInv'
<1>1. \A other : Past(other)' <=> Past(other)
  BY StayedIs
<1>2. UNCHANGED <<picked, auto>>
  BY DEF wizardVars
<1>3. Planned' <=> Planned
  BY <1>1, PlannedSame
<1>4. OrderInv' /\ CountInv' /\ KeysInv'
  BY <1>1, OrderSame, CountSame, KeysSame DEF StrandInv
<1>5. PickInv' /\ GapInv'
  BY WizardSame DEF StrandInv
<1>6. SuppliedInv'
  BY <1>1, <1>2, <1>3, SuppliedSame DEF StrandInv
<1>7. StrandedOnlyIf'
  BY <1>2, StrandedSame, NotStranded DEF StrandInv
<1> QED
  BY <1>4, <1>5, <1>6, <1>7 DEF StrandInv

LEMMA RequiredAreTables ==
    ASSUME Place, NEW q, q = TopologicalSort(Schema), Len(q) >= Cardinality(Tables)
    PROVE  \A t \in Tables : Needs(t) \subseteq Tables
<1>1. Listed(Schema) /\ Tables = TablesOf(Schema)
  BY RequestAssumption DEF Place, Listed, Schema, Tables
<1>2. Cardinality(Tables) = Len(Schema.names)
  BY <1>1, CountOfSet DEF Listed, TablesOf
<1>3. q \in Seq(Tables) /\ ToSet(q) = Tables /\ AfterParents(Schema, q)
  BY <1>1, <1>2, SortedIs
<1> QED
  BY <1>3 DEF AfterParents, ToSet, Needs

\* The steps that make the plan of gaps, and of the pages, come after the order.
LEMMA GapsFollow == ASSUME Place, From \in {"webGaps", "cliGaps"}, Past("gaps") PROVE Past("order")
<1>1. PICK j \in Steps : j < at /\ Step(j) = "gaps"
  BY DEF Past
<1>2. PICK i \in Steps : i < j /\ Step(i) = "order"
  BY <1>1, RunIsProvided DEF Provided, Steps, Step
<1> QED
  BY <1>1, <1>2 DEF Past, Steps, Place

LEMMA PagesFollow == ASSUME Place, From \in Pages, Past("pages") PROVE Past("order")
<1>1. PICK j \in Steps : j < at /\ Step(j) = "pages"
  BY DEF Past
<1>2. PICK i \in Steps : i < j /\ Step(i) = "order"
  BY <1>1, RunIsProvided DEF Provided, Steps, Step
<1> QED
  BY <1>1, <1>2 DEF Past, Steps, Place

(***************************************************************************)
(* The steps that make the plan.                                           *)
(***************************************************************************)
\* Every table has the tables it requires among all of them.
LEMMA OrderSupplies ==
    ASSUME Place, StrandInv, Order PROVE StrandInv'
<1>1. /\ At("order") /\ request' = request /\ plan' = Tables /\ status' # "stranded"
      /\ UNCHANGED <<rows, counted, emptied, made, keys>> /\ wizardVars' = wizardVars
      /\ at' = at \/ (at' = at + 1 /\ (request.literal \/ (order' = TopologicalSort(Schema) /\ ~(Len(order') < Cardinality(Tables)))))
  BY DEF Order, Quiet, Pass, End, At
<1>2. UNCHANGED <<picked, auto>>
  BY <1>1 DEF wizardVars
<1>3. ~Past("order") /\ \A other : other # "order" => (Past(other)' <=> Past(other))
  BY <1>1, StepIs, PastAfter
<1>4. at' = at => ~Past("order")'
  BY <1>1, <1>3, StayedIs
<1>5. OrderInv'
  <2> SUFFICES ASSUME Past("order")', ~request.literal
               PROVE  order' = TopologicalSort(Schema) /\ Len(order') >= Cardinality(Tables)
    BY <1>1, SameRequest DEF OrderInv
  <2>1. order' = TopologicalSort(Schema) /\ ~(Len(order') < Cardinality(Tables))
    BY <1>1, <1>4
  <2>2. Listed(Schema) /\ Tables = TablesOf(Schema)
    BY RequestAssumption DEF Place, Listed, Schema, Tables
  <2>3. Len(order') \in Int /\ Cardinality(Tables) \in Int
    BY <2>1, <2>2, SortedIs, CountOfSet DEF Listed, TablesOf
  <2> QED
    BY <2>1, <2>3
<1>6. CountInv' /\ KeysInv' /\ PickInv' /\ GapInv'
  BY <1>1, <1>3, CountSame, KeysSame, WizardSame DEF StrandInv
<1>7. ASSUME Planned', ~Excused PROVE Supplied(Tables, Outside)
  <2>1. CASE From \in {"webGaps", "cliGaps"}
    <3>1. Past("gaps")'
      BY <1>1, <1>7, <2>1, SameRequest DEF Planned, Pages
    <3>2. Past("gaps")
      BY <1>3, <3>1
    <3> QED
      BY <1>3, <2>1, <3>2, GapsFollow
  <2>2. CASE From \in Pages
    <3>1. Past("pages")'
      BY <1>1, <1>7, <2>2, SameRequest DEF Planned, Pages
    <3>2. Past("pages")
      BY <1>3, <3>1
    <3> QED
      BY <1>3, <2>2, <3>2, PagesFollow
  <2>3. CASE From \notin {"webGaps", "cliGaps"} \cup Pages
    <3>1. Past("order")' /\ ~request.literal
      BY <1>1, <1>7, <2>3, SameRequest DEF Planned, Excused
    <3>2. (order' = TopologicalSort(Schema))  /\ Len(order') >= Cardinality(Tables)
      BY <1>1, <1>5, <3>1, SameRequest DEF OrderInv
    <3>3. \A t \in Tables : Needs(t) \subseteq Tables
      BY <1>1, <3>2, RequiredAreTables
    <3> QED
      BY <3>3 DEF Supplied
  <2> QED
    BY <2>1, <2>2, <2>3
<1>8. SuppliedInv'
  BY <1>1, <1>2, <1>7, SameRequest, ExcusedSame DEF SuppliedInv
<1> QED
  BY <1>1, <1>5, <1>6, <1>8, NotStranded DEF StrandInv

\* A selection has the tables it requires.
LEMMA SelectSupplies ==
    ASSUME Place, StrandInv, Select PROVE StrandInv'
<1>1. /\ At("select") /\ request' = request /\ at' = at + 1 /\ status' = status
      /\ UNCHANGED <<order, rows, counted, emptied, made, keys>> /\ wizardVars' = wizardVars
      /\ plan' = plan \/ request.literal \/ plan' = Tables \cap WithParents(request.chosen)
  BY DEF Select, Quiet, Pass
<1>2. UNCHANGED <<picked, auto>>
  BY <1>1 DEF wizardVars
<1>3. /\ From \notin {"webGaps", "cliGaps"} \cup Pages \cup Planless /\ Past("order")
      /\ \A other : other # "select" => (Past(other)' <=> Past(other))
  BY <1>1, StepIs, PastAfter
<1>4. OrderInv' /\ CountInv' /\ KeysInv' /\ PickInv' /\ GapInv' /\ StrandedOnlyIf'
  BY <1>1, <1>2, <1>3, OrderSame, CountSame, KeysSame, WizardSame, StrandedSame DEF StrandInv
<1>5. Planned
  BY <1>3 DEF Planned
<1>6. ASSUME ~Excused PROVE Supplied(plan', Outside)
  <2>1. CASE plan' = plan
    BY <1>5, <1>6, <2>1 DEF StrandInv, SuppliedInv
  <2>2. CASE plan' = Tables \cap WithParents(request.chosen)
    <3> DEFINE S == WithParents(request.chosen)
    <3>1. order = TopologicalSort(Schema) /\ Len(order) >= Cardinality(Tables)
      BY <1>3, <1>6 DEF StrandInv, OrderInv, Excused
    <3>2. \A t \in Tables : Needs(t) \subseteq Tables
      BY <3>1, RequiredAreTables
    <3>3. \A t \in S : Needs(t) \subseteq S
      BY AncestorsClose DEF WithParents
    <3> HIDE DEF S
    <3> QED
      BY <2>2, <3>2, <3>3 DEF Supplied, S
  <2> QED
    BY <1>1, <1>6, <2>1, <2>2 DEF Excused
<1>7. SuppliedInv'
  BY <1>1, <1>2, <1>3, <1>6, SameRequest, ExcusedSame DEF SuppliedInv
<1> QED
  BY <1>4, <1>7 DEF StrandInv

LEMMA CountSupplies ==
    ASSUME IInv, StrandInv, Count PROVE StrandInv'
<1>1. /\ At("count") /\ request' = request /\ (at' = at \/ at' = at + 1)
      /\ status' # "stranded" /\ UNCHANGED <<order, plan, rows, emptied, made, keys>>
      /\ wizardVars' = wizardVars
      /\ counted'.empty = (Tables \ request.uncounted) \ rows
  BY DEF Count, Quiet, Pass, End, At
<1>2. UNCHANGED <<picked, auto>> /\ Place
  BY <1>1 DEF wizardVars, IInv
<1>3. \A other : other # "count" => (Past(other)' <=> Past(other))
  BY <1>1, <1>2, PastAfter
<1>4. rows = request.filled
  BY <1>1, UntouchedAt DEF Untouched, Touching
<1>5. CountInv'
  BY <1>1, <1>4, SameRequest DEF CountInv
<1>6. Planned' <=> Planned
  BY <1>1, <1>3, PlannedSame
<1>7. OrderInv' /\ KeysInv' /\ PickInv' /\ GapInv' /\ SuppliedInv'
  BY <1>1, <1>2, <1>3, <1>6, OrderSame, KeysSame, WizardSame, SuppliedSame DEF StrandInv
<1> QED
  BY <1>1, <1>5, <1>7, NotStranded DEF StrandInv

\* What an empty table requires is empty, and in the plan, or has rows.
LEMMA GapsSupply ==
    ASSUME Place, StrandInv, FindGaps PROVE StrandInv'
<1> DEFINE E == counted.empty
<1>1. /\ At("gaps") /\ request' = request /\ at' = at + 1 /\ status' = status
      /\ UNCHANGED <<order, rows, counted, emptied, made, keys>> /\ wizardVars' = wizardVars
      /\ plan' = IF request.chosen = {} THEN plan \cap E ELSE WithParents(request.chosen \cap E) \cap E
  BY DEF FindGaps, Quiet, Pass, GapTables
<1>2. UNCHANGED <<picked, auto>>
  BY <1>1 DEF wizardVars
<1>3. /\ From \in {"webGaps", "cliGaps"} /\ Past("order") /\ Past("count") /\ ~Past("gaps")
      /\ \A other : other # "gaps" => (Past(other)' <=> Past(other))
  BY <1>1, StepIs, PastAfter
<1>4. Past("gaps")'
  BY <1>1, PassedIs
<1>5. OrderInv' /\ CountInv' /\ KeysInv' /\ PickInv' /\ GapInv' /\ StrandedOnlyIf'
  BY <1>1, <1>2, <1>3, OrderSame, CountSame, KeysSame, WizardSame, StrandedSame DEF StrandInv
<1>6. ASSUME ~Excused PROVE Supplied(plan', Outside)
  <2>1. order = TopologicalSort(Schema) /\ Len(order) >= Cardinality(Tables)
    BY <1>3, <1>6 DEF StrandInv, OrderInv, Excused
  <2>2. \A t \in Tables : Needs(t) \subseteq Tables
    BY <2>1, RequiredAreTables
  <2>3. E = Tables \ request.filled /\ plan = Tables
    BY <1>3, <1>6 DEF StrandInv, CountInv, SuppliedInv, Excused, Gaps
  <2>4. Outside = request.filled
    BY <1>3 DEF Outside
  <2>5. \A S : \A t \in WithParents(S) : Needs(t) \subseteq WithParents(S)
    BY AncestorsClose DEF WithParents
  <2> HIDE DEF E
  <2>6. CASE request.chosen = {}
    BY <1>1, <2>2, <2>3, <2>4, <2>6 DEF Supplied
  <2>7. CASE request.chosen # {}
    <3>1. PICK S : plan' = WithParents(S) \cap E
      BY <1>1, <2>7
    <3>2. \A t \in WithParents(S) : Needs(t) \subseteq WithParents(S)
      BY <2>5
    <3> QED
      BY <2>2, <2>3, <2>4, <3>1, <3>2 DEF Supplied
  <2> QED
    BY <2>6, <2>7
<1>7. SuppliedInv'
  BY <1>1, <1>2, <1>4, <1>6, SameRequest, ExcusedSame DEF SuppliedInv
<1> QED
  BY <1>5, <1>7 DEF StrandInv

\* What is kept of a plan finds the ignored tables it requires stored.
LEMMA IgnoreSupplies ==
    ASSUME IInv, StrandInv, ApplyIgnore PROVE StrandInv'
<1> DEFINE kept == plan \ request.ignored
<1>1. /\ At("ignore") /\ request' = request /\ (at' = at \/ at' = at + 1) /\ status' # "stranded"
      /\ UNCHANGED <<order, rows, counted, emptied, made, keys>> /\ wizardVars' = wizardVars
      /\ plan' = plan \/ (plan' = kept /\ Required(kept) \subseteq Populated)
  BY DEF ApplyIgnore, Quiet, Pass, End, At
<1>2. UNCHANGED <<picked, auto>> /\ Place
  BY <1>1 DEF wizardVars, IInv
<1>3. /\ From \notin Pages \cup Planless /\ Past("order") /\ Planned
      /\ \A other : other # "ignore" => (Past(other)' <=> Past(other))
  BY <1>1, <1>2, StepIs, PastAfter
<1>4. rows = request.filled
  BY <1>1, UntouchedAt DEF Untouched, Touching
<1>5. OrderInv' /\ CountInv' /\ KeysInv' /\ PickInv' /\ GapInv'
  BY <1>1, <1>2, <1>3, OrderSame, CountSame, KeysSame, WizardSame DEF StrandInv
<1>6. ASSUME ~Excused PROVE Supplied(plan', Outside)
  <2>1. Supplied(plan, Outside)
    BY <1>3, <1>6 DEF StrandInv, SuppliedInv
  <2>2. CASE plan' = plan
    BY <2>1, <2>2
  <2>3. CASE plan' = kept /\ Required(kept) \subseteq Populated
    <3> SUFFICES ASSUME NEW t \in kept, NEW p \in Needs(t), p \notin kept PROVE p \in Outside
      BY <2>1, <2>3 DEF Supplied
    <3>1. p \in plan \cup Outside
      BY <2>1 DEF Supplied
    <3>2. CASE p \in request.ignored
      <4>1. p \in Required(kept)
        BY <3>2 DEF Required
      <4>2. p \in Populated
        BY <2>3, <4>1
      <4>3. From \notin Generates /\ p \in request.filled
        BY <1>4, <4>2 DEF Populated
      <4>4. From \in {"webGaps", "cliGaps", "webSeed", "cliSeed"}
        <5>1. From \in DOMAIN Flow
          BY <1>2, RequestAssumption DEF Place, From
        <5> QED
          BY <1>3, <4>3, <5>1 DEF Flow, Generates, Pages, Planless
      <4> QED
        BY <3>2, <4>3, <4>4 DEF Outside
    <3>3. CASE p \notin request.ignored
      BY <3>1, <3>3
    <3> QED
      BY <3>2, <3>3
  <2> QED
    BY <1>1, <2>2, <2>3
<1>7. From \in {"webGaps", "cliGaps"} => Past("gaps")'
  BY <1>3 DEF Planned, Pages
<1>8. SuppliedInv'
  BY <1>1, <1>2, <1>6, <1>7, SameRequest, ExcusedSame DEF SuppliedInv
<1> QED
  BY <1>1, <1>5, <1>8, NotStranded DEF StrandInv

(***************************************************************************)
(* The pages.                                                              *)
(***************************************************************************)
\* What Among keeps of the seed order, when that is full, is what it is asked for.
LEMMA AmongOrder ==
    ASSUME Place, OrderInv, Past("order"), ~request.literal, NEW S
    PROVE  /\ ToSet(Among(TopologicalSort(Schema), S)) = Tables \cap S
           /\ \A t \in Tables : Needs(t) \subseteq Tables
<1>1. order = TopologicalSort(Schema) /\ Len(order) >= Cardinality(Tables)
  BY DEF OrderInv
<1>2. order \in Seq(Tables) /\ ToSet(order) = Tables
  BY <1>1, OrderHasAll
<1>3. ToSet(Among(order, S)) = ToSet(order) \cap S
  BY <1>2, AmongIs
<1> QED
  BY <1>1, <1>2, <1>3, RequiredAreTables

\* The parents that Pick locks are those of what was picked by hand.
LEMMA PickLocks ==
    ASSUME Pick(Schema, {})
    PROVE  Ancestors(Schema, picked' \ auto') \subseteq picked'
<1> DEFINE S == picked \ auto
           A == Ancestors(Schema, S)
<1>1. auto' = auto \cup (A \ S) /\ picked' = picked \cup (A \ S)
  BY DEF Pick, ResolveSelection, AutoSelected, Explicit
<1>2. picked' \ auto' = S
  BY <1>1
<1> QED
  BY <1>1, <1>2

LEMMA PagingSupplies ==
    ASSUME Place, StrandInv, Paging PROVE StrandInv'
<1>1. /\ At("pages") /\ request' = request /\ at' = at /\ status' = status /\ status' # "stranded"
      /\ UNCHANGED <<order, plan, rows, counted, emptied, made, keys>>
  BY DEF Paging, Stay, At
<1>2. From \in Pages /\ Past("order") /\ ~Past("pages")
  BY <1>1, StepIs
<1>3. \A other : Past(other)' <=> Past(other)
  BY <1>1, StayedIs
<1>4. OrderInv' /\ CountInv' /\ KeysInv'
  BY <1>1, <1>3, OrderSame, CountSame, KeysSame DEF StrandInv
<1>5. SuppliedInv'
  BY <1>1, <1>2, <1>3, SameRequest DEF SuppliedInv, Planned, Pages
<1>6. From # "tuiGaps" => Nameless = {}
  BY DEF Nameless
<1>7. ASSUME ~request.literal, NEW S PROVE ToSet(Among(TopologicalSort(Schema), S)) = Tables \cap S
  BY <1>2, <1>7, AmongOrder DEF StrandInv
<1>8. PickInv'
  <2> SUFFICES ASSUME From \in {"tuiSeed", "tuiGenerate"}
               PROVE  /\ page' \in {"options", "volumes", "review", "run"} => Ancestors(Schema, picked' \ auto') \subseteq picked'
                      /\ page' \in {"volumes", "review", "run"} /\ ~request.literal => ToSet(shown') = Tables \cap picked'
    BY <1>1, SameRequest DEF PickInv
  <2>1. PickInv
    BY DEF StrandInv
  <2>2. CASE Open(First) \/ (\E t \in Tables : Toggle(t)) \/ All(Schema) \/ NoTables
    BY <2>2 DEF Open, Toggle, All, NoTables
  <2>3. CASE Pick(Schema, Nameless)
    <3>1. page' \in {"tables", "options"}
      BY <2>3 DEF Pick
    <3> QED
      BY <1>6, <2>3, <3>1, PickLocks
  <2>4. CASE From # "tuiGaps" /\ Options(Schema)
    BY <1>7, <2>1, <2>4 DEF Options, PickInv
  <2>5. CASE Volumes(From # "tuiGenerate") \/ Review \/ Back \/ Leave
    BY <2>1, <2>5 DEF Volumes, Review, Back, Leave, PickInv
  <2> QED
    BY <2>2, <2>3, <2>4, <2>5 DEF Paging
<1>9. GapInv'
  <2> SUFFICES ASSUME From = "tuiGaps", page' \in {"volumes", "review", "run"}, ~request.literal
               PROVE  Supplied(ToSet(shown'), {})
    BY <1>1, SameRequest DEF GapInv
  <2>1. GapInv
    BY DEF StrandInv
  <2>2. CASE Open(First) \/ (\E t \in Tables : Toggle(t)) \/ All(Schema) \/ NoTables \/ Pick(Schema, Nameless)
    BY <2>2 DEF Open, Toggle, All, NoTables, Pick
  <2>3. CASE GapOptions(Schema, Nameless)
    <3> DEFINE S == picked \ Nameless
               W == WithParents(S)
    <3>1. shown' = Among(TopologicalSort(Schema), S \cup (Ancestors(Schema, S) \ S))
      BY <2>3 DEF GapOptions, ResolveSelection, AutoSelected
    <3>2. S \cup (Ancestors(Schema, S) \ S) = W
      BY DEF WithParents
    <3>3. ToSet(shown') = Tables \cap W
      BY <1>7, <3>1, <3>2
    <3>4. \A t \in W : Needs(t) \subseteq W
      BY AncestorsClose DEF WithParents
    <3>5. \A t \in Tables : Needs(t) \subseteq Tables
      BY <1>2, AmongOrder DEF StrandInv
    <3> HIDE DEF W
    <3> QED
      BY <3>3, <3>4, <3>5 DEF Supplied
  <2>4. CASE Volumes(From # "tuiGenerate") \/ Review \/ Back \/ Leave
    BY <2>1, <2>4 DEF Volumes, Review, Back, Leave, GapInv
  <2> QED
    BY <2>2, <2>3, <2>4 DEF Paging
<1> QED
  BY <1>1, <1>4, <1>5, <1>8, <1>9, NotStranded DEF StrandInv

\* The tables the pages hand over have those they require, unless some stayed
\* locked for a child that is no longer picked.
LEMMA PagedSupplies ==
    ASSUME Place, StrandInv, Paged PROVE StrandInv'
<1>1. /\ At("pages") /\ request' = request /\ (at' = at \/ at' = at + 1) /\ status' # "stranded"
      /\ UNCHANGED <<order, rows, counted, emptied, made, keys>> /\ wizardVars' = wizardVars
      /\ at' = at \/ (page = "run" /\ plan' = ToSet(shown))
  BY DEF Paged, Quiet, Pass, End, At
<1>2. UNCHANGED <<picked, auto>>
  BY <1>1 DEF wizardVars
<1>3. /\ From \in Pages /\ Past("order") /\ ~Past("pages")
      /\ \A other : other # "pages" => (Past(other)' <=> Past(other))
  BY <1>1, StepIs, PastAfter
<1>4. OrderInv' /\ CountInv' /\ KeysInv' /\ PickInv' /\ GapInv'
  BY <1>1, <1>2, <1>3, OrderSame, CountSame, KeysSame, WizardSame DEF StrandInv
<1>5. ASSUME page = "run", ~Excused PROVE Supplied(ToSet(shown), {})
  <2>1. CASE From = "tuiGaps"
    BY <1>5, <2>1 DEF StrandInv, GapInv, Excused
  <2>2. CASE From \in {"tuiSeed", "tuiGenerate"}
    <3> DEFINE A == Ancestors(Schema, picked \ auto)
    <3>1. A \subseteq picked /\ ToSet(shown) = Tables \cap picked
      BY <1>5, <2>2 DEF StrandInv, PickInv, Excused
    <3>2. auto \subseteq A
      BY <1>5, <2>2 DEF Excused, Stale
    <3>3. /\ \A t \in picked \ auto : Needs(t) \subseteq A
          /\ \A t \in A : Needs(t) \subseteq A
      BY AncestorsClose
    <3>4. \A t \in Tables : Needs(t) \subseteq Tables
      BY <1>3, <1>5, AmongOrder DEF StrandInv, Excused
    <3> HIDE DEF A
    <3>5. \A t \in picked : Needs(t) \subseteq picked
      BY <3>1, <3>2, <3>3
    <3> QED
      BY <3>1, <3>4, <3>5 DEF Supplied
  <2> QED
    BY <1>3, <2>1, <2>2 DEF Pages
<1>6. ASSUME Planned', ~Excused PROVE Supplied(plan', Outside)
  <2>1. Past("pages")'
    BY <1>1, <1>3, <1>6, SameRequest DEF Planned, Pages
  <2>2. page = "run" /\ plan' = ToSet(shown)
    BY <1>1, <1>3, <2>1, StayedIs
  <2> QED
    BY <1>5, <1>6, <2>2 DEF Supplied
<1>7. SuppliedInv'
  BY <1>1, <1>2, <1>3, <1>6, SameRequest, ExcusedSame DEF SuppliedInv, Pages
<1> QED
  BY <1>1, <1>4, <1>7, NotStranded DEF StrandInv

(***************************************************************************)
(* Emptying, loading and writing.                                          *)
(***************************************************************************)
LEMMA EmptyingSupplies ==
    ASSUME Place, StrandInv, TruncateCascade \/ TruncateOne PROVE StrandInv'
<1>1. /\ At("truncate") /\ request' = request /\ (at' = at \/ at' = at + 1)
      /\ status' # "stranded"
      /\ UNCHANGED <<order, plan, counted, made, keys>> /\ wizardVars' = wizardVars
      /\ emptied \subseteq emptied' /\ rows \ emptied' \subseteq rows'
  BY DEF TruncateCascade, TruncateOne, Truncated, Empty, Pass, End, Stay, Quiet, At
<1>2. UNCHANGED <<picked, auto>>
  BY <1>1 DEF wizardVars
<1>3. \A other \in {"order", "count", "gaps", "pages", "preload"} : Past(other)' <=> Past(other)
  BY <1>1, PastAfter
<1>4. Planned' <=> Planned
  BY <1>1, <1>3, PlannedSame
<1>5. OrderInv' /\ CountInv' /\ KeysInv'
  BY <1>1, <1>3, OrderSame, CountSame, KeysSame DEF StrandInv
<1>6. PickInv' /\ GapInv'
  BY <1>1, WizardSame DEF StrandInv
<1>7. SuppliedInv'
  BY <1>1, <1>2, <1>3, <1>4, SuppliedSame DEF StrandInv
<1> QED
  BY <1>1, <1>5, <1>6, <1>7, NotStranded DEF StrandInv

\* What a plan relies on is loaded, but for what was emptied.
LEMMA PreloadSupplies ==
    ASSUME IInv, StrandInv, Preload PROVE StrandInv'
<1>1. /\ At("preload") /\ request' = request /\ (at' = at \/ at' = at + 1)
      /\ status' # "stranded"
      /\ UNCHANGED <<order, plan, rows, counted, emptied, made>> /\ wizardVars' = wizardVars
      /\ From \notin Generates /\ From # "tuiSeed" => keys' = rows
  BY DEF Preload, Quiet, Pass, End, At
<1>2. UNCHANGED <<picked, auto>> /\ Place
  BY <1>1 DEF wizardVars, IInv
<1>3. \A other \in {"order", "count", "gaps", "pages"} : Past(other)' <=> Past(other)
  BY <1>1, <1>2, PastAfter
<1>4. Planned' <=> Planned
  BY <1>1, <1>3, PlannedSame
<1>5. OrderInv' /\ CountInv' /\ PickInv' /\ GapInv' /\ SuppliedInv'
  BY <1>1, <1>2, <1>3, <1>4, OrderSame, CountSame, WizardSame, SuppliedSame DEF StrandInv
<1>6. made = {}
  <2>1. at \in Steps /\ Step(at) = "preload"
    BY <1>1, <1>2, StepIs
  <2> QED
    BY <2>1 DEF IInv, TouchInv
<1>7. request.filled \ emptied \subseteq rows
  BY DEF StrandInv, KeysInv
<1>8. Outside \ emptied \subseteq keys'
  <2>1. CASE From \in {"webGaps", "cliGaps", "webSeed", "cliSeed"}
    <3>1. Outside \subseteq request.filled /\ keys' = rows
      BY <1>1, <2>1 DEF Outside, Generates
    <3> QED
      BY <1>7, <3>1
  <2>2. CASE From \notin {"webGaps", "cliGaps", "webSeed", "cliSeed"}
    BY <2>2 DEF Outside
  <2> QED
    BY <2>1, <2>2
<1>9. KeysInv'
  BY <1>1, <1>6, <1>7, <1>8, SameRequest DEF KeysInv
<1> QED
  BY <1>1, <1>5, <1>9, NotStranded DEF StrandInv

\* A parent of the table whose turn it is came before, or was there.
LEMMA NothingIsMissing ==
    ASSUME IInv, StrandInv, At("write"), ~Excused, emptied \cap request.ignored = {},
           NEW t \in FirstOf(order, plan \ made)
    PROVE  Needs(t) \subseteq keys
<1> SUFFICES ASSUME NEW p \in Needs(t), p \notin keys PROVE FALSE
  OBVIOUS
<1>1. Place /\ Past("order") /\ Past("preload") /\ Planned
  BY StepIs DEF IInv
<1>2. order = TopologicalSort(Schema) /\ Len(order) >= Cardinality(Tables)
  BY <1>1 DEF StrandInv, OrderInv, Excused
<1>3. Supplied(plan, Outside)
  BY <1>1 DEF StrandInv, SuppliedInv
<1>4. t \in plan \ made /\ \A u \in (plan \ made) \ {t} : Precedes(order, t, u)
  BY DEF FirstOf
<1>5. p \in plan \cup Outside /\ t \in Tables
  BY <1>3, <1>4 DEF Supplied
<1>6. p # t
  BY DEF Needs, Parents, Edges
<1>7. made \subseteq keys /\ Outside \ emptied \subseteq keys
  BY <1>1 DEF StrandInv, KeysInv
<1>8. CASE p \in plan
  <2>1. Precedes(order, t, p)
    BY <1>4, <1>6, <1>7, <1>8
  <2>2. Precedes(order, p, t) /\ order \in Seq(Tables) /\ IsInjective(order)
    BY <1>1, <1>2, <1>5, OrderHasAll
  <2> QED
    BY <2>1, <2>2, PrecedesOnce
<1>9. CASE p \in Outside
  <2>1. p \in emptied
    BY <1>7, <1>9
  <2>2. From \notin Gaps
    BY <2>1, GapsAreFilled DEF GapsFillOnlyEmpty
  <2>3. p \in request.ignored
    BY <1>9, <2>2 DEF Outside, Gaps
  <2> QED
    BY <2>1, <2>3
<1> QED
  BY <1>5, <1>8, <1>9

LEMMA WriteSupplies ==
    ASSUME IInv, StrandInv, Write PROVE StrandInv'
<1>1. PICK t \in FirstOf(order, plan \ made) :
          IF Needs(t) \subseteq keys
            THEN /\ made' = made \cup {t} /\ keys' = keys \cup {t} /\ rows \subseteq rows' /\ status' # "stranded"
            ELSE UNCHANGED <<made, keys, rows>>
  BY DEF Write, Stay, At
<1>2. /\ At("write") /\ request' = request /\ at' = at
      /\ UNCHANGED <<order, plan, counted, emptied>> /\ wizardVars' = wizardVars
  BY DEF Write, Stay, End, Quiet
<1>3. UNCHANGED <<picked, auto>> /\ Place
  BY <1>2 DEF wizardVars, IInv
<1>4. \A other : Past(other)' <=> Past(other)
  BY <1>2, StayedIs
<1>5. Planned' <=> Planned
  BY <1>2, <1>4, PlannedSame
<1>6. OrderInv' /\ CountInv' /\ PickInv' /\ GapInv' /\ SuppliedInv'
  BY <1>2, <1>3, <1>4, <1>5, OrderSame, CountSame, WizardSame, SuppliedSame DEF StrandInv
<1>7. KeysInv'
  <2>1. made' \subseteq keys' /\ keys \subseteq keys' /\ rows \subseteq rows'
    BY <1>1 DEF StrandInv, KeysInv
  <2> QED
    BY <1>2, <1>4, <2>1, SameRequest DEF StrandInv, KeysInv
<1>8. StrandedOnlyIf'
  <2>1. CASE Needs(t) \subseteq keys
    BY <1>1, <2>1, NotStranded
  <2>2. CASE ~(Needs(t) \subseteq keys)
    <3>1. Excused \/ emptied \cap request.ignored # {}
      BY <1>2, <2>2, NothingIsMissing
    <3>2. Excused' = Excused
      BY <1>2, <1>3, ExcusedSame
    <3> QED
      BY <1>2, <3>1, <3>2 DEF StrandedOnlyIf, Excused
  <2> QED
    BY <2>1, <2>2
<1> QED
  BY <1>6, <1>7, <1>8 DEF StrandInv

(***************************************************************************)
(* Every step.                                                             *)
(***************************************************************************)
LEMMA StrandInitially == Init => StrandInv
<1> SUFFICES ASSUME Init PROVE StrandInv
  OBVIOUS
<1>1. \A name : ~Past(name)
  BY DEF Init, Past, Steps
<1>2. ~Planned
  BY <1>1 DEF Planned
<1>3. OrderInv /\ SuppliedInv
  BY <1>1, <1>2 DEF OrderInv, SuppliedInv
<1>4. CountInv /\ KeysInv
  BY <1>1 DEF Init, CountInv, KeysInv
<1>5. PickInv /\ GapInv
  BY DEF Init, WizardInit, PickInv, GapInv
<1>6. StrandedOnlyIf
  BY DEF Init, StrandedOnlyIf
<1> QED
  BY <1>3, <1>4, <1>5, <1>6 DEF StrandInv

LEMMA StrandInductive == IInv /\ StrandInv /\ [Next]_vars => StrandInv'
<1> SUFFICES ASSUME IInv, StrandInv, [Next]_vars PROVE StrandInv'
  OBVIOUS
<1>1. Place
  BY DEF IInv
<1>2. CASE ApplyProfile
  BY <1>1, <1>2, Aside DEF ApplyProfile, Pass, End, Quiet, At
<1>3. CASE Order
  BY <1>1, <1>3, OrderSupplies
<1>4. CASE Select
  BY <1>1, <1>4, SelectSupplies
<1>5. CASE Count
  BY <1>5, CountSupplies
<1>6. CASE FindGaps
  BY <1>1, <1>6, GapsSupply
<1>7. CASE ApplyIgnore
  BY <1>7, IgnoreSupplies
<1>8. CASE CheckSeedable
  BY <1>1, <1>8, Aside DEF CheckSeedable, Pass, End, Quiet, At
<1>9. CASE Confirm
  BY <1>1, <1>9, Aside DEF Confirm, Pass, End, Quiet, At
<1>10. CASE Paging
  BY <1>1, <1>10, PagingSupplies
<1>11. CASE Paged
  BY <1>1, <1>11, PagedSupplies
<1>12. CASE Skip
  BY <1>1, <1>12, Aside DEF Skip, Pass, Quiet, At
<1>13. CASE TruncateCascade \/ TruncateOne
  BY <1>1, <1>13, EmptyingSupplies
<1>14. CASE TruncateFails
  BY <1>1, <1>14, Aside DEF TruncateFails, End, Quiet
<1>15. CASE Preload
  BY <1>15, PreloadSupplies
<1>16. CASE Write
  BY <1>16, WriteSupplies
<1>17. CASE Written
  BY <1>17, Apart DEF Written, End, Quiet
<1>18. CASE Ask
  <2>1. /\ At("ask") /\ request' = request /\ (at' = at \/ at' = at + 1) /\ status' # "stranded"
        /\ UNCHANGED <<order, plan, rows, counted, emptied, made, keys>>
    BY <1>18 DEF Ask, Pass, End, Stay, At
  <2>2. From \notin Pages
    BY <1>1, <2>1, StepIs
  <2> QED
    BY <1>1, <2>1, <2>2, Aside
<1>19. CASE Act
  BY <1>1, <1>19, Aside DEF Act, End, Quiet
<1>20. CASE Interrupt \/ Interrupted
  BY <1>20, Apart DEF Interrupt, Interrupted, runVars, Quiet
<1>21. CASE InterruptAgain \/ Abort \/ Quit
  BY <1>21, Apart DEF InterruptAgain, Abort, Quit
<1>22. CASE Exit
  BY <1>22, Apart DEF Exit, runVars
<1>23. CASE Ended \/ UNCHANGED vars
  BY <1>23, Apart DEF Ended, vars, runVars
<1> QED
  BY <1>2, <1>3, <1>4, <1>5, <1>6, <1>7, <1>8, <1>9, <1>10, <1>11, <1>12, <1>13, <1>14, <1>15,
     <1>16, <1>17, <1>18, <1>19, <1>20, <1>21, <1>22, <1>23 DEF Next

\* A run that passed its checks lacks keys of a required table only for one of
\* the reasons StrandedOnlyIf lists: whatever the schema, the selection, the
\* ignore list and the way through the pages, the plan holds each required
\* parent before its child, or the parent's stored keys were loaded
\* (faker.go:538-556).
THEOREM StrandedHasReason == Spec => []StrandedOnlyIf
<1>1. IInv /\ StrandInv => StrandedOnlyIf
  BY DEF StrandInv
<1> QED
  BY <1>1, Initially, Inductive, StrandInitially, StrandInductive, PTL DEF Spec
=============================================================================
