------------------------------ MODULE MCSetup ------------------------------
(***************************************************************************)
(* What is prepared before rows are written, one subject per behaviour:    *)
(* a clone of the schema, a seed profile, a shaped foreign key.            *)
(***************************************************************************)
EXTENDS Integers, FiniteSets

CONSTANTS Alphabet, Cases, Wants, MaxRuns, Folded, Matches, Schemas, Profiles, Edges, Totals, Extra, MaxPools, None

VARIABLES
    source, target, before, request, status, plan, at, pass, faulty, clones,      \* of Clone
    sc, doc, phase, seen, overrides, rows, shaped,                          \* of Rules
    edge, total, pool, dealer, row, buf, kept, made, beyond,                \* of Shapes
    subject

cloneVars == <<source, target, before, request, status, plan, at, pass, faulty, clones>>
ruleVars  == <<sc, doc, phase, seen, overrides, rows, shaped>>
shapeVars == <<edge, total, pool, dealer, row, buf, kept, made, beyond>>

C == INSTANCE Clone
R == INSTANCE Rules
S == INSTANCE Shapes

-----------------------------------------------------------------------------
(* Values of the constants.                                                 *)

LOCAL CloneValues == INSTANCE CloneCases
LOCAL RuleValues  == INSTANCE RuleCases

MCAlphabet == CloneValues!MCAlphabet
MCCases    == CloneValues!MCCases
MCWants    == CloneValues!MCWants
MCFolded   == RuleValues!MCFolded
MCMatches  == RuleValues!MCMatches
MCSchemas  == RuleValues!MCSchemas
MCProfiles == RuleValues!MCProfiles

Shape(min, avg, max, zero, null, buckets) ==
    [min |-> min, avg |-> avg, max |-> max, zero |-> zero, null |-> null, buckets |-> buckets]
Edge(n, shape, sampled) == [n |-> n, shape |-> shape, nullable |-> TRUE, sampled |-> sampled]

\* Shares of zero and NULL, a fixed degree, a minimum that does not divide the
\* rows, a histogram over a sample, and more parents than a maximum of one needs.
MCEdges == {Edge(3, Shape(0, 15, 3, 3, 2, {}), FALSE), Edge(3, Shape(2, 20, 2, 0, 0, {}), FALSE),
            Edge(3, Shape(2, 20, 3, 0, 4, {}), FALSE), Edge(2, Shape(1, 10, 2, 0, 5, {<<1, 2>>}), TRUE),
            Edge(5, Shape(0, 10, 1, 4, 0, {}), FALSE)}

-----------------------------------------------------------------------------

NoClone == /\ source = None /\ target = None /\ before = None /\ request = None /\ status = None
           /\ plan = None /\ at = None /\ pass = None /\ faulty = None /\ clones = None
NoProfile == /\ sc = None /\ doc = None /\ phase = None /\ seen = None /\ overrides = None
             /\ rows = None /\ shaped = None
NoShape == /\ edge = None /\ total = None /\ pool = None /\ dealer = None /\ row = None
           /\ buf = None /\ kept = None /\ made = None /\ beyond = None

Init ==
    \/ subject = "clone" /\ C!Init /\ NoProfile /\ NoShape
    \/ subject = "profile" /\ R!Init /\ NoClone /\ NoShape
    \/ subject = "shape" /\ S!Init /\ NoClone /\ NoProfile

Next ==
    /\ \/ subject = "clone" /\ C!Next /\ UNCHANGED <<ruleVars, shapeVars>>
       \/ subject = "profile" /\ R!Next /\ UNCHANGED <<cloneVars, shapeVars>>
       \/ subject = "shape" /\ S!Next /\ UNCHANGED <<cloneVars, ruleVars>>
    /\ UNCHANGED subject

vars == <<cloneVars, ruleVars, shapeVars, subject>>

\* A clone that runs goes on by itself.
Proceed == subject = "clone" /\ C!Proceed /\ UNCHANGED <<ruleVars, shapeVars, subject>>

Spec == Init /\ [][Next]_vars /\ WF_vars(Proceed)

\* The properties of Clone, Rules and Shapes, each of its subject; what they
\* are about in the code stands there.

\* Reading a finished clone gives what reading its source gave.
CloneLooksAlike     == subject = "clone" => C!CloneLooksAlike
\* Every clone that starts ends.
ClonesEnd           == C!ClonesEnd
\* A profile never sets a column it may not set.
OverridesAllowed    == subject = "profile" => R!OverridesAllowed
\* What validation lets through without a word is what the run applies.
AcceptedIsApplied   == subject = "profile" => R!AcceptedIsApplied
\* A run fails on a value only where validation had looked at one sample of many.
FailsOnlyUnsure     == subject = "profile" => R!FailsOnlyUnsure
\* Children per parent follow the deal through retries and drops.
KeepsShape          == subject = "shape" => S!KeepsShape
\* A deal keeps the bounds of its shape whenever they can be kept.
DealFits            == subject = "shape" => S!DealFits
=============================================================================
