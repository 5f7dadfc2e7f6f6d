----------------------------- MODULE ReadScope ------------------------------
(***************************************************************************)
(* Reads that must not disturb the database they read, on MySQL            *)
(* (internal/db/read_scope.go readOnceMySQL), by the workers of two calls  *)
(* that use it: db.CountTablesWithin, one read per table (counts.go), and  *)
(* relations.Scan, two reads per foreign key (scan.go).  Both share one    *)
(* pool with seeding runs.                                                 *)
(*                                                                         *)
(* A read takes a connection, sets session limits on it, runs its query in *)
(* a transaction while a killer waits for the call to be cancelled, and    *)
(* resets the limits before it gives the connection back.  The driver, on  *)
(* a cancelled context, only closes its end: the server's thread goes on   *)
(* until its statement ends or KILL QUERY reaches it.                      *)
(***************************************************************************)
EXTENDS Naturals, FiniteSets, ConnPool

CONSTANTS
    Counters,   \* workers of CountTablesWithin: lim.Concurrency of them
    Scanners,   \* workers of Scan
    TableOrder, \* the tables to count, in the order they are handed out
    EdgeOrder,  \* the keys to scan, cheapest first
    Exact,      \* Options.Mode is exact
    IncludeUnindexed, \* Options.IncludeUnindexed
    Writing,    \* bound: the runs that write while the calls last
    NoItem      \* no table or key in hand

Workers == Counters \cup Scanners
Calls == {"counts", "scan"}
CallOf(w) == IF w \in Counters THEN "counts" ELSE "scan"
Order == [counts |-> TableOrder, scan |-> EdgeOrder]

ASSUME ReadAssumption ==
    /\ Counters \cap Scanners = {}
    /\ Runs \subseteq Nat /\ Writing \subseteq Runs
    /\ (Workers \cap Runs) = {} /\ NoOne \notin Workers
    /\ Settings = {"execution", "metadata", "row"}
    /\ {Exact, IncludeUnindexed} \subseteq BOOLEAN

VARIABLES
    indexed,   \* the keys that lead an index, as the catalogue has it
    cancelled, \* calls whose context has ended
    todo,      \* the items of each call still to hand out
    result,    \* what each call has recorded: item -> outcome
    pc,        \* where each worker is
    item,      \* the item it works on
    read,      \* the read of that item it is in
    conn,      \* the connection it holds
    err,       \* how its read has ended, its connection still to be closed
    killer,    \* the killer of its read
    target,    \* the connection id the killer knows
    gaveUp,    \* ids whose killer ended without sending KILL, ctx cancelled
    run,       \* each seeding run: "off", "reserved", "using" or "over"
    runConn    \* the connection it uses

workVars == <<indexed, cancelled, todo, result>>
readVars == <<pc, item, read, conn, err>>
killVars == <<killer, target, gaveUp>>
runVars  == <<run, runConn>>
vars == <<poolVars, workVars, readVars, killVars, runVars>>

Init ==
    /\ PoolInit
    /\ indexed \in SUBSET ToSet(EdgeOrder)
    /\ cancelled = {}
    /\ todo = Order
    /\ result = [k \in Calls |-> [i \in ToSet(Order[k]) |-> "none"]]
    /\ pc = [w \in Workers |-> "idle"]
    /\ item = [w \in Workers |-> NoItem]
    /\ read = [w \in Workers |-> "none"]
    /\ conn = [w \in Workers |-> NoConn]
    /\ err = [w \in Workers |-> "none"]
    /\ killer = [w \in Workers |-> "none"]
    /\ target = [w \in Workers |-> NoConn]
    /\ gaveUp = {}
    /\ run = [r \in Runs |-> "off"]
    /\ runConn = [r \in Runs |-> NoConn]

Done(w) == CallOf(w) \in cancelled

----------------------------------------------------------------------------
(* The calls: workers take items and record their outcomes.                *)

\* ReadOutcomeOf: a statement interrupted by KILL QUERY, or any error of a
\* cancelled call that says nothing else, is a cancellation
OutcomeOf(w, e) ==
    CASE e = "ok" -> "ok"
      [] e \in {"ctx", "killed"} -> "cancelled"
      [] e = "timeout" -> "timed out"
      [] e = "locked" -> "locked"
      [] OTHER -> IF Done(w) THEN "cancelled" ELSE "failed"

\* what the item is recorded as once the read ended with e
Outcome(w, e) ==
    CASE read[w] = "count" -> IF e = "ok" THEN "counted" ELSE "failed"
      [] read[w] = "estimate" /\ e = "ok" ->
            IF Exact THEN "skipped: unindexed" ELSE "estimated"
      [] OTHER -> OutcomeOf(w, e)

\* the read of measure that follows the index check
AfterIndex(found) ==
    IF Exact /\ (found \/ IncludeUnindexed) THEN "exact" ELSE "estimate"

Found(w, e) == e = "ok" /\ item[w] \in indexed

\* record, and the write to out, each under the call's mutex
Record(w, outcome) ==
    /\ result' = [result EXCEPT ![CallOf(w)][item[w]] = outcome]
    /\ pc' = [pc EXCEPT ![w] = "idle"]
    /\ item' = [item EXCEPT ![w] = NoItem]
    /\ read' = [read EXCEPT ![w] = "none"]

\* ReadOnce has returned e to worker w: the next read of the item, or its record
Returned(w, e) ==
    /\ err' = [err EXCEPT ![w] = "none"]
    /\ IF read[w] = "index"
       THEN /\ read' = [read EXCEPT ![w] = AfterIndex(Found(w, e))]
            /\ pc' = [pc EXCEPT ![w] = "conn"]
            /\ UNCHANGED <<result, item>>
       ELSE Record(w, Outcome(w, e))

\* an item received from the channel
Receive(w) ==
    LET k == CallOf(w) IN
    /\ pc[w] = "idle" /\ todo[k] # <<>> /\ ~Done(w)
    /\ item' = [item EXCEPT ![w] = Head(todo[k])]
    /\ todo' = [todo EXCEPT ![k] = Tail(@)]
    /\ pc' = [pc EXCEPT ![w] = "conn"]
    /\ read' = [read EXCEPT ![w] = IF w \in Counters THEN "count" ELSE "index"]
    /\ UNCHANGED <<poolVars, indexed, cancelled, result, conn, err, killVars, runVars>>

\* it is not read once the call is cancelled
Refuse(w) ==
    LET k == CallOf(w) IN
    /\ pc[w] = "idle" /\ todo[k] # <<>> /\ Done(w)
    /\ todo' = [todo EXCEPT ![k] = Tail(@)]
    /\ result' = [result EXCEPT ![k][Head(todo[k])] =
                    IF w \in Counters THEN "failed" ELSE "cancelled"]
    /\ UNCHANGED <<poolVars, indexed, cancelled, readVars, killVars, runVars>>

\* the channel is closed and empty
Leave(w) ==
    /\ pc[w] = "idle" /\ todo[CallOf(w)] = <<>>
    /\ pc' = [pc EXCEPT ![w] = "gone"]
    /\ UNCHANGED <<poolVars, workVars, item, read, conn, err, killVars, runVars>>

\* the request ends or the user cancels: a killer parked in its select wakes
Cancel(k) ==
    /\ k \notin cancelled
    /\ cancelled' = cancelled \cup {k}
    /\ killer' = [w \in Workers |->
                    IF CallOf(w) = k /\ killer[w] = "parked" THEN "killing"
                    ELSE killer[w]]
    /\ UNCHANGED <<poolVars, indexed, todo, result, readVars, target, gaveUp, runVars>>

----------------------------------------------------------------------------
(* readOnceMySQL, step by step.                                            *)

At(w, here) == pc[w] = here
Goto(w, there) == pc' = [pc EXCEPT ![w] = there]

\* the session settings the limits of a read change: DefaultCountLimits, and
\* for the exact scan a statement timeout before them
LockLimits == {"metadata", "row"}
Limits(w) == IF read[w] = "exact" THEN {"execution"} \cup LockLimits ELSE LockLimits

\* what the deferred reset puts back to DEFAULT
Resets == {"execution", "metadata"}

GetConn(w) ==
    /\ At(w, "conn") /\ ~Done(w) /\ Take
    /\ conn' = [conn EXCEPT ![w] = Taken]
    /\ Goto(w, "limit")
    /\ UNCHANGED <<broken, changed, query, cap, before, holders, workVars,
                   item, read, err, killVars, runVars>>

\* conn.Conn fails: the context ended, perhaps while it waited, or the server
\* accepts no more connections
GetConnFails(w) ==
    /\ At(w, "conn")
    /\ \/ Done(w) /\ Returned(w, "ctx")
       \/ ~Done(w) /\ DialFails /\ Returned(w, "other")
    /\ UNCHANGED <<poolVars, indexed, cancelled, todo, conn, killVars, runVars>>

\* a statement fails because the context ended before it was sent, or with the
\* connection: because it ended later, or the connection was lost
FailsBroken(w) == IF Done(w) THEN BOOLEAN ELSE {TRUE}
Failure(w) == IF Done(w) THEN "ctx" ELSE "other"

\* the connection id cannot be read: Close, without a reset
AskIdFails(w) ==
    /\ At(w, "limit")
    /\ \E isBroken \in FailsBroken(w) :
          GiveBack(conn[w], isBroken, changed[conn[w]])
    /\ Returned(w, Failure(w))
    /\ conn' = [conn EXCEPT ![w] = NoConn]
    /\ UNCHANGED <<query, cap, before, holders, indexed, cancelled, todo, killVars, runVars>>

\* the id, then each SET SESSION in turn
SetLimits(w) ==
    /\ At(w, "limit") /\ ~Done(w)
    /\ changed' = [changed EXCEPT ![conn[w]] = @ \cup Limits(w)]
    /\ Goto(w, "begin")
    /\ UNCHANGED <<open, free, broken, query, cap, before, holders, workVars,
                   item, read, conn, err, killVars, runVars>>

\* one of them fails, the statement timeout perhaps already set
SetLimitsFails(w) ==
    /\ At(w, "limit")
    /\ \E isBroken \in FailsBroken(w) :
          broken' = IF isBroken THEN broken \cup {conn[w]} ELSE broken
    /\ \E done \in SUBSET (Limits(w) \ LockLimits) :
          changed' = [changed EXCEPT ![conn[w]] = @ \cup done]
    /\ err' = [err EXCEPT ![w] = Failure(w)]
    /\ Goto(w, "finish")
    /\ UNCHANGED <<open, free, query, cap, before, holders, workVars,
                   item, read, conn, killVars, runVars>>

\* the killer starts, then the transaction and its query; a context that ended
\* is seen by the driver before anything is sent
Begin(w) ==
    /\ At(w, "begin")
    /\ killer' = [killer EXCEPT ![w] = "started"]
    /\ target' = [target EXCEPT ![w] = conn[w]]
    /\ \/ /\ ~Done(w)
          /\ query' = [query EXCEPT ![conn[w]] = w]
          /\ Goto(w, "run")
          /\ UNCHANGED err
       \/ /\ Done(w)
          /\ err' = [err EXCEPT ![w] = "ctx"]
          /\ Goto(w, "finish")
          /\ UNCHANGED query
    /\ UNCHANGED <<open, free, broken, changed, cap, before, holders, workVars,
                   item, read, conn, gaveUp, runVars>>

\* what the server may answer a query with, given the settings of its session
Answers(c) ==
    {"ok", "other"}
        \cup (IF "execution" \in changed[c] THEN {"timeout"} ELSE {})
        \cup (IF "metadata" \in changed[c] THEN {"locked"} ELSE {})

\* the answer, and the commit, which a context that ended meanwhile refuses
Answer(w) ==
    /\ At(w, "run") /\ query[conn[w]] = w
    /\ \E e \in Answers(conn[w]) \cup (IF Done(w) THEN {"ctx"} ELSE {}) : err' = [err EXCEPT ![w] = e]
    /\ query' = [query EXCEPT ![conn[w]] = NoOne]
    /\ Goto(w, "finish")
    /\ UNCHANGED <<open, free, broken, changed, cap, before, holders, workVars,
                   item, read, conn, killVars, runVars>>

\* the context ends under the query: the driver closes its end, the server's
\* thread goes on
DriverCancels(w) ==
    /\ At(w, "run") /\ Done(w)
    /\ broken' = broken \cup {conn[w]}
    /\ err' = [err EXCEPT ![w] = "ctx"]
    /\ Goto(w, "finish")
    /\ UNCHANGED <<open, free, changed, query, cap, before, holders, workVars,
                   item, read, conn, killVars, runVars>>

\* the answer of a query that KILL QUERY ended, when the driver still reads
Interrupted(w) ==
    /\ At(w, "run") /\ query[conn[w]] # w
    /\ err' = [err EXCEPT ![w] = "killed"]
    /\ Goto(w, "finish")
    /\ UNCHANGED <<poolVars, workVars, item, read, conn, killVars, runVars>>

\* the read's thread, nobody reading its answer any more, ends by itself
Abandoned(c) ==
    /\ query[c] \in Workers
    /\ LET w == query[c] IN ~(At(w, "run") /\ conn[w] = c)

ThreadEnds(c) ==
    /\ Abandoned(c)
    /\ query' = [query EXCEPT ![c] = NoOne]
    /\ gaveUp' = gaveUp \ {c}
    /\ UNCHANGED <<open, free, broken, changed, cap, before, holders, workVars,
                   readVars, killer, target, runVars>>

----------------------------------------------------------------------------
(* The killer of a read: a select on the read's end and the call's.        *)

KillerEnds(w) ==
    /\ killer' = [killer EXCEPT ![w] = "done"]
    /\ target' = [target EXCEPT ![w] = NoConn]

\* neither has happened when it first looks
Park(w) ==
    /\ killer[w] = "started" /\ ~Done(w) /\ ~At(w, "finish")
    /\ killer' = [killer EXCEPT ![w] = "parked"]
    /\ UNCHANGED <<poolVars, workVars, readVars, target, gaveUp, runVars>>

KillerWakes(w) ==
    /\ killer[w] = "started" /\ Done(w)
    /\ killer' = [killer EXCEPT ![w] = "killing"]
    /\ UNCHANGED <<poolVars, workVars, readVars, target, gaveUp, runVars>>

\* the read is over; if the call is cancelled too, select may still take this
SeesFinished(w) ==
    /\ killer[w] \in {"started", "parked"} /\ At(w, "finish")
    /\ KillerEnds(w)
    /\ gaveUp' = IF Done(w) THEN gaveUp \cup {target[w]} ELSE gaveUp
    /\ UNCHANGED <<poolVars, workVars, readVars, runVars>>

\* KILL QUERY needs a connection of the same pool
Kill(w) ==
    /\ killer[w] = "killing" /\ Borrow
    /\ query' = [query EXCEPT ![target[w]] = NoOne]
    /\ KillerEnds(w)
    /\ UNCHANGED <<broken, changed, cap, before, holders, workVars, readVars,
                   gaveUp, runVars>>

\* mutant: the kill waits for a connection as long as it takes
NeverTimesOut(w) == FALSE

\* no connection within its three seconds, or none to be had
KillFails(w) ==
    /\ killer[w] = "killing" /\ ~CanTake
    /\ KillerEnds(w)
    /\ gaveUp' = gaveUp \cup {target[w]}
    /\ UNCHANGED <<poolVars, workVars, readVars, runVars>>

----------------------------------------------------------------------------
(* The deferred end of the read.                                           *)

\* mutant: the read does not wait for its killer
NotWaited(w) == TRUE

\* killer.Wait, if the read got as far as to start one
KillerGone(w) == killer[w] \in {"none", "done"}

\* the reset, or the connection is discarded, then Close
Reset(w) ==
    LET c == conn[w] IN
    /\ At(w, "finish") /\ KillerGone(w)
    /\ \E isBroken \in BOOLEAN :
          /\ c \in broken => isBroken
          /\ GiveBack(c, isBroken, changed[c] \ Resets)
    /\ Returned(w, err[w])
    /\ conn' = [conn EXCEPT ![w] = NoConn]
    /\ killer' = [killer EXCEPT ![w] = IF @ = "done" THEN "none" ELSE @]
    /\ UNCHANGED <<query, cap, before, holders, indexed, cancelled, todo, target,
                   gaveUp, runVars>>

----------------------------------------------------------------------------
(* Seeding runs: they bound the pool and use its connections.  They are    *)
(* numbered in the order they start.                                       *)

Reserve(r) ==
    /\ run[r] = "off" /\ Hold(Reserved[r])
    /\ \A s \in Runs : s < r => run[s] # "off"
    /\ run' = [run EXCEPT ![r] = "reserved"]
    /\ UNCHANGED <<open, free, broken, changed, query, workVars, readVars, killVars, runConn>>

Use(r) ==
    /\ r \in Writing
    /\ run[r] = "reserved" /\ Take
    /\ run' = [run EXCEPT ![r] = "using"]
    /\ runConn' = [runConn EXCEPT ![r] = Taken]
    /\ query' = [query EXCEPT ![Taken] = r]
    /\ UNCHANGED <<broken, changed, cap, before, holders, workVars, readVars, killVars>>

Used(r) ==
    /\ run[r] = "using"
    /\ GiveBack(runConn[r], FALSE, changed[runConn[r]])
    /\ query' = [query EXCEPT ![runConn[r]] = NoOne]
    /\ run' = [run EXCEPT ![r] = "reserved"]
    /\ runConn' = [runConn EXCEPT ![r] = NoConn]
    /\ UNCHANGED <<cap, before, holders, workVars, readVars, killVars>>

Release(r) ==
    /\ run[r] = "reserved" /\ GiveUpHold(Reserved[r])
    /\ run' = [run EXCEPT ![r] = "over"]
    /\ UNCHANGED <<open, free, broken, changed, query, workVars, readVars, killVars, runConn>>

----------------------------------------------------------------------------

WorkerStep(w) ==
    \/ Receive(w) \/ Refuse(w) \/ Leave(w)
    \/ GetConn(w) \/ GetConnFails(w) \/ AskIdFails(w)
    \/ SetLimits(w) \/ SetLimitsFails(w) \/ Begin(w)
    \/ DriverCancels(w) \/ Interrupted(w) \/ Reset(w)

KillerStep(w) ==
    Park(w) \/ KillerWakes(w) \/ SeesFinished(w) \/ Kill(w) \/ KillFails(w)

RunStep(r) == Reserve(r) \/ Use(r) \/ Used(r) \/ Release(r)

Next ==
    \/ \E w \in Workers : WorkerStep(w) \/ KillerStep(w) \/ Answer(w)
    \/ \E k \in Calls : Cancel(k)
    \/ \E c \in Conns : ThreadEnds(c)
    \/ \E r \in Runs : RunStep(r)

\* as long as some goroutine of the reads can move, one does (each has only so
\* many steps); nothing is assumed of the server's answers, of the user who
\* cancels or of the seeding runs
Spec ==
    /\ Init /\ [][Next]_vars
    /\ WF_vars(\E w \in Workers : WorkerStep(w) \/ KillerStep(w))

----------------------------------------------------------------------------
(* Properties.                                                             *)

Outcomes == {"counted", "failed", "ok", "timed out", "locked", "cancelled",
             "skipped: unindexed", "estimated"}
Errors == {"ok", "ctx", "killed", "timeout", "locked", "other"}

HeldBy(c) == {w \in Workers : conn[w] = c} \cup {r \in Runs : runConn[r] = c}

(* Everything has its type, a connection is free or has one holder, and a  *)
(* connection handed out is open (database/sql as read_scope.go uses it).  *)
TypeOK ==
    /\ open \subseteq Conns /\ broken \subseteq open
    /\ changed \in [Conns -> SUBSET Settings]
    /\ query \in [Conns -> Workers \cup Runs \cup {NoOne}]
    /\ {cap, before} \subseteq Nat
    /\ holders \in Seq(Nat)
    /\ cancelled \subseteq Calls
    /\ \A k \in Calls : result[k] \in [ToSet(Order[k]) -> Outcomes \cup {"none"}]
    /\ pc \in [Workers -> {"idle", "conn", "limit", "begin", "run", "finish",
                           "gone"}]
    /\ err \in [Workers -> Errors \cup {"none"}]
    /\ killer \in [Workers -> {"none", "started", "parked", "killing", "done"}]
    /\ gaveUp \subseteq Conns
    /\ IsInjective(free)
    /\ \A c \in open : Cardinality(HeldBy(c)) = IF c \in ToSet(free) THEN 0 ELSE 1

(* No session limit at all outlives the read that set it: "later           *)
(* statements (seeding's own scans) must never inherit them"               *)
(* (read_scope.go:75-77).                                                  *)
LimitsNeverInherited == \A r \in Runs : run[r] = "using" => changed[runConn[r]] = {}

(* KILL QUERY ends the statement it was sent for and no other: it never    *)
(* reaches the connection's next holder, be it another read or a seeding   *)
(* run, and a query still running on the server after its read returned is *)
(* one whose killer ended without sending it, for want of a connection or  *)
(* because its select took the other branch (read_scope.go:103-122).       *)
NoBystanderKilled ==
    /\ \A w \in Workers : At(w, "run") /\ query[conn[w]] # w => Done(w)
    /\ \A r \in Runs : run[r] = "using" => query[runConn[r]] = r
KilledUnlessGaveUp ==
    \A c \in Conns : Abandoned(c) =>
        \/ c \in gaveUp
        \/ At(query[c], "finish") /\ conn[query[c]] = c
KillsItsOwn == NoBystanderKilled /\ KilledUnlessGaveUp

\* the runs that hold the pool
Active == {r \in Runs : run[r] \in {"reserved", "using"}}

(* While runs hold the pool its cap is what they reserved together, and    *)
(* once the last is over it is what it was before the first, in whatever   *)
(* order they overlap (seed.go:479-514).                                   *)
PoolGivenBack == cap = SumFunctionOnSet(Reserved, Active)

(* A cancelled call returns, whatever the server does and although its     *)
(* killers may find every connection in use (read_scope.go:107-122).       *)
CancelReturns ==
    \A k \in Calls : k \in cancelled
        ~> \A w \in Workers : CallOf(w) = k => At(w, "gone")
=============================================================================
