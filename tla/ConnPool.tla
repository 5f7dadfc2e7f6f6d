------------------------------ MODULE ConnPool ------------------------------
(***************************************************************************)
(* The pool of database connections everything of a web session shares     *)
(* (database/sql, as internal/db and internal/seeder use it), and the cap  *)
(* seeding runs put on it while they last (seeder/seed.go boundPool).      *)
(*                                                                         *)
(* A connection is its id on the server: an id that is neither open nor    *)
(* running a query may be given to a new connection.  Session settings     *)
(* live as long as the connection, whoever holds it.                       *)
(***************************************************************************)
EXTENDS Naturals, Sequences, FiniteSets, SequencesExt

CONSTANTS Conns,     \* connection ids: as many as the server accepts
          Settings,  \* session settings a user of a connection may change
          Runs,      \* seeding runs on this pool
          Reserved,  \* the connections each reserves: its limit
          NoOne,     \* a connection whose server thread runs nothing
          NoConn     \* no connection

ASSUME PoolAssumption ==
    /\ IsFiniteSet(Conns)
    /\ Reserved \in [Runs -> Nat \ {0}]
    /\ NoOne \notin Runs
    /\ NoConn \notin Conns

VARIABLES
    open,    \* ids of the open connections
    free,    \* the ones nobody holds, the last returned at the end
    broken,  \* open, but the driver closed its end of them
    changed, \* each id: the settings that differ from the server's default
    query,   \* each id: who issued the statement its server thread runs
    cap,     \* MaxOpenConnections, 0 for no limit
    before,  \* poolBound.before: the cap the first of them found
    holders  \* poolBound.holders: the limits of the runs that hold the bound

poolVars == <<open, free, broken, changed, query, cap, before, holders>>

PoolInit ==
    /\ open = {} /\ free = <<>> /\ broken = {}
    /\ changed = [c \in Conns |-> {}]
    /\ query = [c \in Conns |-> NoOne]
    /\ cap = 0 /\ before = 0 /\ holders = <<>>

\* ids the server would give a new connection
Fresh == {c \in Conns \ open : query[c] = NoOne}

AtCap == cap # 0 /\ Cardinality(open) >= cap

\* a free connection, the one returned last, or a new one while the cap allows
\* it; Taken is the one a request gets now
CanTake == free # <<>> \/ (~AtCap /\ Fresh # {})
Taken == IF free # <<>> THEN Last(free) ELSE CHOOSE c \in Fresh : TRUE
Take ==
    /\ CanTake
    /\ free' = IF free # <<>> THEN Front(free) ELSE free
    /\ open' = open \cup {Taken}

\* dialling fails once the server accepts no more connections
DialFails == free = <<>> /\ ~AtCap /\ Fresh = {}

\* a request for one statement takes a connection and returns it
Borrow ==
    /\ CanTake
    /\ open' = open \cup {Taken}
    /\ free' = IF free # <<>> THEN free ELSE <<Taken>>

\* Close of a held connection: it goes back to the pool with the settings it
\* has, unless it is broken or one too many for a cap lowered meanwhile
GiveBack(c, isBroken, settings) ==
    IF isBroken \/ (cap # 0 /\ Cardinality(open) > cap)
    THEN /\ open' = open \ {c}
         /\ broken' = broken \ {c}
         /\ changed' = [changed EXCEPT ![c] = {}]
         /\ UNCHANGED free
    ELSE /\ free' = Append(free, c)
         /\ changed' = [changed EXCEPT ![c] = settings]
         /\ UNCHANGED <<open, broken>>

----------------------------------------------------------------------------
\* boundPool: the first run to hold the pool remembers the cap it found, the
\* last one to leave restores it, and in between the cap is what they reserved

SumOf(limits) == SumFunction(limits)

\* mutant: every run remembers the cap it finds
RememberAlways == cap

Remember == IF holders = <<>> THEN cap ELSE before

Hold(limit) ==
    /\ before' = Remember
    /\ holders' = Append(holders, limit)
    /\ cap' = SumOf(holders')

GiveUpHold(limit) ==
    /\ holders' = RemoveFirst(holders, limit)
    /\ cap' = IF holders' = <<>> THEN before ELSE SumOf(holders')
    /\ UNCHANGED before
=============================================================================
