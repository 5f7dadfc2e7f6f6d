-------------------------- MODULE ReadScopeProofs ---------------------------
(***************************************************************************)
(* For every number of workers, runs and connections, and whatever each    *)
(* run reserves:                                                           *)
(*                                                                         *)
(* KILL QUERY ends its own read and no other, although a killer knows a    *)
(* connection by its id only, and ids change hands.  A connection has one  *)
(* holder, and a read gives its own back only once its killer is gone; so  *)
(* whatever a living killer is aimed at is still its read's.               *)
(*                                                                         *)
(* The cap seeding runs put on the pool is always what the runs holding it *)
(* reserved, although a run that leaves takes the first limit of its size  *)
(* out of the list, which another run may have put there.  The limits in   *)
(* the list and the runs match one to one, and runs of one size are as     *)
(* good as each other; a sum is counted, since nothing is proved here by   *)
(* induction over a fold.                                                  *)
(***************************************************************************)
EXTENDS ReadScope, FiniteSetTheorems, FunctionTheorems, SequenceTheorems,
        WellFoundedInduction, TLAPS

(***************************************************************************)
(* The inductive invariant.                                                *)
(***************************************************************************)
Holding == {"limit", "begin", "run", "finish"}
Alive   == {"started", "parked", "killing"}

Types ==
    /\ cancelled \subseteq Calls
    /\ query \in [Conns -> Workers \cup Runs \cup {NoOne}]
    /\ pc \in [Workers -> Holding \cup {"idle", "conn", "gone"}]
    /\ conn \in [Workers -> Conns \cup {NoConn}]
    /\ killer \in [Workers -> Alive \cup {"none", "done"}]
    /\ target \in [Workers -> Conns \cup {NoConn}]
    /\ run \in [Runs -> {"off", "reserved", "using", "over"}]
    /\ runConn \in [Runs -> Conns \cup {NoConn}]

Pooled == ToSet(free)

PoolInv == /\ free \in Seq(Conns) /\ IsInjective(free)
           /\ Pooled \subseteq open /\ open \subseteq Conns

\* The connection a worker or a run holds.
Hand(a) == IF a \in Workers THEN conn[a] ELSE runConn[a]

\* It is open, not in the pool and in no other hand.
HoldInv ==
    /\ \A a \in Workers \cup Runs : Hand(a) # NoConn => Hand(a) \in open \ Pooled
    /\ \A a, b \in Workers \cup Runs : a # b /\ Hand(a) = Hand(b) => Hand(a) = NoConn

\* A living killer is aimed at what its read holds.
PlaceInv ==
    /\ \A w \in Workers : pc[w] \in Holding <=> conn[w] # NoConn
    /\ \A r \in Runs : run[r] = "using" <=> runConn[r] # NoConn
    /\ \A w \in Workers : killer[w] \in Alive => pc[w] \in {"run", "finish"} /\ target[w] = conn[w]
    /\ \A w \in Workers : killer[w] = "killing" => Done(w)

\* A query on the server is that of the read on its connection, whose killer
\* lives or gave up; a read that ended before its query was cancelled.
QueryInv ==
    \A w \in Workers : \A c \in Conns : query[c] = w /\ c \notin gaveUp =>
        /\ conn[w] = c /\ killer[w] \in Alive
        /\ pc[w] = "run" \/ (pc[w] = "finish" /\ Done(w))

Logic == PlaceInv /\ QueryInv /\ NoBystanderKilled

IInv == Types /\ PoolInv /\ HoldInv /\ Logic

LEMMA Names == /\ NoConn \notin Conns /\ NoOne \notin Workers /\ NoOne \notin Runs
               /\ Workers \cap Runs = {}
  BY PoolAssumption, ReadAssumption

(***************************************************************************)
(* The pool.                                                               *)
(***************************************************************************)
\* A connection that is handed out was in nobody's hand.
LEMMA Taking ==
    ASSUME PoolInv, Take
    PROVE  /\ PoolInv' /\ Taken \in Conns
           /\ Taken \in open' \ Pooled'
           /\ Taken \notin open \ Pooled
           /\ \A c \in open \ Pooled : c \in open' \ Pooled'
<1>1. CASE free = <<>>
  <2>1. Taken \in Fresh
    BY <1>1 DEF Take, CanTake, Taken
  <2>2. free' = free /\ open' = open \cup {Taken}
    BY <1>1 DEF Take
  <2>3. Taken \in Conns \ open /\ Pooled' = Pooled
    BY <2>1, <2>2 DEF Fresh, Pooled
  <2> QED
    BY <2>2, <2>3 DEF PoolInv
<1>2. CASE free # <<>>
  <2> DEFINE n == Len(free)
  <2>1. n \in Nat /\ n > 0 /\ DOMAIN free = 1..n /\ \A i \in 1..n : free[i] \in Conns
    BY <1>2 DEF PoolInv
  <2>2. Taken = free[n] /\ open' = open \cup {Taken} /\ free' = SubSeq(free, 1, n - 1)
    BY <1>2 DEF Take, Taken, Last, Front
  <2>3. free' \in Seq(Conns) /\ Len(free') = n - 1 /\ \A i \in 1..(n - 1) : free'[i] = free[i]
    BY <2>1, <2>2 DEF PoolInv
  <2>4. DOMAIN free' = 1..(n - 1)
    BY <2>3
  <2>5. Pooled' = Pooled \ {Taken} /\ Taken \in Pooled
    <3>1. Pooled = {free[i] : i \in 1..n} /\ Pooled' = {free[i] : i \in 1..(n - 1)}
      BY <2>1, <2>3, <2>4 DEF Pooled, ToSet
    <3>2. n \in 1..n /\ 1..(n - 1) = (1..n) \ {n}
      BY <2>1
    <3>3. \A i \in 1..n : free[i] = free[n] => i = n
      BY <2>1, <3>2 DEF PoolInv, IsInjective
    <3> QED
      BY <2>2, <3>1, <3>2, <3>3
  <2>6. IsInjective(free)'
    BY <2>1, <2>3, <2>4 DEF PoolInv, IsInjective
  <2> QED
    BY <2>1, <2>2, <2>3, <2>5, <2>6 DEF PoolInv
<1> QED
  BY <1>1, <1>2

\* A connection borrowed for one statement is nobody's before and after.
LEMMA Borrowing ==
    ASSUME PoolInv, Borrow
    PROVE  PoolInv' /\ \A c \in open \ Pooled : c \in open' \ Pooled'
<1>1. CASE free = <<>>
  <2>1. Taken \in Fresh
    BY <1>1 DEF Borrow, CanTake, Taken
  <2>2. free' = <<Taken>> /\ open' = open \cup {Taken}
    BY <1>1 DEF Borrow
  <2>3. free' \in Seq(Conns) /\ IsInjective(free)' /\ Pooled' = {Taken}
    BY <2>1, <2>2 DEF Fresh, IsInjective, Pooled, ToSet
  <2> QED
    BY <2>1, <2>2, <2>3 DEF PoolInv, Fresh
<1>2. CASE free # <<>>
  <2>1. free' = free /\ open' = open \cup {Taken} /\ Taken = free[Len(free)]
    BY <1>2 DEF Borrow, Taken, Last
  <2>2. Taken \in Pooled
    BY <1>2, <2>1 DEF Pooled, ToSet, PoolInv
  <2> QED
    BY <2>1, <2>2 DEF PoolInv, Pooled
<1> QED
  BY <1>1, <1>2

\* Giving one back leaves the others where they are.
LEMMA GivingBack ==
    ASSUME PoolInv, NEW c \in open \ Pooled, NEW isBroken, NEW settings,
           GiveBack(c, isBroken, settings)
    PROVE  PoolInv' /\ \A d \in (open \ Pooled) \ {c} : d \in open' \ Pooled'
<1>1. CASE UNCHANGED free /\ open' = open \ {c}
  BY <1>1 DEF PoolInv, Pooled
<1>2. CASE free' = Append(free, c) /\ UNCHANGED open
  <2> DEFINE n == Len(free)
  <2>1. n \in Nat /\ DOMAIN free = 1..n /\ c \in Conns
    BY DEF PoolInv
  <2>2. /\ free' \in Seq(Conns) /\ Len(free') = n + 1 /\ DOMAIN free' = 1..(n + 1)
        /\ \A i \in 1..n : free'[i] = free[i]
        /\ free'[n + 1] = c
    BY <1>2, <2>1 DEF PoolInv
  <2>3. Pooled' = Pooled \cup {c}
    BY <2>1, <2>2 DEF Pooled, ToSet
  <2>4. IsInjective(free)'
    BY <2>1, <2>2 DEF PoolInv, IsInjective, Pooled, ToSet
  <2> QED
    BY <1>2, <2>2, <2>3, <2>4 DEF PoolInv
<1> QED
  BY <1>1, <1>2 DEF GiveBack

(***************************************************************************)
(* Who holds what.                                                         *)
(***************************************************************************)
\* One hand takes what was in no hand, or lets go of what it held; the others
\* keep theirs, wherever the pool goes.
LEMMA OneHandMoves ==
    ASSUME HoldInv, NEW a \in Workers \cup Runs,
           \A b \in (Workers \cup Runs) \ {a} :
               /\ Hand(b)' = Hand(b)
               /\ Hand(b) # NoConn => Hand(b) \in open' \ Pooled' /\ Hand(b) # Hand(a)',
           Hand(a)' # NoConn => Hand(a)' \in open' \ Pooled'
    PROVE  HoldInv'
  BY DEF HoldInv

LEMMA HandsStay ==
    ASSUME HoldInv, UNCHANGED <<conn, runConn>>,
           \A c \in open \ Pooled : c \in open' \ Pooled'
    PROVE  HoldInv'
<1>1. \A a \in Workers \cup Runs : Hand(a)' = Hand(a)
  BY DEF Hand
<1> QED
  BY <1>1 DEF HoldInv

\* A worker or a run gets a connection.
LEMMA HandTakes ==
    ASSUME PoolInv, HoldInv, Take, NEW a \in Workers \cup Runs,
           Hand(a) = NoConn, Hand(a)' = Taken,
           \A b \in (Workers \cup Runs) \ {a} : Hand(b)' = Hand(b)
    PROVE  PoolInv' /\ HoldInv'
<1>1. \A b \in Workers \cup Runs : Hand(b) # NoConn => Hand(b) \in open \ Pooled
  BY DEF HoldInv
<1>2. \A b \in (Workers \cup Runs) \ {a} :
         Hand(b) # NoConn => Hand(b) \in open' \ Pooled' /\ Hand(b) # Hand(a)'
  BY <1>1, Taking
<1> QED
  BY <1>2, Taking, OneHandMoves

\* It gives the connection back.
LEMMA HandLetsGo ==
    ASSUME PoolInv, HoldInv, NEW a \in Workers \cup Runs, Hand(a) # NoConn,
           NEW isBroken, NEW settings, GiveBack(Hand(a), isBroken, settings),
           Hand(a)' = NoConn,
           \A b \in (Workers \cup Runs) \ {a} : Hand(b)' = Hand(b)
    PROVE  PoolInv' /\ HoldInv'
<1>1. Hand(a) \in open \ Pooled
  BY DEF HoldInv
<1>2. PoolInv' /\ \A d \in (open \ Pooled) \ {Hand(a)} : d \in open' \ Pooled'
  BY <1>1, GivingBack
<1>3. \A b \in (Workers \cup Runs) \ {a} :
         Hand(b) # NoConn => Hand(b) \in (open \ Pooled) \ {Hand(a)}
  BY DEF HoldInv
<1> QED
  BY <1>2, <1>3, OneHandMoves

LEMMA Apart ==
    ASSUME HoldInv
    PROVE  /\ \A v, w \in Workers : v # w /\ conn[v] = conn[w] => conn[v] = NoConn
           /\ \A w \in Workers, r \in Runs : conn[w] = runConn[r] => conn[w] = NoConn
           /\ \A r, s \in Runs : r # s /\ runConn[r] = runConn[s] => runConn[r] = NoConn
<1>1. \A w \in Workers : Hand(w) = conn[w]
  BY DEF Hand
<1>2. \A r \in Runs : Hand(r) = runConn[r]
  BY Names DEF Hand
<1> QED
  BY <1>1, <1>2, Names DEF HoldInv

\* What a worker does when its read has returned.
LEMMA Returning ==
    ASSUME NEW w \in Workers, NEW e, Returned(w, e)
    PROVE  pc' = [pc EXCEPT ![w] = "conn"] \/ pc' = [pc EXCEPT ![w] = "idle"]
  BY DEF Returned, Record

(***************************************************************************)
(* The steps of a worker.                                                  *)
(***************************************************************************)
\* Steps that leave connections, killers and queries alone.
LEMMA Idling ==
    ASSUME IInv, NEW w \in Workers, Receive(w) \/ Refuse(w) \/ Leave(w) \/ GetConnFails(w)
    PROVE  IInv'
<1> USE DEF IInv, Types
<1>1. /\ UNCHANGED <<poolVars, cancelled, conn, killVars, runVars>>
      /\ pc[w] \in {"idle", "conn"}
      /\ \E p \in {"idle", "conn", "gone"} : pc' = [pc EXCEPT ![w] = p]
  <2>1. CASE Receive(w)
    BY <2>1 DEF Receive
  <2>2. CASE Refuse(w)
    BY <2>2 DEF Refuse, readVars
  <2>3. CASE Leave(w)
    BY <2>3 DEF Leave, workVars
  <2>4. CASE GetConnFails(w)
    BY <2>4, Returning DEF GetConnFails, At
  <2> QED
    BY <2>1, <2>2, <2>3, <2>4
<1>2. Types' /\ PoolInv' /\ HoldInv'
  BY <1>1, HandsStay DEF poolVars, runVars, killVars, PoolInv, Pooled
<1>3. PlaceInv'
  BY <1>1 DEF Logic, PlaceInv, Holding, Done, runVars, killVars
<1>4. QueryInv' /\ NoBystanderKilled'
  BY <1>1 DEF Logic, QueryInv, NoBystanderKilled, At, Done, poolVars, runVars, killVars
<1> QED
  BY <1>2, <1>3, <1>4 DEF Logic

LEMMA Getting ==
    ASSUME IInv, NEW w \in Workers, GetConn(w)
    PROVE  IInv'
<1> USE DEF IInv, Types
<1>1. /\ UNCHANGED <<query, cancelled, killVars, runVars>>
      /\ pc[w] = "conn" /\ pc' = [pc EXCEPT ![w] = "limit"]
      /\ conn' = [conn EXCEPT ![w] = Taken] /\ Take
  BY DEF GetConn, At, Goto, workVars
<1>2. Taken \in Conns
  BY <1>1, Taking
<1>3. conn[w] = NoConn
  BY <1>1 DEF Logic, PlaceInv, Holding
<1>4. /\ Hand(w) = NoConn /\ Hand(w)' = Taken
      /\ \A b \in (Workers \cup Runs) \ {w} : Hand(b)' = Hand(b)
  BY <1>1, <1>3 DEF Hand, runVars
<1>5. PoolInv' /\ HoldInv'
  BY <1>1, <1>4, HandTakes
<1>6. Types'
  BY <1>1, <1>2 DEF Holding, runVars, killVars
<1>7. PlaceInv'
  BY <1>1, <1>2, <1>3, Names DEF Logic, PlaceInv, Holding, Done, runVars, killVars
<1>8. QueryInv' /\ NoBystanderKilled'
  BY <1>1, <1>2, <1>3, Names DEF Logic, QueryInv, NoBystanderKilled, At, Done, runVars, killVars
<1> QED
  BY <1>5, <1>6, <1>7, <1>8 DEF Logic

\* The read gives its connection back: without a killer, or after it.
LEMMA LettingGo ==
    ASSUME IInv, NEW w \in Workers, AskIdFails(w) \/ Reset(w)
    PROVE  IInv'
<1> USE DEF IInv, Types
<1>1. /\ UNCHANGED <<query, cancelled, target, gaveUp, runVars>>
      /\ conn' = [conn EXCEPT ![w] = NoConn]
      /\ \E p \in {"idle", "conn"} : pc' = [pc EXCEPT ![w] = p]
      /\ \E isBroken, settings : GiveBack(conn[w], isBroken, settings)
      /\ \E k \in {"none", "done"} : killer' = [killer EXCEPT ![w] = k]
      /\ conn[w] # NoConn
      /\ killer[w] \notin Alive
  <2>1. CASE AskIdFails(w)
    <3>1. pc[w] = "limit"
      BY <2>1 DEF AskIdFails, At
    <3>2. conn[w] # NoConn /\ killer[w] \notin Alive /\ killer[w] \in {"none", "done"}
      BY <3>1 DEF Logic, PlaceInv, Holding, Alive
    <3>3. killer' = [killer EXCEPT ![w] = killer[w]]
      BY <2>1 DEF AskIdFails, killVars
    <3>4. pc' = [pc EXCEPT ![w] = "conn"] \/ pc' = [pc EXCEPT ![w] = "idle"]
      BY <2>1, Returning DEF AskIdFails
    <3> QED
      BY <2>1, <3>2, <3>3, <3>4 DEF AskIdFails, killVars, runVars
  <2>2. CASE Reset(w)
    <3>1. pc[w] = "finish" /\ killer[w] \in {"none", "done"}
      BY <2>2 DEF Reset, At, KillerGone
    <3>2. conn[w] # NoConn /\ killer[w] \notin Alive
      BY <3>1 DEF Logic, PlaceInv, Holding, Alive
    <3>3. killer' = [killer EXCEPT ![w] = "none"]
      BY <2>2, <3>1 DEF Reset
    <3>4. pc' = [pc EXCEPT ![w] = "conn"] \/ pc' = [pc EXCEPT ![w] = "idle"]
      BY <2>2, Returning DEF Reset
    <3> QED
      BY <2>2, <3>2, <3>3, <3>4 DEF Reset, runVars
  <2> QED
    BY <2>1, <2>2
<1>2. /\ Hand(w) = conn[w] /\ Hand(w)' = NoConn
      /\ \A b \in (Workers \cup Runs) \ {w} : Hand(b)' = Hand(b)
  BY <1>1 DEF Hand, runVars
<1>3. PoolInv' /\ HoldInv'
  BY <1>1, <1>2, HandLetsGo
<1>4. Types'
  BY <1>1 DEF Holding, runVars
<1>5. PlaceInv'
  BY <1>1 DEF Logic, PlaceInv, Holding, Alive, Done, runVars
<1>6. QueryInv' /\ NoBystanderKilled'
  BY <1>1 DEF Logic, QueryInv, NoBystanderKilled, At, Done, runVars
<1> QED
  BY <1>3, <1>4, <1>5, <1>6 DEF Logic

\* Steps on the connection a read holds, but for its query.
LEMMA Limiting ==
    ASSUME IInv, NEW w \in Workers, SetLimits(w) \/ SetLimitsFails(w)
    PROVE  IInv'
<1> USE DEF IInv, Types
<1>1. /\ UNCHANGED <<open, free, query, cancelled, conn, killVars, runVars>>
      /\ pc[w] = "limit"
      /\ \E p \in {"begin", "finish"} : pc' = [pc EXCEPT ![w] = p]
  BY DEF SetLimits, SetLimitsFails, At, Goto, workVars
<1>2. Types' /\ PoolInv' /\ HoldInv'
  BY <1>1, HandsStay DEF Holding, runVars, killVars, PoolInv, Pooled
<1>3. PlaceInv'
  BY <1>1 DEF Logic, PlaceInv, Holding, Done, runVars, killVars
<1>4. QueryInv' /\ NoBystanderKilled'
  BY <1>1 DEF Logic, QueryInv, NoBystanderKilled, At, Done, runVars, killVars
<1> QED
  BY <1>2, <1>3, <1>4 DEF Logic

\* The killer is aimed at the connection the query goes out on.
LEMMA Beginning ==
    ASSUME IInv, NEW w \in Workers, Begin(w)
    PROVE  IInv'
<1> USE DEF IInv, Types
<1>1. /\ UNCHANGED <<open, free, cancelled, conn, gaveUp, runVars>>
      /\ pc[w] = "begin"
      /\ killer' = [killer EXCEPT ![w] = "started"]
      /\ target' = [target EXCEPT ![w] = conn[w]]
  BY DEF Begin, At, workVars
<1>2. conn[w] \in Conns
  BY <1>1 DEF Logic, PlaceInv, Holding
<1>3. \/ ~Done(w) /\ query' = [query EXCEPT ![conn[w]] = w] /\ pc' = [pc EXCEPT ![w] = "run"]
      \/ Done(w) /\ query' = query /\ pc' = [pc EXCEPT ![w] = "finish"]
  BY DEF Begin, Goto
<1>4. Types' /\ PoolInv' /\ HoldInv'
  BY <1>1, <1>2, <1>3, HandsStay DEF Holding, Alive, runVars, PoolInv, Pooled
<1>5. PlaceInv'
  BY <1>1, <1>3 DEF Logic, PlaceInv, Holding, Alive, Done, runVars
<1>6. QueryInv'
  BY <1>1, <1>2, <1>3, Apart, Names DEF Logic, QueryInv, Alive, Done
<1>7. NoBystanderKilled'
  BY <1>1, <1>2, <1>3, Apart, Names DEF Logic, PlaceInv, NoBystanderKilled, At, Done, runVars
<1> QED
  BY <1>4, <1>5, <1>6, <1>7 DEF Logic

\* The query of a read is over, or its driver has stopped listening.
LEMMA Answering ==
    ASSUME IInv, NEW w \in Workers, Answer(w) \/ DriverCancels(w) \/ Interrupted(w)
    PROVE  IInv'
<1> USE DEF IInv, Types
<1>1. /\ UNCHANGED <<open, free, cancelled, conn, killVars, runVars>>
      /\ pc[w] = "run" /\ pc' = [pc EXCEPT ![w] = "finish"]
  BY DEF Answer, DriverCancels, Interrupted, At, Goto, workVars, poolVars
<1>2. conn[w] \in Conns
  BY <1>1 DEF Logic, PlaceInv, Holding
<1>3. \/ query' = [query EXCEPT ![conn[w]] = NoOne]
      \/ query' = query /\ (Done(w) \/ query[conn[w]] # w)
  BY DEF Answer, DriverCancels, Interrupted, poolVars
<1>4. Types' /\ PoolInv' /\ HoldInv'
  BY <1>1, <1>2, <1>3, HandsStay DEF Holding, runVars, killVars, PoolInv, Pooled
<1>5. PlaceInv'
  BY <1>1 DEF Logic, PlaceInv, Holding, Done, runVars, killVars
<1>6. QueryInv'
  BY <1>1, <1>2, <1>3, Names DEF Logic, QueryInv, Done, killVars
<1>7. NoBystanderKilled'
  BY <1>1, <1>2, <1>3, Apart, Names DEF Logic, PlaceInv, NoBystanderKilled, At, Done, runVars
<1> QED
  BY <1>4, <1>5, <1>6, <1>7 DEF Logic

(***************************************************************************)
(* The steps of a killer, of the server and of the user.                   *)
(***************************************************************************)
\* A killer looks, ends without having killed, or wakes.
LEMMA Watching ==
    ASSUME IInv, NEW w \in Workers,
           Park(w) \/ KillerWakes(w) \/ SeesFinished(w) \/ KillFails(w)
    PROVE  IInv'
<1> USE DEF IInv, Types
<1>1. /\ UNCHANGED <<poolVars, cancelled, pc, conn, runVars>>
      /\ killer[w] \in Alive
  BY DEF Park, KillerWakes, SeesFinished, KillFails, workVars, readVars, Alive
<1>2. \/ target' = target /\ gaveUp' = gaveUp /\ killer' = [killer EXCEPT ![w] = "parked"]
      \/ /\ target' = target /\ gaveUp' = gaveUp /\ killer' = [killer EXCEPT ![w] = "killing"]
         /\ Done(w)
      \/ /\ target' = [target EXCEPT ![w] = NoConn] /\ killer' = [killer EXCEPT ![w] = "done"]
         /\ \/ gaveUp' = gaveUp \cup {target[w]}
            \/ gaveUp' = gaveUp /\ pc[w] = "finish" /\ ~Done(w)
  BY DEF Park, KillerWakes, SeesFinished, KillFails, KillerEnds, At
<1>3. target[w] = conn[w]
  BY <1>1 DEF Logic, PlaceInv
<1>4. Types' /\ PoolInv' /\ HoldInv'
  BY <1>1, <1>2, HandsStay DEF Alive, poolVars, runVars, PoolInv, Pooled
<1>5. PlaceInv'
  BY <1>1, <1>2 DEF Logic, PlaceInv, Alive, Done, runVars
<1>6. QueryInv'
  BY <1>1, <1>2, <1>3 DEF Logic, QueryInv, Alive, Done, poolVars
<1>7. NoBystanderKilled'
  BY <1>1 DEF Logic, NoBystanderKilled, At, Done, poolVars, runVars
<1> QED
  BY <1>4, <1>5, <1>6, <1>7 DEF Logic

\* The kill itself: what it is aimed at is still its own read's.
LEMMA Killing ==
    ASSUME IInv, NEW w \in Workers, Kill(w)
    PROVE  IInv'
<1> USE DEF IInv, Types
<1>1. /\ UNCHANGED <<cancelled, pc, conn, gaveUp, runVars>>
      /\ killer[w] = "killing" /\ Borrow
      /\ killer' = [killer EXCEPT ![w] = "done"]
      /\ target' = [target EXCEPT ![w] = NoConn]
      /\ query' = [query EXCEPT ![target[w]] = NoOne]
  BY DEF Kill, KillerEnds, workVars, readVars
<1>2. target[w] = conn[w] /\ conn[w] \in Conns /\ Done(w)
  BY <1>1 DEF Logic, PlaceInv, Alive, Holding
<1>3. Types' /\ PoolInv' /\ HoldInv'
  BY <1>1, <1>2, Borrowing, HandsStay DEF runVars
<1>4. PlaceInv'
  BY <1>1 DEF Logic, PlaceInv, Alive, Done, runVars
<1>5. QueryInv'
  BY <1>1, <1>2, Names DEF Logic, QueryInv, Done
<1>6. NoBystanderKilled'
  BY <1>1, <1>2, Apart, Names DEF Logic, PlaceInv, NoBystanderKilled, At, Done, runVars, Holding
<1> QED
  BY <1>3, <1>4, <1>5, <1>6 DEF Logic

LEMMA Ending ==
    ASSUME IInv, NEW c \in Conns, ThreadEnds(c)
    PROVE  IInv'
<1> USE DEF IInv, Types
<1>1. /\ UNCHANGED <<open, free, cancelled, pc, conn, killer, target, runVars>>
      /\ query[c] \in Workers
      /\ ~(pc[query[c]] = "run" /\ conn[query[c]] = c)
      /\ query' = [query EXCEPT ![c] = NoOne] /\ gaveUp' = gaveUp \ {c}
  BY DEF ThreadEnds, Abandoned, At, workVars, readVars
<1>2. Types' /\ PoolInv' /\ HoldInv'
  BY <1>1, HandsStay DEF runVars, PoolInv, Pooled
<1>3. PlaceInv'
  BY <1>1 DEF Logic, PlaceInv, Done, runVars
<1>4. QueryInv'
  BY <1>1, Names DEF Logic, QueryInv, Done
<1>5. NoBystanderKilled'
  BY <1>1, Names DEF Logic, NoBystanderKilled, PlaceInv, At, Done, runVars, Holding
<1> QED
  BY <1>2, <1>3, <1>4, <1>5 DEF Logic

LEMMA Cancelling ==
    ASSUME IInv, NEW k \in Calls, Cancel(k)
    PROVE  IInv'
<1> USE DEF IInv, Types
<1>1. /\ UNCHANGED <<poolVars, pc, conn, target, gaveUp, runVars>>
      /\ cancelled' = cancelled \cup {k}
      /\ \A w \in Workers : \/ killer'[w] = killer[w]
                            \/ killer[w] = "parked" /\ killer'[w] = "killing" /\ Done(w)'
      /\ killer' \in [Workers -> Alive \cup {"none", "done"}]
  BY DEF Cancel, Done, readVars, Alive
<1>2. \A w \in Workers : Done(w) => Done(w)'
  BY <1>1 DEF Done
<1>3. Types' /\ PoolInv' /\ HoldInv'
  BY <1>1, HandsStay DEF poolVars, runVars, PoolInv, Pooled
<1>4. PlaceInv'
  BY <1>1, <1>2 DEF Logic, PlaceInv, Alive, runVars
<1>5. QueryInv'
  BY <1>1, <1>2 DEF Logic, QueryInv, Alive, poolVars
<1>6. NoBystanderKilled'
  BY <1>1, <1>2 DEF Logic, NoBystanderKilled, At, poolVars, runVars
<1> QED
  BY <1>3, <1>4, <1>5, <1>6 DEF Logic

(***************************************************************************)
(* The steps of a seeding run.                                             *)
(***************************************************************************)
LEMMA Reserving ==
    ASSUME IInv, NEW r \in Runs, Reserve(r) \/ Release(r)
    PROVE  IInv'
<1> USE DEF IInv, Types
<1>1. /\ UNCHANGED <<open, free, query, cancelled, pc, conn, killVars, runConn>>
      /\ run[r] # "using"
      /\ \E s \in {"reserved", "over"} : run' = [run EXCEPT ![r] = s]
  BY DEF Reserve, Release, workVars, readVars
<1>2. Types' /\ PoolInv' /\ HoldInv'
  BY <1>1, HandsStay DEF killVars, PoolInv, Pooled
<1>3. PlaceInv'
  BY <1>1 DEF Logic, PlaceInv, Done, killVars
<1>4. QueryInv' /\ NoBystanderKilled'
  BY <1>1 DEF Logic, QueryInv, NoBystanderKilled, At, Done, killVars
<1> QED
  BY <1>2, <1>3, <1>4 DEF Logic

LEMMA Using ==
    ASSUME IInv, NEW r \in Runs, Use(r)
    PROVE  IInv'
<1> USE DEF IInv, Types
<1>1. /\ UNCHANGED <<cancelled, pc, conn, killVars>>
      /\ run[r] = "reserved" /\ Take
      /\ run' = [run EXCEPT ![r] = "using"]
      /\ runConn' = [runConn EXCEPT ![r] = Taken]
      /\ query' = [query EXCEPT ![Taken] = r]
  BY DEF Use, workVars, readVars
<1>2. Taken \in Conns /\ Taken \notin open \ Pooled
  BY <1>1, Taking
<1>3. runConn[r] = NoConn
  BY <1>1 DEF Logic, PlaceInv
<1>4. /\ r \notin Workers /\ Hand(r) = NoConn /\ Hand(r)' = Taken
      /\ \A b \in (Workers \cup Runs) \ {r} : Hand(b)' = Hand(b)
  BY <1>1, <1>3, Names DEF Hand
<1>5. PoolInv' /\ HoldInv'
  BY <1>1, <1>4, HandTakes
<1>6. \A a \in Workers \cup Runs : Hand(a) # Taken
  BY <1>2, Names DEF HoldInv
<1>7. /\ \A w \in Workers : conn[w] # Taken
      /\ \A s \in Runs : runConn[s] # Taken
  BY <1>6, Names DEF Hand
<1>8. Types'
  BY <1>1, <1>2 DEF killVars
<1>9. PlaceInv'
  BY <1>1, <1>2, Names DEF Logic, PlaceInv, Done, killVars
<1>10. QueryInv'
  BY <1>1, <1>2, Names DEF Logic, QueryInv, Done, killVars
<1>11. NoBystanderKilled'
  BY <1>1, <1>2, <1>7, Names DEF Logic, PlaceInv, NoBystanderKilled, At, Done, killVars, Holding
<1> QED
  BY <1>5, <1>8, <1>9, <1>10, <1>11 DEF Logic

LEMMA Leaving ==
    ASSUME IInv, NEW r \in Runs, Used(r)
    PROVE  IInv'
<1> USE DEF IInv, Types
<1>1. /\ UNCHANGED <<cancelled, pc, conn, killVars>>
      /\ run[r] = "using"
      /\ \E isBroken, settings : GiveBack(runConn[r], isBroken, settings)
      /\ run' = [run EXCEPT ![r] = "reserved"]
      /\ runConn' = [runConn EXCEPT ![r] = NoConn]
      /\ query' = [query EXCEPT ![runConn[r]] = NoOne]
  BY DEF Used, workVars, readVars
<1>2. runConn[r] # NoConn /\ runConn[r] \in Conns
  BY <1>1 DEF Logic, PlaceInv
<1>3. /\ r \notin Workers /\ Hand(r) = runConn[r] /\ Hand(r)' = NoConn
      /\ \A b \in (Workers \cup Runs) \ {r} : Hand(b)' = Hand(b)
  BY <1>1, Names DEF Hand
<1>4. PoolInv' /\ HoldInv'
  BY <1>1, <1>2, <1>3, HandLetsGo
<1>5. Types'
  BY <1>1 DEF killVars
<1>6. PlaceInv'
  BY <1>1 DEF Logic, PlaceInv, Done, killVars
<1>7. QueryInv'
  BY <1>1, <1>2, Names DEF Logic, QueryInv, Done, killVars
<1>8. NoBystanderKilled'
  BY <1>1, <1>2, Apart, Names DEF Logic, PlaceInv, NoBystanderKilled, At, Done, killVars, Holding
<1> QED
  BY <1>4, <1>5, <1>6, <1>7, <1>8 DEF Logic

(***************************************************************************)
(* The theorem.                                                            *)
(***************************************************************************)
LEMMA InitInv == Init => IInv
<1> SUFFICES ASSUME Init PROVE IInv
  OBVIOUS
<1>1. free = <<>> /\ open = {} /\ query = [c \in Conns |-> NoOne]
  BY DEF Init, PoolInit
<1>2. PoolInv
  BY <1>1 DEF PoolInv, Pooled, ToSet, IsInjective
<1>3. Types
  BY <1>1 DEF Init, Types
<1>4. \A a \in Workers \cup Runs : Hand(a) = NoConn
  BY DEF Init, Hand
<1>5. HoldInv
  BY <1>4 DEF HoldInv
<1>6. PlaceInv /\ NoBystanderKilled
  BY DEF Init, PlaceInv, NoBystanderKilled, At, Holding, Alive
<1>7. QueryInv
  BY <1>1, Names DEF QueryInv
<1> QED
  BY <1>2, <1>3, <1>5, <1>6, <1>7 DEF IInv, Logic

LEMMA Stuttering == ASSUME IInv, UNCHANGED vars PROVE IInv'
  BY HandsStay DEF IInv, Types, Logic, PoolInv, Pooled, PlaceInv, QueryInv, NoBystanderKilled,
                   At, Done, vars, poolVars, workVars, readVars, killVars, runVars

LEMMA StepInv == IInv /\ [Next]_vars => IInv'
<1> SUFFICES ASSUME IInv, [Next]_vars PROVE IInv'
  OBVIOUS
<1>1. ASSUME NEW w \in Workers, WorkerStep(w) \/ KillerStep(w) \/ Answer(w) PROVE IInv'
  BY <1>1, Idling, Getting, LettingGo, Limiting, Beginning, Answering, Watching, Killing
     DEF WorkerStep, KillerStep
<1>2. ASSUME NEW r \in Runs, RunStep(r) PROVE IInv'
  BY <1>2, Reserving, Using, Leaving DEF RunStep
<1> QED
  BY <1>1, <1>2, Ending, Cancelling, Stuttering DEF Next

LEMMA InvKills == IInv => KillsItsOwn
<1> SUFFICES ASSUME IInv PROVE KilledUnlessGaveUp
  BY DEF IInv, Logic, KillsItsOwn
<1> SUFFICES ASSUME NEW c \in Conns, Abandoned(c), c \notin gaveUp
             PROVE  pc[query[c]] = "finish" /\ conn[query[c]] = c
  BY DEF KilledUnlessGaveUp, At
<1>1. query[c] \in Workers /\ ~(pc[query[c]] = "run" /\ conn[query[c]] = c)
  BY DEF Abandoned, At
<1> QED
  BY <1>1 DEF IInv, Logic, QueryInv

\* However reads, cancels, killers and seeding runs interleave on one pool, a
\* KILL QUERY never reaches a statement but the one of its own read, and a query
\* that outlives its read on the server is one whose killer gave up
\* (readOnceMySQL, internal/db/read_scope.go).
THEOREM KillersHitTheirOwn == Spec => []KillsItsOwn
<1> QED
  BY InitInv, StepInv, InvKills, PTL DEF Spec

(***************************************************************************)
(* Smallest numbers and sets.                                              *)
(***************************************************************************)
\* A set of numbers that is not empty has a smallest.
LEMMA LeastNat ==
    ASSUME NEW C \in SUBSET Nat, C # {} PROVE \E n \in C : \A m \in C : n <= m
<1> DEFINE R == OpToRel(<, Nat)
<1>1. R = {ss \in Nat \X Nat : ss[1] < ss[2]}
  BY DEF OpToRel
<1>2. IsWellFoundedOn(R, Nat)
  BY NatLessThanWellFounded
<1> HIDE DEF R
<1>3. PICK n \in C : \A m \in C : <<m, n>> \notin R
  BY <1>2, WFMin
<1>4. ASSUME NEW m \in C PROVE n <= m
  <2>1. m \in Nat /\ n \in Nat /\ <<m, n>> \in Nat \X Nat
    OBVIOUS
  <2> QED
    BY <1>1, <1>3, <2>1
<1> QED
  BY <1>4

(***************************************************************************)
(* A sum is the number of elements of a set.                               *)
(***************************************************************************)
Numbers(f, S) == \A i \in S : f[i] \in Nat

\* f[i] elements for every i.
Units(f, S) == UNION {{i} \X (1..f[i]) : i \in S}

\* What holds of some subset of a finite set holds of a smallest one.
LEMMA Smallest ==
    ASSUME NEW S, IsFiniteSet(S), NEW C \in SUBSET (SUBSET S), C # {}
    PROVE  \E s \in C : \A t \in C : t \subseteq s => t = s
<1>1. IsWellFoundedOn(StrictSubsetOrdering(S), SUBSET S)
  BY FS_StrictSubsetOrderingWellFounded, FS_FiniteSubsetsOfFinite
<1>2. PICK s \in C : \A t \in C : <<t, s>> \notin StrictSubsetOrdering(S)
  BY <1>1, WFMin
<1>3. ASSUME NEW t \in C, t \subseteq s, t # s PROVE FALSE
  BY <1>2, <1>3 DEF StrictSubsetOrdering
<1> QED
  BY <1>3

LEMMA UnitsWithout ==
    ASSUME NEW S, NEW f, Numbers(f, S), NEW s \in SUBSET S, NEW x \in s,
           IsFiniteSet(Units(f, s \ {x}))
    PROVE  /\ IsFiniteSet(Units(f, s))
           /\ Cardinality(Units(f, s)) = f[x] + Cardinality(Units(f, s \ {x}))
<1> DEFINE U == {x} \X (1..f[x])
<1>1. Units(f, s) = Units(f, s \ {x}) \cup U
  BY DEF Units
<1>2. Units(f, s \ {x}) \cap U = {}
  BY DEF Units
<1>3. IsFiniteSet(U) /\ Cardinality(U) = f[x]
  <2>1. IsFiniteSet({x}) /\ Cardinality({x}) = 1
    BY FS_Singleton
  <2>2. f[x] \in Nat
    BY DEF Numbers
  <2>3. IsFiniteSet(1..f[x]) /\ Cardinality(1..f[x]) = f[x]
    BY <2>2, FS_Interval, SMTT(30)
  <2>4. IsFiniteSet(U) /\ Cardinality(U) = 1 * f[x]
    <3> DEFINE A == {x}
               B == 1..f[x]
    <3> HIDE DEF A, B
    <3>1. IsFiniteSet(A \X B) /\ Cardinality(A \X B) = Cardinality(A) * Cardinality(B)
      BY <2>1, <2>3, FS_Product DEF A, B
    <3> QED
      BY <2>1, <2>3, <3>1 DEF A, B
  <2> QED
    BY <2>2, <2>4
<1> HIDE DEF U
<1>4. Cardinality(Units(f, s \ {x}) \cap U) = 0
  BY <1>2, FS_EmptySet
<1>5. /\ IsFiniteSet(Units(f, s \ {x}) \cup U)
      /\ Cardinality(Units(f, s \ {x}) \cup U)
           = Cardinality(Units(f, s \ {x})) + Cardinality(U)
               - Cardinality(Units(f, s \ {x}) \cap U)
  BY <1>3, FS_Union
<1>6. Cardinality(Units(f, s \ {x})) \in Nat /\ f[x] \in Nat
  BY FS_CardinalityType DEF Numbers
<1> QED
  BY <1>1, <1>3, <1>4, <1>5, <1>6

LEMMA UnitsFinite ==
    ASSUME NEW S, IsFiniteSet(S), NEW f, Numbers(f, S), NEW s \in SUBSET S
    PROVE  IsFiniteSet(Units(f, s)) /\ Cardinality(Units(f, s)) \in Nat
<1> DEFINE C == {t \in SUBSET S : ~IsFiniteSet(Units(f, t))}
<1>1. ASSUME C # {} PROVE FALSE
  <2>0. C \in SUBSET (SUBSET S)
    OBVIOUS
  <2>1. PICK t \in C : \A u \in C : u \subseteq t => u = t
    <3> HIDE DEF C
    <3> QED
      BY <1>1, <2>0, Smallest
  <2>2. t # {}
    BY <2>1, FS_EmptySet DEF Units
  <2>3. PICK x \in t : TRUE
    BY <2>2
  <2>4. t \ {x} \notin C
    BY <2>1, <2>3
  <2>5. IsFiniteSet(Units(f, t \ {x}))
    BY <2>4
  <2> QED
    BY <2>1, <2>3, <2>5, UnitsWithout
<1>2. IsFiniteSet(Units(f, s))
  BY <1>1
<1> QED
  BY <1>2, FS_CardinalityType

\* A function that adds up f, one element after the other.
Added(h, f, s) ==
    IF s = {} THEN 0 ELSE f[CHOOSE x \in s : TRUE] + h[s \ {CHOOSE x \in s : TRUE}]
Adds(h, f, S) == \A s \in SUBSET S : h[s] = Added(h, f, s)

LEMMA CountAdds ==
    ASSUME NEW S, IsFiniteSet(S), NEW f, Numbers(f, S)
    PROVE  Adds([s \in SUBSET S |-> Cardinality(Units(f, s))], f, S)
<1> DEFINE h == [s \in SUBSET S |-> Cardinality(Units(f, s))]
<1> SUFFICES ASSUME NEW s \in SUBSET S
             PROVE  h[s] = Added(h, f, s)
  BY DEF Adds
<1>1. CASE s = {}
  BY <1>1, FS_EmptySet DEF Units, Added
<1>2. CASE s # {}
  <2> DEFINE x == CHOOSE x \in s : TRUE
  <2>1. x \in s
    BY <1>2
  <2> HIDE DEF x
  <2>2. IsFiniteSet(Units(f, s \ {x}))
    BY UnitsFinite
  <2>3. Cardinality(Units(f, s)) = f[x] + Cardinality(Units(f, s \ {x}))
    BY <2>1, <2>2, UnitsWithout
  <2>4. h[s] = f[x] + h[s \ {x}]
    BY <2>3
  <2> QED
    BY <1>2, <2>4 DEF x, Added
<1> QED
  BY <1>1, <1>2

\* Only one function adds up f: the smallest set where another differed would
\* have an element, and without it the two agree.
LEMMA AddsCounts ==
    ASSUME NEW S, IsFiniteSet(S), NEW f, Numbers(f, S), NEW h, Adds(h, f, S), NEW s \in SUBSET S
    PROVE  h[s] = Cardinality(Units(f, s))
<1> DEFINE C == {t \in SUBSET S : h[t] # Cardinality(Units(f, t))}
<1>1. ASSUME C # {} PROVE FALSE
  <2>0. C \in SUBSET (SUBSET S)
    OBVIOUS
  <2>1. PICK t \in C : \A u \in C : u \subseteq t => u = t
    <3> HIDE DEF C
    <3> QED
      BY <1>1, <2>0, Smallest
  <2>2. t # {}
    BY <2>1, FS_EmptySet DEF Units, Adds, Added
  <2> DEFINE x == CHOOSE x \in t : TRUE
  <2>3. x \in t
    BY <2>2
  <2>4. h[t] = f[x] + h[t \ {x}]
    BY <2>1, <2>2 DEF Adds, Added
  <2> HIDE DEF x
  <2>5. h[t \ {x}] = Cardinality(Units(f, t \ {x}))
    BY <2>1, <2>3
  <2>6. Cardinality(Units(f, t)) = f[x] + Cardinality(Units(f, t \ {x}))
    BY <2>1, <2>3, UnitsFinite, UnitsWithout
  <2> QED
    BY <2>1, <2>4, <2>5, <2>6
<1> QED
  BY <1>1

\* SumFunctionOnSet is defined as some function that adds up f, if there is one.
LEMMA SumCounts ==
    ASSUME NEW S, IsFiniteSet(S), NEW f, Numbers(f, S)
    PROVE  SumFunctionOnSet(f, S) = Cardinality(Units(f, S))
<1> DEFINE Sum(h) == h = [s \in SUBSET S |-> Added(h, f, s)]
           h == CHOOSE h : Sum(h)
           g == [s \in SUBSET S |-> Cardinality(Units(f, s))]
<1>1. Sum(g)
  <2>1. \A s \in SUBSET S : g[s] = Added(g, f, s)
    BY CountAdds DEF Adds
  <2>2. g = [s \in SUBSET S |-> g[s]]
    OBVIOUS
  <2> HIDE DEF g
  <2> QED
    BY <2>1, <2>2
<1>2. Sum(h)
  <2> HIDE DEF g
  <2> QED
    BY <1>1
<1>3. Adds(h, f, S)
  <2> HIDE DEF h
  <2> QED
    BY <1>2 DEF Adds
<1>4. SumFunctionOnSet(f, S) = h[S]
  BY DEF SumFunctionOnSet, FoldFunctionOnSet, MapThenFoldSet, Added
<1> HIDE DEF h
<1> QED
  BY <1>3, <1>4, AddsCounts

\* The same numbers under other names add up to the same.
Renames(b, g, f, T) == \A j \in T : g[j] = f[b[j]]

LEMMA Renamed ==
    ASSUME NEW S, IsFiniteSet(S), NEW f, Numbers(f, S),
           NEW T, NEW g, NEW b \in Bijection(T, S), Renames(b, g, f, T)
    PROVE  /\ IsFiniteSet(T) /\ Numbers(g, T)
           /\ Cardinality(Units(g, T)) = Cardinality(Units(f, S))
<1>1. /\ b \in [T -> S]
      /\ \A i, j \in T : b[i] = b[j] => i = j
      /\ \A i \in S : \E j \in T : b[j] = i
      /\ \A j \in T : g[j] = f[b[j]]
  BY DEF Renames, Bijection, Injection, Surjection, IsInjective
<1>2. Numbers(g, T)
  BY <1>1 DEF Numbers
<1>3. IsFiniteSet(T)
  <2>1. ExistsBijection(T, S)
    BY DEF ExistsBijection
  <2>2. ExistsBijection(S, T)
    BY <2>1, Fun_ExistsBijSymmetric
  <2> QED
    BY <2>2, FS_Bijection
<1> DEFINE A == Units(g, T)
           B == Units(f, S)
           h == [u \in A |-> <<b[u[1]], u[2]>>]
<1>4. \A u : u \in A <=> \E j \in T : \E m \in 1..g[j] : u = <<j, m>>
  BY DEF Units
<1>5. \A u : u \in B <=> \E i \in S : \E m \in 1..f[i] : u = <<i, m>>
  BY DEF Units
<1> HIDE DEF A, B
<1>6. \A u \in A : h[u] \in B
  BY <1>1, <1>4, <1>5
<1>7. \A u, v \in A : h[u] = h[v] => u = v
  BY <1>1, <1>4
<1>8. ASSUME NEW v \in B PROVE \E u \in A : h[u] = v
  <2>1. PICK i \in S : \E m \in 1..f[i] : v = <<i, m>>
    BY <1>5
  <2>2. PICK m \in 1..f[i] : v = <<i, m>>
    BY <2>1
  <2>3. PICK j \in T : b[j] = i
    BY <1>1
  <2>4. <<j, m>> \in A
    BY <1>1, <1>4, <2>1, <2>2, <2>3
  <2>5. h[<<j, m>>] = v
    BY <2>2, <2>3, <2>4
  <2> QED
    BY <2>4, <2>5
<1>9. h \in Bijection(A, B)
  <2>1. h \in [A -> B]
    BY <1>6
  <2> HIDE DEF h
  <2> QED
    BY <1>7, <1>8, <2>1 DEF Bijection, Injection, Surjection, IsInjective
<1>10. IsFiniteSet(A)
  <2>1. T \in SUBSET T
    OBVIOUS
  <2> QED
    BY <1>2, <1>3, <2>1, UnitsFinite DEF A
<1>11. Cardinality(A) = Cardinality(B)
  <2>1. ExistsBijection(A, B)
    BY <1>9 DEF ExistsBijection
  <2> QED
    BY <1>10, <2>1, FS_Bijection
<1> QED
  BY <1>2, <1>3, <1>11 DEF A, B

(***************************************************************************)
(* The runs that hold the pool and the limits it remembers for them.       *)
(***************************************************************************)
\* b matches the runs of A, one to one, with the positions of their limits.
Pairs(b, A, limits) ==
    /\ b \in [A -> 1..Len(limits)]
    /\ \A r, s \in A : b[r] = b[s] => r = s
    /\ \A i \in 1..Len(limits) : \E r \in A : b[r] = i
    /\ \A r \in A : limits[b[r]] = Reserved[r]

Paired(A, limits) == \E b : Pairs(b, A, limits)

\* So the limits add up to what the runs reserved.
LEMMA PairedSums ==
    ASSUME NEW A \in SUBSET Runs, NEW limits \in Seq(Nat), Paired(A, limits)
    PROVE  /\ IsFiniteSet(A)
           /\ SumOf(limits) = SumFunctionOnSet(Reserved, A)
<1> DEFINE S == 1..Len(limits)
<1>1. PICK b : Pairs(b, A, limits)
  BY DEF Paired
<1>2. Len(limits) \in Nat /\ DOMAIN limits = S /\ Numbers(limits, S)
  BY DEF Numbers
<1>3. IsFiniteSet(S)
  BY <1>2, FS_Interval
<1> HIDE DEF S
<1>4. b \in Bijection(A, S)
  BY <1>1 DEF Pairs, S, Bijection, Injection, Surjection, IsInjective
<1>5. Renames(b, Reserved, limits, A)
  BY <1>1 DEF Pairs, Renames
<1>6. /\ IsFiniteSet(A) /\ Numbers(Reserved, A)
      /\ Cardinality(Units(Reserved, A)) = Cardinality(Units(limits, S))
  BY <1>2, <1>3, <1>4, <1>5, Renamed
<1>7. SumOf(limits) = Cardinality(Units(limits, S))
  BY <1>2, <1>3, SumCounts DEF SumOf, SumFunction
<1>8. SumFunctionOnSet(Reserved, A) = Cardinality(Units(Reserved, A))
  BY <1>6, SumCounts
<1> QED
  BY <1>6, <1>7, <1>8

LEMMA PairsNone == Paired({}, <<>>)
<1>1. Pairs(<<>>, {}, <<>>)
  BY DEF Pairs
<1> QED
  BY <1>1 DEF Paired

LEMMA PairsOneMore ==
    ASSUME NEW A \in SUBSET Runs, NEW limits \in Seq(Nat), Paired(A, limits),
           NEW r \in Runs \ A
    PROVE  Paired(A \cup {r}, Append(limits, Reserved[r]))
<1> DEFINE n == Len(limits)
           B == A \cup {r}
           more == Append(limits, Reserved[r])
<1>1. PICK b : Pairs(b, A, limits)
  BY DEF Paired
<1>2. /\ n \in Nat
      /\ b \in [A -> 1..n]
      /\ \A p, q \in A : b[p] = b[q] => p = q
      /\ \A i \in 1..n : \E p \in A : b[p] = i
      /\ \A p \in A : limits[b[p]] = Reserved[p]
  BY <1>1 DEF Pairs
<1>3. /\ Len(more) = n + 1 /\ more[n + 1] = Reserved[r]
      /\ \A i \in 1..n : more[i] = limits[i]
  <2>1. Reserved[r] \in Nat
    BY PoolAssumption
  <2> QED
    BY <2>1
<1> DEFINE c == [p \in B |-> IF p = r THEN n + 1 ELSE b[p]]
<1> HIDE DEF n, more
<1>4. /\ 1..(n + 1) = (1..n) \cup {n + 1} /\ n + 1 \notin 1..n
  BY <1>2
<1>5. c[r] = n + 1 /\ \A p \in A : c[p] = b[p] /\ b[p] \in 1..n
  BY <1>2
<1>6. c \in [B -> 1..(n + 1)]
  BY <1>2, <1>4
<1> HIDE DEF c
<1>7. \A p, q \in B : c[p] = c[q] => p = q
  BY <1>2, <1>4, <1>5
<1>8. \A i \in 1..(n + 1) : \E p \in B : c[p] = i
  BY <1>2, <1>4, <1>5
<1>9. \A p \in B : more[c[p]] = Reserved[p]
  BY <1>2, <1>3, <1>5
<1>10. Pairs(c, B, more)
  BY <1>3, <1>6, <1>7, <1>8, <1>9 DEF Pairs
<1> QED
  BY <1>10 DEF Paired, more

\* One of the limits is taken out, the first of its value; those after it move
\* up.
Removed(limits, less, k) ==
    /\ less \in Seq(Nat) /\ Len(less) = Len(limits) - 1
    /\ \A i \in 1..(Len(limits) - 1) :
          less[i] = IF i < k THEN limits[i] ELSE limits[i + 1]

LEMMA RemovesOne ==
    ASSUME NEW limits \in Seq(Nat), NEW e, \E i \in 1..Len(limits) : limits[i] = e
    PROVE  \E k \in 1..Len(limits) :
              limits[k] = e /\ Removed(limits, RemoveFirst(limits, e), k)
<1> DEFINE n == Len(limits)
           I == {i \in 1..n : limits[i] = e}
           k == CHOOSE i \in I : \A j \in I : i <= j
           less == SubSeq(limits, 1, k - 1) \o SubSeq(limits, k + 1, n)
<1>1. n \in Nat /\ I \in SUBSET Nat /\ I # {}
  OBVIOUS
<1>2. k \in I
  <2> HIDE DEF I
  <2>1. \E i \in I : \A j \in I : i <= j
    BY <1>1, LeastNat
  <2> QED
    BY <2>1
<1>3. RemoveFirst(limits, e) = less
  BY <1>1 DEF RemoveFirst, RemoveAt, SelectInSeq, Min
<1> HIDE DEF k
<1>4. k \in 1..n /\ limits[k] = e
  BY <1>2
<1> DEFINE front == SubSeq(limits, 1, k - 1)
           rest == SubSeq(limits, k + 1, n)
<1>5. /\ front \in Seq(Nat) /\ Len(front) = k - 1
      /\ \A i \in 1..(k - 1) : front[i] = limits[i]
  BY <1>4
<1>6. /\ rest \in Seq(Nat) /\ Len(rest) = n - k
      /\ \A i \in 1..(n - k) : rest[i] = limits[k + i]
  BY <1>4
<1> DEFINE both == front \o rest
<1> HIDE DEF front, rest
<1>7. Removed(limits, both, k)
  <2>1. /\ both \in Seq(Nat) /\ Len(both) = Len(front) + Len(rest)
        /\ \A i \in 1..Len(front) + Len(rest) :
              both[i] = IF i <= Len(front) THEN front[i] ELSE rest[i - Len(front)]
    <3>1. front \in Seq(Nat) /\ rest \in Seq(Nat)
      BY <1>5, <1>6
    <3> QED
      BY <3>1, ConcatProperties
  <2> HIDE DEF both, n
  <2>2. n \in Nat /\ k \in Nat /\ (k - 1) + (n - k) = n - 1
    BY <1>1, <1>4
  <2>3. ASSUME NEW i \in 1..(n - 1)
        PROVE  both[i] = IF i < k THEN limits[i] ELSE limits[i + 1]
    <3>1. CASE i < k
      BY <1>4, <1>5, <1>6, <2>1, <2>2, <3>1
    <3>2. CASE i >= k
      <4>1. i - (k - 1) \in 1..(n - k) /\ k + (i - (k - 1)) = i + 1
        BY <1>4, <2>2, <3>2
      <4>2. both[i] = rest[i - Len(front)]
        BY <1>4, <1>5, <1>6, <2>1, <2>2, <3>2
      <4>3. both[i] = rest[i - (k - 1)]
        BY <1>5, <4>2
      <4>4. rest[i - (k - 1)] = limits[k + (i - (k - 1))]
        BY <1>6, <4>1
      <4>5. both[i] = limits[i + 1]
        BY <4>1, <4>3, <4>4
      <4>6. ~(i < k)
        BY <2>2, <3>2
      <4> QED
        BY <4>5, <4>6
    <3> QED
      BY <1>4, <2>2, <3>1, <3>2
  <2> QED
    BY <1>5, <1>6, <2>1, <2>2, <2>3 DEF Removed, n
<1> QED
  BY <1>3, <1>4, <1>7 DEF front, rest, both

\* Runs that reserved as much are as good as each other: the one matched with
\* the limit taken out gets the place of the run that leaves.
LEMMA PairsOneLess ==
    ASSUME NEW A \in SUBSET Runs, NEW limits \in Seq(Nat), Paired(A, limits),
           NEW r \in A
    PROVE  /\ RemoveFirst(limits, Reserved[r]) \in Seq(Nat)
           /\ Paired(A \ {r}, RemoveFirst(limits, Reserved[r]))
<1> DEFINE n == Len(limits)
           B == A \ {r}
           less == RemoveFirst(limits, Reserved[r])
<1>1. PICK b : Pairs(b, A, limits)
  BY DEF Paired
<1>2. /\ n \in Nat
      /\ b \in [A -> 1..n]
      /\ \A p, q \in A : b[p] = b[q] => p = q
      /\ \A i \in 1..n : \E p \in A : b[p] = i
      /\ \A p \in A : limits[b[p]] = Reserved[p]
  BY <1>1 DEF Pairs
<1>3. PICK k \in 1..n : limits[k] = Reserved[r] /\ Removed(limits, less, k)
  <2>1. \E i \in 1..Len(limits) : limits[i] = Reserved[r]
    BY <1>2
  <2> QED
    BY <2>1, RemovesOne
<1>4. /\ less \in Seq(Nat) /\ Len(less) = n - 1
      /\ \A i \in 1..(n - 1) : less[i] = IF i < k THEN limits[i] ELSE limits[i + 1]
  BY <1>3 DEF Removed
<1> DEFINE place == [p \in B |-> IF b[p] = k THEN b[r] ELSE b[p]]
<1>5. /\ \A p \in B : place[p] \in (1..n) \ {k}
      /\ \A p \in B : limits[place[p]] = Reserved[p]
  BY <1>2, <1>3
<1>6. \A p, q \in B : place[p] = place[q] => p = q
  BY <1>2
<1>7. ASSUME NEW i \in (1..n) \ {k} PROVE \E p \in B : place[p] = i
  <2>1. PICK p \in A : b[p] = i
    BY <1>2
  <2>2. CASE p # r
    BY <2>1, <2>2
  <2>3. CASE p = r
    <3>1. PICK q \in A : b[q] = k
      BY <1>2
    <3>2. q \in B /\ place[q] = i
      BY <2>1, <2>3, <3>1
    <3> QED
      BY <3>2
  <2> QED
    BY <2>2, <2>3
<1> HIDE DEF less, n, place
<1> DEFINE c == [p \in B |-> IF place[p] < k THEN place[p] ELSE place[p] - 1]
<1>8. ASSUME NEW p \in B
      PROVE  /\ c[p] \in 1..(n - 1)
             /\ place[p] = IF c[p] < k THEN c[p] ELSE c[p] + 1
             /\ less[c[p]] = Reserved[p]
  <2>1. /\ c[p] \in 1..(n - 1)
        /\ place[p] = IF c[p] < k THEN c[p] ELSE c[p] + 1
    BY <1>2, <1>3, <1>5
  <2> HIDE DEF c
  <2>2. less[c[p]] = limits[place[p]]
    BY <1>4, <2>1
  <2> QED
    BY <1>5, <2>1, <2>2
<1>9. c \in [B -> 1..(n - 1)]
  BY <1>8
<1>10. ASSUME NEW i \in 1..(n - 1) PROVE \E p \in B : c[p] = i
  <2> DEFINE j == IF i < k THEN i ELSE i + 1
  <2>1. j \in (1..n) \ {k} /\ i = IF j < k THEN j ELSE j - 1
    BY <1>2, <1>3
  <2> HIDE DEF j
  <2>2. PICK p \in B : place[p] = j
    BY <1>7, <2>1
  <2> QED
    BY <2>1, <2>2
<1> HIDE DEF c
<1>11. \A p, q \in B : c[p] = c[q] => p = q
  BY <1>6, <1>8
<1>12. Pairs(c, B, less)
  BY <1>4, <1>8, <1>9, <1>10, <1>11 DEF Pairs
<1> QED
  BY <1>4, <1>12 DEF Paired, less

(***************************************************************************)
(* The cap of the pool.                                                    *)
(***************************************************************************)
\* What the bound remembers is the limits of the runs that hold the pool, in
\* some order, and that there was no cap before them.
CapInv ==
    /\ holders \in Seq(Nat) /\ Paired(Active, holders)
    /\ before = 0 /\ cap = SumOf(holders)

LEMMA NothingHeld == SumOf(<<>>) = 0
<1>1. Paired({}, <<>>) /\ <<>> \in Seq(Nat) /\ {} \in SUBSET Runs
  BY PairsNone
<1>2. SumOf(<<>>) = SumFunctionOnSet(Reserved, {})
  BY <1>1, PairedSums
<1>3. SumFunctionOnSet(Reserved, {}) = Cardinality(Units(Reserved, {}))
  BY FS_EmptySet, SumCounts DEF Numbers
<1>4. Units(Reserved, {}) = {}
  BY DEF Units
<1> QED
  BY <1>2, <1>3, <1>4, FS_EmptySet

LEMMA InitCap == Init => CapInv
<1> SUFFICES ASSUME Init PROVE CapInv
  OBVIOUS
<1>1. holders = <<>> /\ before = 0 /\ cap = 0 /\ Active = {}
  BY DEF Init, PoolInit, Active
<1> QED
  BY <1>1, PairsNone, NothingHeld DEF CapInv

LEMMA ReserveCap ==
    ASSUME Types, CapInv, NEW r \in Runs, Reserve(r) PROVE CapInv'
<1>1. /\ run[r] = "off" /\ run' = [run EXCEPT ![r] = "reserved"]
      /\ holders' = Append(holders, Reserved[r])
      /\ cap' = SumOf(holders')
      /\ before' = IF holders = <<>> THEN cap ELSE before
  BY DEF Reserve, Hold, Remember
<1>2. Active' = Active \cup {r} /\ r \notin Active /\ Active \in SUBSET Runs
  BY <1>1 DEF Types, Active
<1>3. Paired(Active', holders')
  BY <1>1, <1>2, PairsOneMore DEF CapInv
<1>4. holders' \in Seq(Nat)
  BY <1>1, PoolAssumption DEF CapInv
<1>5. before' = 0
  BY <1>1, NothingHeld DEF CapInv
<1>6. Paired(Active, holders)'
  BY <1>3 DEF Paired, Pairs
<1> QED
  BY <1>1, <1>4, <1>5, <1>6 DEF CapInv, SumOf

LEMMA ReleaseCap ==
    ASSUME Types, CapInv, NEW r \in Runs, Release(r) PROVE CapInv'
<1>1. /\ run[r] = "reserved" /\ run' = [run EXCEPT ![r] = "over"]
      /\ holders' = RemoveFirst(holders, Reserved[r])
      /\ cap' = IF holders' = <<>> THEN before ELSE SumOf(holders')
      /\ before' = before
  BY DEF Release, GiveUpHold
<1>2. Active' = Active \ {r} /\ r \in Active /\ Active \in SUBSET Runs
  BY <1>1 DEF Types, Active
<1>3. Paired(Active', holders') /\ holders' \in Seq(Nat)
  BY <1>1, <1>2, PairsOneLess DEF CapInv
<1>4. cap' = SumOf(holders')
  BY <1>1, NothingHeld DEF CapInv
<1> QED
  BY <1>1, <1>3, <1>4 DEF CapInv

\* No other step moves the cap or starts or ends a run.
LEMMA StepCap == IInv /\ CapInv /\ [Next]_vars => CapInv'
<1> SUFFICES ASSUME IInv, CapInv, [Next]_vars PROVE CapInv'
  OBVIOUS
<1> DEFINE Kept == UNCHANGED <<cap, before, holders, Active>>
<1>1. ASSUME Kept PROVE CapInv'
  BY <1>1 DEF CapInv
<1>2. ASSUME UNCHANGED <<cap, before, holders, run>> PROVE Kept
  BY <1>2 DEF Active
<1>3. ASSUME NEW w \in Workers, WorkerStep(w) \/ KillerStep(w) \/ Answer(w) PROVE CapInv'
  <2>1. CASE WorkerStep(w)
    BY <1>1, <1>2, <2>1
       DEF WorkerStep, Receive, Refuse, Leave, GetConn, GetConnFails, AskIdFails,
           SetLimits, SetLimitsFails, Begin, DriverCancels, Interrupted, Reset,
           poolVars, runVars
  <2>2. CASE KillerStep(w)
    BY <1>1, <1>2, <2>2
       DEF KillerStep, Park, KillerWakes, SeesFinished, Kill, KillFails, poolVars, runVars
  <2>3. CASE Answer(w)
    BY <1>1, <1>2, <2>3 DEF Answer, runVars
  <2> QED
    BY <1>3, <2>1, <2>2, <2>3
<1>4. ASSUME NEW r \in Runs, RunStep(r) PROVE CapInv'
  <2>1. CASE Use(r)
    <3>1. Active' = Active /\ UNCHANGED <<cap, before, holders>>
      BY <2>1 DEF Use, Active, IInv, Types
    <3> QED
      BY <1>1, <3>1
  <2>2. CASE Used(r)
    <3>1. Active' = Active /\ UNCHANGED <<cap, before, holders>>
      BY <2>2 DEF Used, Active, IInv, Types
    <3> QED
      BY <1>1, <3>1
  <2> QED
    BY <1>4, <2>1, <2>2, ReserveCap, ReleaseCap DEF RunStep, IInv
<1>5. ASSUME NEW k, Cancel(k) PROVE CapInv'
  BY <1>1, <1>2, <1>5 DEF Cancel, poolVars, runVars
<1>6. ASSUME NEW c, ThreadEnds(c) PROVE CapInv'
  BY <1>1, <1>2, <1>6 DEF ThreadEnds, runVars
<1>7. CASE UNCHANGED vars
  BY <1>1, <1>2, <1>7 DEF vars, poolVars, runVars
<1> QED
  BY <1>3, <1>4, <1>5, <1>6, <1>7 DEF Next

(* While runs hold the pool its cap is what they reserved together, and    *)
(* once the last is over it is what it was before the first: the limits    *)
(* remembered are those of the runs that hold it, and nothing tells two    *)
(* runs of one limit apart (seed.go:479-514).                              *)
THEOREM PoolIsGivenBack == Spec => []PoolGivenBack
<1>1. CapInv => PoolGivenBack
  <2>1. Active \in SUBSET Runs
    BY DEF Active
  <2> QED
    BY <2>1, PairedSums DEF CapInv, PoolGivenBack
<1> QED
  BY <1>1, InitInv, StepInv, InitCap, StepCap, PTL DEF Spec
=============================================================================
