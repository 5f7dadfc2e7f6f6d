------------------------------ MODULE WebProofs ------------------------------
(***************************************************************************)
(* The production guard holds (WritesGuarded), for any entries, addresses, *)
(* sessions and requests: what a run was guarded for when it was asked is  *)
(* where it writes, whatever the file has become and whatever session was  *)
(* opened, shared or closed on the way.  The file is not looked at again   *)
(* but for a saved target, so nothing needs to be known of its contents.   *)
(*                                                                         *)
(* That a save keeps the mark unless its label is typed (SavesAskForLabel) *)
(* does need the file, which stays a list of entries through every write.  *)
(*                                                                         *)
(* On the same invariant rest what a session still shows once the runs on  *)
(* its database are over (CachesFollowRuns), and what is left of the       *)
(* sequences they overtook (SequencesSettle).                              *)
(***************************************************************************)
EXTENDS WebRuns, SessionCache, TableGraphProofs

(***************************************************************************)
(* The inductive invariant.                                                *)
(***************************************************************************)
\* A session and a request have the fields of their records.
Fields == {"pc", "op", "form", "typed", "flag", "saw", "at", "saved", "kind", "sid",
           "marked", "wrote", "stopped"}
SessionShaped(v) ==
    v = [at |-> v.at, saved |-> v.saved, live |-> v.live, counts |-> v.counts, ddl |-> v.ddl]
RequestShaped(q) == q = [f \in Fields |-> q[f]]

SessionsShaped(sess) ==
    /\ sess = [s \in DOMAIN sess |-> sess[s]]
    /\ DOMAIN sess \subseteq Sids
    /\ \A s \in DOMAIN sess : SessionShaped(sess[s])

Running == {"checking", "writing", "wrote", "failed", "ending"}

\* The session s is open at an address the run need not spare.
FreeAt(sess, s, marked) == s \in DOMAIN sess /\ KeyOf[sess[s].at] \notin marked

\* Where a request is going, it may write: to the session it holds, to the one
\* it names, or to the address it opens a session at.
Cleared(q, sess) ==
    /\ q.wrote => q.pc \in Running \cup {"done"}
    /\ q.pc \in {"wrote", "failed"} => q.wrote
    /\ q.pc \in Running => FreeAt(sess, q.sid, q.marked)
    /\ q.pc = "resolving" =>
          /\ q.form.id # None => FreeAt(sess, q.form.id, q.marked)
          /\ q.form.at # None => KeyOf[q.form.at] \notin q.marked
    /\ q.pc \in {"dialing", "opened"} => q.saved # None \/ KeyOf[q.at] \notin q.marked
    /\ q.pc = "opened" => q.sid \in DOMAIN sess /\ sess[q.sid].at = q.at

IInv ==
    /\ SessionsShaped(session)
    /\ req = [r \in Requests |-> req[r]]
    /\ \A r \in Requests : RequestShaped(req[r]) /\ Cleared(req[r], session)

(***************************************************************************)
(* The guard.                                                              *)
(***************************************************************************)
\* A target the guard lets through is at no address that is to be spared.
LEMMA GuardClears ==
    ASSUME NEW t, NEW typed, ~Refused(TRUE, file, t, typed)
    PROVE  t.key \notin Marked(t, typed)
<1> DEFINE prod == {e \in Range(file) : e.prod}
<1> DEFINE labeled == {e \in prod : e.label = typed}
<1> DEFINE marked == ProductionEntries(file, t)
<1> SUFFICES ASSUME t.key \in Marked(t, typed) PROVE FALSE
  OBVIOUS
<1>1. /\ ~\E e \in labeled : e.id = t.saved
      /\ t.key # None /\ \E e \in prod : KeyOf[e.at] = t.key
      /\ ~\E e \in labeled : KeyOf[e.at] = t.key
  BY DEF Marked
<1>2. PICK i \in DOMAIN file : file[i].prod /\ KeyOf[file[i].at] = t.key
  BY <1>1 DEF Range
<1>3. i \in marked
  BY <1>1, <1>2 DEF ProductionEntries
<1>4. PICK j \in marked : typed = file[j].label
  BY <1>3 DEF Refused
<1>5. j \in DOMAIN file /\ file[j].prod /\ (file[j].id = t.saved \/ KeyOf[file[j].at] = t.key)
  BY <1>4 DEF ProductionEntries
<1>6. file[j] \in labeled
  BY <1>4, <1>5 DEF Range
<1> QED
  BY <1>1, <1>5, <1>6

(***************************************************************************)
(* Sessions never move.                                                    *)
(***************************************************************************)
\* A session that was open still is, or was closed, at the same address.
Kept(sess, next) == \A s \in DOMAIN sess : s \in DOMAIN next /\ next[s].at = sess[s].at

\* Nothing else of a session is an address.
LEMMA FieldKept ==
    ASSUME NEW sess, SessionsShaped(sess), NEW s, NEW x, NEW next,
           \/ next = sess
           \/ next = [sess EXCEPT ![s].saved = x]
           \/ next = [sess EXCEPT ![s].live = x]
           \/ next = [sess EXCEPT ![s].counts = x]
           \/ next = [sess EXCEPT ![s].ddl = x]
    PROVE  SessionsShaped(next) /\ Kept(sess, next)
<1>1. DOMAIN next = DOMAIN sess /\ next = [z \in DOMAIN next |-> next[z]]
  BY DEF SessionsShaped
<1>2. \A z \in DOMAIN sess : SessionShaped(next[z]) /\ next[z].at = sess[z].at
  BY DEF SessionsShaped, SessionShaped
<1> QED
  BY <1>1, <1>2 DEF SessionsShaped, Kept

\* A request that does not move stays cleared.
LEMMA StillCleared ==
    ASSUME NEW q, NEW sess, NEW next, Cleared(q, sess), Kept(sess, next)
    PROVE  Cleared(q, next)
BY DEF Cleared, Kept, FreeAt

(***************************************************************************)
(* The steps of one request.                                               *)
(***************************************************************************)
Moved(r) ==
    /\ SessionsShaped(session') /\ Kept(session, session')
    /\ \E next : Become(r, next) /\ RequestShaped(next) /\ Cleared(next, session')

\* A step that leaves the sessions alone.
LEMMA Quiet ==
    ASSUME IInv, UNCHANGED session, NEW r,
           NEW next, Become(r, next), RequestShaped(next), Cleared(next, session)
    PROVE  Moved(r)
<1>1. SessionsShaped(session) /\ Kept(session, session)
  BY FieldKept DEF IInv
<1> QED
  BY <1>1 DEF Moved

\* One that changes a field of a session.
LEMMA Touching ==
    ASSUME IInv, NEW r, NEW s, NEW x,
           \/ session' = session
           \/ session' = [session EXCEPT ![s].saved = x]
           \/ session' = [session EXCEPT ![s].live = x]
           \/ session' = [session EXCEPT ![s].counts = x]
           \/ session' = [session EXCEPT ![s].ddl = x],
           NEW next, Become(r, next), RequestShaped(next), Cleared(next, session)
    PROVE  Moved(r)
<1>1. SessionsShaped(session') /\ Kept(session, session')
  BY FieldKept DEF IInv
<1>2. Cleared(next, session')
  BY <1>1, StillCleared
<1> QED
  BY <1>1, <1>2 DEF Moved

\* The end of a request that is no run.
LEMMA DoneCleared ==
    ASSUME NEW sess
    PROVE  LET next == [Idle EXCEPT !.pc = "done"] IN RequestShaped(next) /\ Cleared(next, sess)
BY DEF Idle, RequestShaped, Fields, Cleared, Running

LEMMA EndsHere ==
    ASSUME IInv, UNCHANGED session, NEW r, Done(r)
    PROVE  Moved(r)
BY Quiet, DoneCleared DEF Done

\* Finding an open session, or going to open one, at an address that is free.
LEMMA ReuseMoves ==
    ASSUME IInv, UNCHANGED session, NEW r, NEW at, NEW next, Reuses(r, at, next),
           RequestShaped(next), ~next.wrote, next.saved # None \/ KeyOf[at] \notin next.marked
    PROVE  Moved(r)
<1>1. CASE \E s \in SameDsn(at) : Become(r, [next EXCEPT !.pc = "opened", !.at = at, !.sid = s])
  <2>1. PICK s \in SameDsn(at) : Become(r, [next EXCEPT !.pc = "opened", !.at = at, !.sid = s])
    BY <1>1
  <2> DEFINE new == [next EXCEPT !.pc = "opened", !.at = at, !.sid = s]
  <2>2. s \in DOMAIN session /\ session[s].at = at
    BY DEF SameDsn, Live, Opened
  <2>3. RequestShaped(new) /\ Cleared(new, session)
    BY <2>2 DEF RequestShaped, Fields, Cleared, Running
  <2> QED
    BY <2>1, <2>3, Quiet
<1>2. CASE Become(r, [next EXCEPT !.pc = "dialing", !.at = at])
  <2> DEFINE new == [next EXCEPT !.pc = "dialing", !.at = at]
  <2>1. RequestShaped(new) /\ Cleared(new, session)
    BY DEF RequestShaped, Fields, Cleared, Running
  <2> QED
    BY <1>2, <2>1, Quiet
<1> QED
  BY <1>1, <1>2 DEF Reuses

\* A run asked for is guarded: what it names or holds is free.
LEMMA GuardedMoves ==
    ASSUME IInv, NEW r, NEW kind, NEW s \in Live, NEW ref, NEW t, NEW typed,
           Guarded(r, kind, s, ref, t, typed),
           ref = NoRef => t.key = KeyOf[session[s].at],
           ref.id # None => ref.id \in Live /\ t.key = KeyOf[session[ref.id].at],
           ref.at # None => t.key = KeyOf[ref.at]
    PROVE  Moved(r)
<1>1. UNCHANGED session
  BY DEF Guarded
<1>2. PICK readable \in Reads :
        IF Refused(readable, file, t, typed) THEN Done(r)
        ELSE Become(r, [Idle EXCEPT !.op = "run", !.kind = kind, !.sid = s, !.form = ref,
                                    !.pc = IF ref = NoRef THEN "checking" ELSE "resolving",
                                    !.marked = IF readable THEN Marked(t, typed) ELSE {}])
  BY DEF Guarded
<1>3. CASE Refused(readable, file, t, typed)
  BY <1>1, <1>2, <1>3, EndsHere
<1>4. CASE ~Refused(readable, file, t, typed)
  <2> DEFINE marked == IF readable THEN Marked(t, typed) ELSE {}
  <2> DEFINE new == [Idle EXCEPT !.op = "run", !.kind = kind, !.sid = s, !.form = ref,
                                 !.pc = IF ref = NoRef THEN "checking" ELSE "resolving",
                                 !.marked = marked]
  <2>1. t.key \notin marked
    BY <1>4, GuardClears DEF Refused
  <2> HIDE DEF marked
  <2>2. RequestShaped(new)
    BY DEF RequestShaped, Fields, Idle
  <2>3. ref.id # None => FreeAt(session, ref.id, marked)
    BY <2>1 DEF FreeAt, Live, Opened
  <2>4. ref = NoRef => FreeAt(session, s, marked)
    BY <2>1 DEF FreeAt, Live, Opened
  <2>5. Cleared(new, session)
    BY <2>1, <2>3, <2>4 DEF Cleared, Running, Idle
  <2>6. Become(r, new)
    BY <1>2, <1>4 DEF marked
  <2> QED
    BY <1>1, <2>2, <2>5, <2>6, Quiet
<1> QED
  BY <1>3, <1>4

\* Everything a browser asks for.
LEMMA AskMoves ==
    ASSUME IInv, NEW r \in Requests, Ask(r)
    PROVE  Moved(r)
<1> USE StoreAssumption, WebAssumption DEF StoreAssumption, WebAssumption
<1>1. ASSUME NEW e \in Forms, NEW typed \in Typed, NEW b \in BOOLEAN, SaveAsked(r, e, typed, b)
      PROVE  Moved(r)
  <2>1. PICK readable \in Reads :
          IF UnflagRefused(readable, file, e, typed) THEN Done(r)
          ELSE Become(r, [Idle EXCEPT !.op = "save", !.pc = "saving", !.form = e, !.typed = typed,
                                      !.flag = b, !.saw = Seen(readable, e.id)])
    BY <1>1 DEF SaveAsked
  <2> DEFINE new == [Idle EXCEPT !.op = "save", !.pc = "saving", !.form = e, !.typed = typed,
                                 !.flag = b, !.saw = Seen(readable, e.id)]
  <2>2. RequestShaped(new) /\ Cleared(new, session)
    BY DEF RequestShaped, Fields, Cleared, Running, Idle
  <2>3. UNCHANGED session
    BY <1>1 DEF SaveAsked
  <2> QED
    BY <2>1, <2>2, <2>3, EndsHere, Quiet
<1>2. ASSUME NEW e \in Forms, NEW typed \in Typed, NEW b \in BOOLEAN, ConnectAsked(r, e, typed, b)
      PROVE  Moved(r)
  <2> DEFINE new == [Idle EXCEPT !.op = "connect", !.form = e, !.typed = typed, !.flag = b]
  <2>1. RequestShaped(new) /\ ~new.wrote /\ KeyOf[e.at] \notin new.marked
    BY DEF RequestShaped, Fields, Idle
  <2>2. Reuses(r, e.at, new) /\ UNCHANGED session
    BY <1>2 DEF ConnectAsked
  <2> QED
    BY <2>1, <2>2, ReuseMoves
<1>3. ASSUME NEW id \in Ids, Delete(r, id)
      PROVE  Moved(r)
  BY <1>3, EndsHere DEF Delete
<1>4. ASSUME NEW id \in Ids, NEW typed \in BOOLEAN, ConnectSavedAsked(r, id, typed)
      PROVE  Moved(r)
  <2> DEFINE new == [Idle EXCEPT !.op = "connect saved", !.saved = id]
  <2>1. RequestShaped(new) /\ ~new.wrote /\ new.saved # None
    BY DEF RequestShaped, Fields, Idle
  <2>2. UNCHANGED session /\ (Done(r) \/ Reuses(r, Lookup(file, id).at, new))
    BY <1>4 DEF ConnectSavedAsked
  <2> QED
    BY <2>1, <2>2, ReuseMoves, EndsHere
<1>5. ASSUME NEW list \in Lists, Import(r, list)
      PROVE  Moved(r)
  BY <1>5, EndsHere DEF Import
<1>6. ASSUME NEW s \in Live, Disconnect(r, s)
      PROVE  Moved(r)
  BY <1>6, Touching, DoneCleared DEF Disconnect, Done
<1>7. ASSUME NEW s \in Live, NEW typed \in Typed, SeedAsked(r, s, typed) \/ GapsAsked(r, s, typed)
      PROVE  Moved(r)
  <2>1. SessionTarget(s).key = KeyOf[session[s].at] /\ NoRef.id = None /\ NoRef.at = None
    BY DEF SessionTarget, Target, NoRef
  <2> QED
    BY <1>7, <2>1, GuardedMoves DEF SeedAsked, GapsAsked
<1>8. ASSUME NEW s \in Live, NEW typed \in Typed, NEW ref \in Refs, NEW t, t = RefTarget(ref),
             NEW kind, Guarded(r, kind, s, ref, t, typed)
      PROVE  Moved(r)
  <2>1. ref # NoRef /\ ref.at = None
    BY DEF Refs, NoRef, Live, Opened, IInv, SessionsShaped
  <2>2. ref.id # None => ref.saved = None /\ ref.id \in Live
    BY DEF Refs
  <2>3. ref.id # None => t.key = KeyOf[session[ref.id].at]
    BY <1>8, <2>2 DEF RefTarget, SessionTarget, Target
  <2> QED
    BY <1>8, <2>1, <2>2, <2>3, GuardedMoves
<1>9. ASSUME NEW s \in Live, NEW typed \in Typed, NEW ref \in Addresses, CloneAsked(r, s, ref, typed)
      PROVE  Moved(r)
  <2>1. ref # NoRef /\ ref.id = None /\ ref.at # None
    BY DEF Addresses, NoRef
  <2>2. Guarded(r, "clone", s, ref, Target(None, KeyOf[ref.at]), typed)
    BY <1>9, <2>1 DEF CloneAsked
  <2>3. Target(None, KeyOf[ref.at]).key = KeyOf[ref.at]
    BY DEF Target
  <2> QED
    BY <2>1, <2>2, <2>3, GuardedMoves
<1>10. ASSUME NEW s \in Live, NEW typed \in Typed, NEW ref \in Refs,
              MirrorAsked(r, s, ref, typed) \/ CloneAsked(r, s, ref, typed)
       PROVE  Moved(r)
  <2>1. ref.at = None
    BY DEF Refs
  <2> QED
    BY <1>8, <1>10, <2>1 DEF MirrorAsked, CloneAsked
<1> QED
  BY <1>1, <1>2, <1>3, <1>4, <1>5, <1>6, <1>7, <1>9, <1>10 DEF Ask

\* Opening a session: it is new, and at the address that was asked for.
LEMMA DialMoves ==
    ASSUME IInv, NEW r \in Requests, Dial(r)
    PROVE  Moved(r)
<1>1. req[r].pc = "dialing" /\ RequestShaped(req[r]) /\ Cleared(req[r], session)
  BY DEF Dial, IInv
<1>2. CASE UNCHANGED session /\ Done(r)
  BY <1>2, EndsHere
<1>3. ASSUME NEW s \in Sids \ Opened,
             session' = [z \in Opened \cup {s} |-> IF z = s THEN Fresh(req[r].at) ELSE session[z]],
             Become(r, [req[r] EXCEPT !.pc = "opened", !.sid = s])
      PROVE  Moved(r)
  <2> DEFINE new == [req[r] EXCEPT !.pc = "opened", !.sid = s]
  <2>1. SessionShaped(Fresh(req[r].at)) /\ Fresh(req[r].at).at = req[r].at
    BY DEF SessionShaped, Fresh
  <2>2. SessionsShaped(session')
    BY <1>3, <2>1 DEF SessionsShaped, Opened, IInv
  <2>3. Kept(session, session')
    BY <1>3 DEF Kept, Opened
  <2>4. s \in DOMAIN session' /\ session'[s].at = req[r].at
    BY <1>3, <2>1
  <2>5. RequestShaped(new)
    BY <1>1 DEF RequestShaped, Fields
  <2>6. /\ new.pc = "opened" /\ new.sid = s /\ new.at = req[r].at /\ new.saved = req[r].saved
        /\ new.marked = req[r].marked /\ new.wrote = req[r].wrote
    BY <1>1 DEF RequestShaped, Fields
  <2> HIDE DEF new
  <2>7. Cleared(new, session')
    BY <1>1, <2>4, <2>6 DEF Cleared, Running
  <2> QED
    BY <1>3, <2>2, <2>3, <2>5, <2>7 DEF Moved, new
<1> QED
  BY <1>2, <1>3 DEF Dial

\* From the reference to the target of a run.
LEMMA ResolveMoves ==
    ASSUME IInv, NEW r \in Requests,
           ResolveSaved(r) \/ ResolveOpen(r) \/ ResolveTyped(r) \/ Resolved(r)
    PROVE  Moved(r)
<1>1. RequestShaped(req[r]) /\ Cleared(req[r], session)
  BY DEF IInv
<1>2. CASE ResolveSaved(r)
  <2> DEFINE new == [req[r] EXCEPT !.saved = req[r].form.saved]
  <2>1. req[r].pc = "resolving" /\ req[r].form.saved # None /\ UNCHANGED session
    BY <1>2 DEF ResolveSaved
  <2>2. RequestShaped(new) /\ ~new.wrote /\ new.saved # None
    BY <1>1, <2>1 DEF RequestShaped, Fields, Cleared, Running
  <2>3. Done(r) \/ Reuses(r, Lookup(file, req[r].form.saved).at, new)
    BY <1>2 DEF ResolveSaved
  <2> QED
    BY <2>1, <2>2, <2>3, ReuseMoves, EndsHere
<1>3. CASE ResolveOpen(r)
  <2> DEFINE new == [req[r] EXCEPT !.pc = "checking", !.sid = req[r].form.id, !.form = NoRef]
  <2>1. req[r].pc = "resolving" /\ req[r].form.id # None /\ UNCHANGED session
    BY <1>3 DEF ResolveOpen
  <2>2. RequestShaped(new) /\ Cleared(new, session)
    BY <1>1, <2>1 DEF RequestShaped, Fields, Cleared, Running
  <2>3. Done(r) \/ Become(r, new)
    BY <1>3 DEF ResolveOpen
  <2> QED
    BY <2>1, <2>2, <2>3, Quiet, EndsHere
<1>4. CASE ResolveTyped(r)
  <2>1. req[r].pc = "resolving" /\ req[r].form.at # None /\ UNCHANGED session
    BY <1>4 DEF ResolveTyped
  <2>2. ~req[r].wrote /\ KeyOf[req[r].form.at] \notin req[r].marked
    BY <1>1, <2>1 DEF Cleared, Running
  <2>3. Reuses(r, req[r].form.at, req[r])
    BY <1>4 DEF ResolveTyped
  <2> QED
    BY <1>1, <2>1, <2>2, <2>3, ReuseMoves
<1>5. CASE Resolved(r)
  <2> DEFINE marked == IF req[r].saved = None THEN req[r].marked ELSE {}
  <2> DEFINE new == [req[r] EXCEPT !.pc = "checking", !.at = None, !.saved = None, !.form = NoRef,
                                   !.marked = marked]
  <2>1. req[r].pc = "opened"
    BY <1>5 DEF Resolved
  <2>2. FreeAt(session, req[r].sid, marked) /\ ~req[r].wrote
    BY <1>1, <2>1 DEF Cleared, FreeAt, Running
  <2>3. Become(r, new)
    BY <1>5 DEF Resolved
  <2> HIDE DEF marked
  <2>4. RequestShaped(new)
    BY <1>1 DEF RequestShaped, Fields
  <2>5. new.pc = "checking" /\ new.sid = req[r].sid /\ new.marked = marked /\ ~new.wrote
    BY <1>1, <2>2 DEF RequestShaped, Fields
  <2>6. Cleared(new, session)
    BY <2>2, <2>5 DEF Cleared, Running
  <2>7. \E x : session' = [session EXCEPT ![req[r].sid].saved = x]
    BY <1>5 DEF Resolved
  <2> HIDE DEF new
  <2> QED
    BY <2>3, <2>4, <2>6, <2>7, Touching
<1> QED
  BY <1>2, <1>3, <1>4, <1>5

\* A run at work goes on on its session, and comes to its end.
LEMMA WorkMoves ==
    ASSUME IInv, NEW r \in Requests,
           \/ Prepared(r) \/ ClonePlanned(r) \/ WriteRows(r) \/ WriteSchema(r) \/ Fail(r)
           \/ RowsWritten(r) \/ SchemaWritten(r) \/ Sync(r) \/ Cancel(r)
    PROVE  Moved(r)
<1>1. RequestShaped(req[r]) /\ Cleared(req[r], session)
  BY DEF IInv
<1>2. req[r].pc \in Running
  BY DEF Prepared, ClonePlanned, WriteRows, WriteSchema, Writing, Fail, RowsWritten,
         SchemaWritten, Sync, Cancel, Running
<1>3. ASSUME NEW pc \in Running, Become(r, [req[r] EXCEPT !.pc = pc]),
             pc \in {"wrote", "failed"} => req[r].wrote
      PROVE
        \E next : Become(r, next) /\ RequestShaped(next) /\ Cleared(next, session)
  BY <1>1, <1>2, <1>3 DEF RequestShaped, Fields, Cleared, Running
<1>4. ASSUME Become(r, [req[r] EXCEPT !.wrote = TRUE]) \/ Become(r, [req[r] EXCEPT !.stopped = TRUE])
      PROVE  \E next : Become(r, next) /\ RequestShaped(next) /\ Cleared(next, session)
  BY <1>1, <1>2, <1>4 DEF RequestShaped, Fields, Cleared, Running
<1>5. \E next : Become(r, next) /\ RequestShaped(next) /\ Cleared(next, session)
  BY <1>3, <1>4 DEF Prepared, ClonePlanned, WriteRows, WriteSchema, Fail, RowsWritten,
         SchemaWritten, Sync, Cancel, Running
<1>6. \E s, x : session' = session \/ session' = [session EXCEPT ![s].ddl = x]
  BY DEF Prepared, ClonePlanned, WriteRows, WriteSchema, Fail, RowsWritten,
         SchemaWritten, Sync, Cancel
<1> QED
  BY <1>5, <1>6, Touching

LEMMA EndMoves ==
    ASSUME IInv, NEW r \in Requests, End(r)
    PROVE  Moved(r)
<1> DEFINE new == [Idle EXCEPT !.pc = "done", !.kind = req[r].kind, !.wrote = req[r].wrote,
                               !.stopped = req[r].stopped, !.sid = req[r].sid]
<1>1. RequestShaped(new) /\ Cleared(new, session)
  BY DEF RequestShaped, Fields, Cleared, Running, Idle
<1>2. Become(r, new)
  BY DEF End, Over
<1>3. \E s, x : session' = session \/ session' = [session EXCEPT ![s].counts = x]
  BY DEF End
<1> QED
  BY <1>1, <1>2, <1>3, Touching

LEMMA StepMoves ==
    ASSUME IInv, NEW r \in Requests, Step(r) \/ Cancel(r)
    PROVE  Moved(r)
<1>1. CASE SaveStored(r) \/ ConnectDone(r)
  BY <1>1, EndsHere DEF SaveStored, ConnectDone
<1>2. CASE ConnectSavedDone(r)
  <2>1. \E s, x : session' = [session EXCEPT ![s].saved = x]
    BY <1>2 DEF ConnectSavedDone
  <2>2. Done(r)
    BY <1>2 DEF ConnectSavedDone
  <2> QED
    BY <2>1, <2>2, DoneCleared, Touching DEF Done
<1>3. CASE Job(r) \/ Cancel(r)
  BY <1>3, DialMoves, ResolveMoves, WorkMoves, EndMoves DEF Job
<1> QED
  BY <1>1, <1>2, <1>3 DEF Step

(***************************************************************************)
(* The theorem.                                                            *)
(***************************************************************************)
LEMMA Initially == Init => IInv
<1> SUFFICES ASSUME Init PROVE IInv
  OBVIOUS
<1>1. SessionsShaped(session)
  <2>1. PICK start \in Starts, first \in Sids :
          session = [s \in IF start.at = None THEN {} ELSE {first} |->
                       [Fresh(start.at) EXCEPT !.saved = start.saved]]
    BY DEF Init
  <2>2. SessionShaped([Fresh(start.at) EXCEPT !.saved = start.saved])
    <3>1. SessionShaped(Fresh(start.at))
      BY DEF SessionShaped, Fresh
    <3> QED
      BY <3>1 DEF SessionShaped
  <2> DEFINE new == [Fresh(start.at) EXCEPT !.saved = start.saved]
  <2> DEFINE open == IF start.at = None THEN {} ELSE {first}
  <2> HIDE DEF new
  <2>3. session = [s \in open |-> new]
    BY <2>1 DEF new
  <2>4. open \subseteq Sids
    OBVIOUS
  <2> HIDE DEF open
  <2>5. DOMAIN session = open /\ session = [s \in open |-> session[s]] /\ \A s \in open : session[s] = new
    BY <2>3
  <2> QED
    BY <2>2, <2>4, <2>5 DEF SessionsShaped, new
<1>2. RequestShaped(Idle) /\ Cleared(Idle, session)
  BY DEF RequestShaped, Fields, Cleared, Running, Idle
<1>3. req = [r \in Requests |-> Idle]
  BY DEF Init
<1> QED
  BY <1>1, <1>2, <1>3 DEF IInv

LEMMA Inductive == IInv /\ [Next]_vars => IInv'
<1> SUFFICES ASSUME IInv, [Next]_vars PROVE IInv'
  OBVIOUS
<1>1. ASSUME NEW r \in Requests, Moved(r) PROVE IInv'
  <2>1. PICK next : Become(r, next) /\ RequestShaped(next) /\ Cleared(next, session')
    BY <1>1 DEF Moved
  <2>2. SessionsShaped(session') /\ Kept(session, session')
    BY <1>1 DEF Moved
  <2>3. \A z \in Requests : req'[z] = IF z = r THEN next ELSE req[z]
    BY <2>1 DEF Become, IInv
  <2>4. req' = [z \in Requests |-> req'[z]]
    BY <2>1 DEF Become, IInv
  <2>5. \A z \in Requests : RequestShaped(req'[z]) /\ Cleared(req'[z], session')
    BY <2>1, <2>2, <2>3, StillCleared DEF IInv
  <2> QED
    BY <2>2, <2>4, <2>5 DEF IInv
<1>2. ASSUME NEW s \in Live, Look(s) PROVE IInv'
  <2>1. UNCHANGED req
    BY <1>2 DEF Look
  <2>2. PICK x, y : session' = [session EXCEPT ![s].counts = x, ![s].ddl = y]
    BY <1>2 DEF Look
  <2> DEFINE half == [session EXCEPT ![s].counts = x]
  <2>3. SessionsShaped(half) /\ Kept(session, half)
    BY FieldKept DEF IInv
  <2>4. SessionsShaped(session') /\ Kept(half, session')
    BY <2>2, <2>3, FieldKept
  <2>5. Kept(session, session')
    BY <2>3, <2>4 DEF Kept
  <2> QED
    BY <2>1, <2>4, <2>5, StillCleared DEF IInv
<1>3. CASE UNCHANGED vars
  BY <1>3 DEF vars, IInv
<1> QED
  BY <1>1, <1>2, <1>3, AskMoves, StepMoves DEF Next

\* A run on a session never writes to an address a production entry spelled when
\* the run was asked for without a label that allows it, whatever happens to the
\* file and the sessions in between (production.go:36-60).
THEOREM WritesStayGuarded == Spec => []WritesGuarded
<1>1. IInv => WritesGuarded
  BY DEF IInv, WritesGuarded, Cleared, Running, FreeAt
<1> QED
  BY <1>1, Initially, Inductive, PTL DEF Spec

(***************************************************************************)
(* Whose mark a save removes.  A save was checked against the entry it     *)
(* replaces: as long as the file still has that entry as it was, the mark  *)
(* stays or its label was typed.  The file must be a list for that: then   *)
(* an id has a first entry, and a save puts its own in that one's place.   *)
(***************************************************************************)
IsList(f) == f \in Seq(Range(f))

\* What was checked, and what is still to be stored.
Checked(q) == q.pc = "saving" =>
    /\ q.form \in Submitted
    /\ \A x \in q.saw : /\ x.id = q.form.id
                        /\ q.form.prod \/ ~x.prod \/ q.typed = x.label

SaveInv == IsList(file) /\ \A r \in Requests : Checked(req[r])

\* A sequence is a list, whatever is in it.
LEMMA ListIs == ASSUME NEW T, NEW f \in Seq(T) PROVE IsList(f)
<1>1. f \in [1..Len(f) -> Range(f)] /\ Len(f) \in Nat
  BY DEF Range
<1> QED
  BY <1>1 DEF IsList

\* An id that is there has a first entry, which has that id.
LEMMA FirstPlace ==
    ASSUME NEW f, IsList(f), NEW id, Has(f, id)
    PROVE  Min(Places(f, id)) \in Places(f, id)
<1>1. Places(f, id) \in SUBSET Nat /\ Places(f, id) # {}
  BY DEF Places, Has, IsList
<1>2. \E n \in Places(f, id) : \A m \in Places(f, id) : n <= m
  BY <1>1, LeastNat
<1> QED
  BY <1>2 DEF Min

(***************************************************************************)
(* What is written is a list.                                              *)
(***************************************************************************)
LEMMA SaveListed ==
    ASSUME NEW f, IsList(f), NEW e, NEW clear PROVE IsList(SaveInto(f, e, clear))
<1> DEFINE c == [Named(e) EXCEPT !.pw = @ /\ ~clear]
           d(i) == [c EXCEPT !.pw = @ \/ (~clear /\ f[i].pw)]
           T == Range(f) \cup {c}
<1>1. CASE ~Has(f, e.id)
  <2>1. SaveInto(f, e, clear) = Append(f, c)
    BY <1>1 DEF SaveInto
  <2> HIDE DEF c
  <2>2. f \in Seq(T) /\ c \in T
    BY DEF IsList
  <2>3. Append(f, c) \in Seq(T)
    BY <2>2
  <2> QED
    BY <2>1, <2>3, ListIs
<1>2. CASE Has(f, e.id)
  <2> DEFINE new == [i \in DOMAIN f |-> IF i = Min(Places(f, e.id)) THEN d(i) ELSE f[i]]
  <2>1. SaveInto(f, e, clear) = new
    BY <1>2 DEF SaveInto
  <2>2. DOMAIN f = 1..Len(f) /\ Len(f) \in Nat
    BY DEF IsList
  <2>3. new \in [1..Len(f) -> Range(new)]
    <3>1. new = [i \in 1..Len(f) |-> new[i]] /\ DOMAIN new = 1..Len(f)
      BY <2>2
    <3> HIDE DEF new
    <3> QED
      BY <3>1 DEF Range
  <2> HIDE DEF new
  <2>4. new \in Seq(Range(new))
    BY <2>2, <2>3
  <2> QED
    BY <2>1, <2>4 DEF IsList
<1> QED
  BY <1>1, <1>2

LEMMA DeleteListed ==
    ASSUME NEW f, IsList(f), NEW id PROVE DeleteFrom(f, id) \in Seq(Range(f))
BY AmongIs DEF DeleteFrom, IsList

LEMMA TouchListed ==
    ASSUME NEW f, IsList(f), NEW id PROVE IsList(TouchIn(f, id))
<1>1. CASE ~Has(f, id)
  BY <1>1 DEF TouchIn
<1>2. CASE Has(f, id)
  <2>1. Lookup(f, id) \in Range(f)
    BY <1>2, FirstPlace DEF Lookup, Places, Range
  <2> DEFINE x == Lookup(f, id)
             rest == DeleteFrom(f, id)
  <2>2. TouchIn(f, id) = <<x>> \o rest
    BY <1>2 DEF TouchIn
  <2>3. rest \in Seq(Range(f))
    BY DeleteListed
  <2> HIDE DEF x, rest
  <2>4. <<x>> \o rest \in Seq(Range(f) \cup {x})
    <3>1. <<x>> \in Seq(Range(f) \cup {x}) /\ rest \in Seq(Range(f) \cup {x})
      BY <2>3
    <3> QED
      BY <3>1
  <2> QED
    BY <2>2, <2>4, ListIs
<1> QED
  BY <1>1, <1>2

\* The recursive function of ImportInto exists, and each step adds one entry at
\* most.
LEMMA ImportListed ==
    ASSUME NEW f, IsList(f), NEW given, IsList(given) PROVE IsList(ImportInto(f, given))
<1> DEFINE known(g, e) == \E i \in DOMAIN g : \/ Identity(g[i].at) = Identity(e.at)
                                              \/ g[i].label = Named(e).label
           one(g, e) == [Named(e) EXCEPT !.id = CHOOSE id \in FreshIds(g) : TRUE]
           add(g, e) == IF known(g, e) \/ FreshIds(g) = {} THEN g ELSE Append(g, one(g, e))
           n == Len(given)
           entry(i, id) == [Named(given[i]) EXCEPT !.id = id]
           T == Range(f) \cup {entry(i, id) : i \in 1..n, id \in Ids}
           step == [p \in (1..n) \X Seq(T) |-> add(p[2], given[p[1]])]
           Keeps(g) == g = [i \in 0..n |-> IF i = 0 THEN f ELSE add(g[i - 1], given[i])]
           grown == CHOOSE g : Keeps(g)
<1>1. n \in Nat /\ f \in Seq(T)
  BY DEF IsList
<1>2. ImportInto(f, given) = grown[n]
  BY DEF ImportInto
<1>3. ASSUME NEW i \in 1..n, NEW g \in Seq(T) PROVE add(g, given[i]) \in Seq(T)
  <2>1. CASE known(g, given[i]) \/ FreshIds(g) = {}
    BY <2>1
  <2>2. CASE ~(known(g, given[i]) \/ FreshIds(g) = {})
    <3> DEFINE id == CHOOSE fresh \in FreshIds(g) : TRUE
    <3>1. id \in Ids
      <4>1. id \in FreshIds(g)
        BY <2>2
      <4> QED
        BY <4>1 DEF FreshIds
    <3>2. one(g, given[i]) = entry(i, id)
      OBVIOUS
    <3> HIDE DEF id, entry, one
    <3>3. one(g, given[i]) \in T
      BY <3>1, <3>2
    <3> HIDE DEF T, one, known
    <3>4. Append(g, one(g, given[i])) \in Seq(T)
      BY <3>3
    <3> QED
      BY <2>2, <3>4
  <2> QED
    BY <2>1, <2>2
<1> HIDE DEF T, add
<1>4. step \in [(1..n) \X Seq(T) -> Seq(T)]
  BY <1>3
<1>5. \A i \in 1..n, g \in Seq(T) : step[i, g] = add(g, given[i])
  OBVIOUS
<1> HIDE DEF n, step
<1>6. PICK h \in [0..n -> Seq(T)] : Goes(h, f, step, n)
  BY <1>1, <1>4, Recursion
<1>7. h[0] = f /\ \A i \in 1..n : h[i] = add(h[i - 1], given[i])
  <2> SUFFICES ASSUME NEW i \in 1..n PROVE h[i] = add(h[i - 1], given[i])
    BY <1>6 DEF Goes
  <2>1. i - 1 \in 0..n
    BY <1>1
  <2>2. h[i - 1] \in Seq(T)
    BY <2>1
  <2>3. h[i] = step[i, h[i - 1]]
    BY <1>6 DEF Goes
  <2> QED
    BY <1>5, <2>2, <2>3
<1>8. Keeps(h)
  <2> DEFINE g == [i \in 0..n |-> IF i = 0 THEN f ELSE add(h[i - 1], given[i])]
  <2>1. ASSUME NEW i \in 0..n PROVE h[i] = g[i]
    <3>1. i # 0 => i \in 1..n
      BY <1>1
    <3> QED
      BY <1>7, <3>1
  <2> QED
    BY <2>1
<1>9. Keeps(grown)
  BY <1>8
<1>10. grown[0] = f /\ \A i \in 1..n : grown[i] = add(grown[i - 1], given[i])
  <2>1. 0 \in 0..n /\ \A i \in 1..n : i \in 0..n /\ i # 0
    BY <1>1
  <2> HIDE DEF grown
  <2> QED
    BY <1>9, <2>1
<1> HIDE DEF grown
<1>11. 0..n \subseteq {i \in 0..n : grown[i] \in Seq(T)}
  <2> DEFINE G == {i \in 0..n : grown[i] \in Seq(T)}
  <2>1. 0 \in G
    BY <1>1, <1>10
  <2>2. ASSUME NEW i \in 1..n, i - 1 \in G PROVE i \in G
    <3>1. grown[i - 1] \in Seq(T) /\ i \in 0..n
      BY <1>1, <2>2
    <3>2. grown[i] \in Seq(T)
      BY <1>3, <1>10, <3>1
    <3> QED
      BY <3>1, <3>2
  <2>3. 0..n \subseteq G
    <3> HIDE DEF G
    <3> QED
      BY <1>1, <2>1, <2>2, UpTo
  <2> QED
    BY <2>3
<1>12. grown[n] \in Seq(T)
  BY <1>1, <1>11
<1> QED
  BY <1>2, <1>12, ListIs

(***************************************************************************)
(* What the steps do to it.                                                *)
(***************************************************************************)
\* A check that lets a save pass has seen what its own label allows.
LEMMA SaveChecked ==
    ASSUME SaveInv, IInv, NEW r \in Requests, NEW e \in Forms, NEW typed, NEW b, SaveAsked(r, e, typed, b)
    PROVE  \E next : Become(r, next) /\ Checked(next)
<1>1. PICK readable \in Reads :
        IF UnflagRefused(readable, file, e, typed) THEN Done(r)
        ELSE Become(r, [Idle EXCEPT !.op = "save", !.pc = "saving", !.form = e, !.typed = typed,
                                    !.flag = b, !.saw = Seen(readable, e.id)])
  BY DEF SaveAsked
<1>2. CASE UnflagRefused(readable, file, e, typed)
  BY <1>1, <1>2 DEF Done, Idle, Checked
<1>3. CASE ~UnflagRefused(readable, file, e, typed)
  <2> DEFINE new == [Idle EXCEPT !.op = "save", !.pc = "saving", !.form = e, !.typed = typed,
                                 !.flag = b, !.saw = Seen(readable, e.id)]
  <2>1. new.form = e /\ new.typed = typed /\ new.saw = Seen(readable, e.id)
    BY DEF Idle
  <2>2. e \in Submitted
    BY ListAssumption DEF ListAssumption
  <2>3. ASSUME NEW x \in Seen(readable, e.id)
        PROVE  x.id = e.id /\ (e.prod \/ ~x.prod \/ typed = x.label)
    <3>1. readable /\ e.id # None /\ Has(file, e.id) /\ x = Lookup(file, e.id)
      BY <2>3 DEF Seen
    <3>2. x.id = e.id
      BY <3>1, FirstPlace DEF SaveInv, Lookup, Places
    <3>3. e.prod \/ ~x.prod \/ typed = x.label
      BY <1>3, <3>1 DEF UnflagRefused
    <3> QED
      BY <3>2, <3>3
  <2> HIDE DEF new
  <2>4. Checked(new)
    BY <2>1, <2>2, <2>3 DEF Checked
  <2> QED
    BY <1>1, <1>3, <2>4 DEF new
<1> QED
  BY <1>2, <1>3

\* Every other step leaves a request with nothing to be saved.
Unsaved(r) == \E next : Become(r, next) /\ next.pc # "saving"

LEMMA DoneUnsaved == ASSUME NEW r, Done(r) PROVE Unsaved(r)
BY DEF Done, Idle, Unsaved

\* A request's place is where its record says.
LEMMA PcSet ==
    ASSUME NEW q, RequestShaped(q), NEW pc, NEW at, NEW sid, NEW form
    PROVE  /\ [q EXCEPT !.pc = pc, !.at = at].pc = pc
           /\ [q EXCEPT !.pc = pc, !.at = at, !.sid = sid].pc = pc
           /\ [q EXCEPT !.pc = pc, !.sid = sid].pc = pc
           /\ [q EXCEPT !.pc = pc, !.sid = sid, !.form = form].pc = pc
BY DEF RequestShaped, Fields

LEMMA ReuseUnsaved ==
    ASSUME NEW r, NEW at, NEW next, Reuses(r, at, next), RequestShaped(next) PROVE Unsaved(r)
<1>1. CASE Become(r, [next EXCEPT !.pc = "dialing", !.at = at])
  <2> DEFINE new == [next EXCEPT !.pc = "dialing", !.at = at]
  <2>1. new.pc = "dialing"
    BY PcSet
  <2>2. Become(r, new)
    BY <1>1
  <2> HIDE DEF new
  <2> QED
    BY <2>1, <2>2 DEF Unsaved
<1>2. ASSUME NEW s, Become(r, [next EXCEPT !.pc = "opened", !.at = at, !.sid = s]) PROVE Unsaved(r)
  <2> DEFINE new == [next EXCEPT !.pc = "opened", !.at = at, !.sid = s]
  <2>1. new.pc = "opened"
    BY PcSet
  <2>2. Become(r, new)
    BY <1>2
  <2> HIDE DEF new
  <2> QED
    BY <2>1, <2>2 DEF Unsaved
<1> QED
  BY <1>1, <1>2 DEF Reuses

LEMMA GuardedUnsaved ==
    ASSUME NEW r, NEW kind, NEW s, NEW ref, NEW t, NEW typed, Guarded(r, kind, s, ref, t, typed)
    PROVE  Unsaved(r)
<1>1. PICK readable \in Reads :
        IF Refused(readable, file, t, typed) THEN Done(r)
        ELSE Become(r, [Idle EXCEPT !.op = "run", !.kind = kind, !.sid = s, !.form = ref,
                                    !.pc = IF ref = NoRef THEN "checking" ELSE "resolving",
                                    !.marked = IF readable THEN Marked(t, typed) ELSE {}])
  BY DEF Guarded
<1> DEFINE marked == IF readable THEN Marked(t, typed) ELSE {}
           new == [Idle EXCEPT !.op = "run", !.kind = kind, !.sid = s, !.form = ref,
                               !.pc = IF ref = NoRef THEN "checking" ELSE "resolving",
                               !.marked = marked]
<1>2. new.pc \in {"checking", "resolving"}
  BY DEF Idle
<1> HIDE DEF new
<1>3. Done(r) \/ Become(r, new)
  BY <1>1 DEF new
<1> QED
  BY <1>2, <1>3, DoneUnsaved DEF Unsaved

LEMMA AskUnsaved ==
    ASSUME NEW r \in Requests, Ask(r),
           ~\E e \in Forms, typed \in Typed, b \in BOOLEAN : SaveAsked(r, e, typed, b)
    PROVE  Unsaved(r)
<1>1. ASSUME NEW e \in Forms, NEW typed \in Typed, NEW b \in BOOLEAN, ConnectAsked(r, e, typed, b)
      PROVE  Unsaved(r)
  <2> DEFINE new == [Idle EXCEPT !.op = "connect", !.form = e, !.typed = typed, !.flag = b]
  <2>1. RequestShaped(new)
    BY DEF RequestShaped, Fields, Idle
  <2> QED
    BY <1>1, <2>1, ReuseUnsaved DEF ConnectAsked
<1>2. ASSUME NEW id \in Ids, NEW typed \in BOOLEAN, ConnectSavedAsked(r, id, typed)
      PROVE  Unsaved(r)
  <2> DEFINE new == [Idle EXCEPT !.op = "connect saved", !.saved = id]
  <2>1. RequestShaped(new)
    BY DEF RequestShaped, Fields, Idle
  <2> QED
    BY <1>2, <2>1, ReuseUnsaved, DoneUnsaved DEF ConnectSavedAsked
<1>3. ASSUME \/ \E id \in Ids : Delete(r, id)
             \/ \E list \in Lists : Import(r, list)
             \/ \E s \in Live : Disconnect(r, s)
      PROVE  Unsaved(r)
  BY <1>3, DoneUnsaved DEF Delete, Import, Disconnect
<1>4. ASSUME NEW s \in Live, NEW typed \in Typed, SeedAsked(r, s, typed) \/ GapsAsked(r, s, typed)
      PROVE  Unsaved(r)
  BY <1>4, GuardedUnsaved DEF SeedAsked, GapsAsked
<1>5. ASSUME NEW s \in Live, NEW typed \in Typed, NEW ref, MirrorAsked(r, s, ref, typed) \/ CloneAsked(r, s, ref, typed)
      PROVE  Unsaved(r)
  BY <1>5, GuardedUnsaved DEF MirrorAsked, CloneAsked
<1> QED
  BY <1>1, <1>2, <1>3, <1>4, <1>5 DEF Ask

LEMMA StepUnsaved ==
    ASSUME IInv, NEW r \in Requests, Step(r) \/ Cancel(r)
    PROVE  Unsaved(r)
<1>1. RequestShaped(req[r])
  BY DEF IInv
<1>2. CASE SaveStored(r) \/ ConnectDone(r) \/ ConnectSavedDone(r)
  BY <1>2, DoneUnsaved DEF SaveStored, ConnectDone, ConnectSavedDone
<1>3. CASE Dial(r)
  <2>1. ASSUME NEW s, Become(r, [req[r] EXCEPT !.pc = "opened", !.sid = s]) PROVE Unsaved(r)
    <3> DEFINE new == [req[r] EXCEPT !.pc = "opened", !.sid = s]
    <3>1. new.pc = "opened" /\ Become(r, new)
      BY <1>1, <2>1, PcSet
    <3> HIDE DEF new
    <3> QED
      BY <3>1 DEF Unsaved
  <2> QED
    BY <1>3, <2>1, DoneUnsaved DEF Dial
<1>4. CASE ResolveSaved(r)
  <2> DEFINE new == [req[r] EXCEPT !.saved = req[r].form.saved]
  <2>1. RequestShaped(new)
    BY <1>1 DEF RequestShaped, Fields
  <2> QED
    BY <1>4, <2>1, ReuseUnsaved, DoneUnsaved DEF ResolveSaved
<1>5. CASE ResolveTyped(r)
  BY <1>1, <1>5, ReuseUnsaved DEF ResolveTyped
<1>6. CASE ResolveOpen(r)
  <2>1. ASSUME NEW s, Become(r, [req[r] EXCEPT !.pc = "checking", !.sid = s, !.form = NoRef])
        PROVE  Unsaved(r)
    <3> DEFINE new == [req[r] EXCEPT !.pc = "checking", !.sid = s, !.form = NoRef]
    <3>1. new.pc = "checking" /\ Become(r, new)
      BY <1>1, <2>1, PcSet
    <3> HIDE DEF new
    <3> QED
      BY <3>1 DEF Unsaved
  <2> QED
    BY <1>6, <2>1, DoneUnsaved DEF ResolveOpen
<1>7. CASE Resolved(r)
  <2> DEFINE marked == IF req[r].saved = None THEN req[r].marked ELSE {}
             new == [req[r] EXCEPT !.pc = "checking", !.at = None, !.saved = None, !.form = NoRef,
                                   !.marked = marked]
  <2>1. new.pc = "checking"
    BY <1>1 DEF RequestShaped, Fields
  <2>2. Become(r, new)
    BY <1>7 DEF Resolved
  <2> HIDE DEF new
  <2> QED
    BY <2>1, <2>2 DEF Unsaved
<1>8. ASSUME NEW pc, pc # "saving", Become(r, [req[r] EXCEPT !.pc = pc]) PROVE Unsaved(r)
  BY <1>1, <1>8 DEF Unsaved, RequestShaped, Fields
<1>9. ASSUME req[r].pc # "saving",
             Become(r, [req[r] EXCEPT !.wrote = TRUE]) \/ Become(r, [req[r] EXCEPT !.stopped = TRUE])
      PROVE  Unsaved(r)
  BY <1>1, <1>9 DEF Unsaved, RequestShaped, Fields
<1>10. CASE \/ Prepared(r) \/ ClonePlanned(r) \/ WriteRows(r) \/ WriteSchema(r) \/ Fail(r)
            \/ RowsWritten(r) \/ SchemaWritten(r) \/ Sync(r) \/ Cancel(r)
  BY <1>8, <1>9, <1>10 DEF Prepared, ClonePlanned, WriteRows, WriteSchema, Writing, Fail,
     RowsWritten, SchemaWritten, Sync, Cancel
<1>11. CASE End(r)
  <2> DEFINE new == [Idle EXCEPT !.pc = "done", !.kind = req[r].kind, !.wrote = req[r].wrote,
                                 !.stopped = req[r].stopped, !.sid = req[r].sid]
  <2>1. new.pc = "done" /\ Become(r, new)
    BY <1>11 DEF End, Over, Idle
  <2> QED
    BY <2>1 DEF Unsaved
<1> QED
  BY <1>2, <1>3, <1>4, <1>5, <1>6, <1>7, <1>10, <1>11 DEF Step, Job

\* Whoever writes the file leaves a list.
LEMMA FileListed ==
    ASSUME IsList(file), NEW r \in Requests, Ask(r) \/ Step(r) \/ Cancel(r)
    PROVE  IsList(file')
<1>1. CASE UNCHANGED file
  BY <1>1
<1>2. ASSUME NEW new, NEW typed, Writes(new, typed), IsList(new) PROVE IsList(file')
  BY <1>2 DEF Writes
<1>3. CASE \E id \in Ids : Delete(r, id)
  BY <1>2, <1>3, DeleteListed, ListIs DEF Delete
<1>4. ASSUME NEW list \in Lists, Import(r, list) PROVE IsList(file')
  <2>1. IsList(list)
    BY ListAssumption, ListIs DEF ListAssumption
  <2> QED
    BY <1>2, <1>4, <2>1, ImportListed DEF Import
<1>5. CASE SaveStored(r)
  BY <1>1, <1>2, <1>5, SaveListed DEF SaveStored
<1>6. CASE ConnectDone(r)
  BY <1>1, <1>2, <1>6, SaveListed, TouchListed DEF ConnectDone
<1>7. CASE ConnectSavedDone(r)
  BY <1>1, <1>2, <1>7, TouchListed DEF ConnectSavedDone
<1>8. CASE Job(r) \/ Cancel(r)
  <2>1. UNCHANGED file
    BY <1>8 DEF Job, Dial, ResolveSaved, ResolveOpen, ResolveTyped, Resolved, Prepared, ClonePlanned,
       WriteRows, WriteSchema, Fail, RowsWritten, SchemaWritten, Sync, End, Cancel
  <2> QED
    BY <1>1, <2>1
<1>9. CASE Ask(r)
  <2>1. \/ UNCHANGED file
        \/ \E id \in Ids : Delete(r, id)
        \/ \E list \in Lists : Import(r, list)
    BY <1>9 DEF Ask, SaveAsked, ConnectAsked, ConnectSavedAsked, Disconnect, SeedAsked, GapsAsked,
       MirrorAsked, CloneAsked, Guarded
  <2> QED
    BY <1>1, <1>3, <1>4, <2>1
<1> QED
  BY <1>5, <1>6, <1>7, <1>8, <1>9 DEF Step

LEMMA SaveInductive == IInv /\ SaveInv /\ [Next]_vars => SaveInv'
<1> SUFFICES ASSUME IInv, SaveInv, [Next]_vars PROVE SaveInv'
  OBVIOUS
<1>1. ASSUME NEW r \in Requests, Ask(r) \/ Step(r) \/ Cancel(r) PROVE SaveInv'
  <2>1. IsList(file')
    BY <1>1, FileListed DEF SaveInv
  <2>2. \E next : Become(r, next) /\ Checked(next)
    <3>1. ASSUME NEW e \in Forms, NEW typed \in Typed, NEW b \in BOOLEAN, SaveAsked(r, e, typed, b)
          PROVE  \E next : Become(r, next) /\ Checked(next)
      BY <3>1, SaveChecked
    <3>2. CASE Unsaved(r)
      BY <3>2 DEF Unsaved, Checked
    <3> QED
      BY <1>1, <3>1, <3>2, AskUnsaved, StepUnsaved
  <2>3. PICK next : Become(r, next) /\ Checked(next)
    BY <2>2
  <2>4. \A z \in Requests : req'[z] = IF z = r THEN next ELSE req[z]
    BY <2>3 DEF Become, IInv
  <2>5. \A z \in Requests : Checked(req'[z])
    BY <2>3, <2>4 DEF SaveInv
  <2> QED
    BY <2>1, <2>5 DEF SaveInv
<1>2. CASE \E s \in Live : Look(s)
  BY <1>2 DEF Look, SaveInv
<1>3. CASE UNCHANGED vars
  BY <1>3 DEF vars, SaveInv
<1> QED
  BY <1>1, <1>2, <1>3 DEF Next

LEMMA SaveInitially == Init => SaveInv
<1> SUFFICES ASSUME Init PROVE SaveInv
  OBVIOUS
<1>1. IsList(file)
  BY ListAssumption, ListIs DEF Init, ListAssumption
<1>2. \A r \in Requests : req[r] = Idle
  BY DEF Init
<1> QED
  BY <1>1, <1>2 DEF SaveInv, Checked, Idle

\* The entry a save puts in the place of one that was there.
LEMMA SavePlaces ==
    ASSUME NEW f, IsList(f), NEW e \in Submitted, NEW clear, Has(f, e.id)
    PROVE  Lookup(SaveInto(f, e, clear), e.id).prod = e.prod
<1> DEFINE c == [Named(e) EXCEPT !.pw = @ /\ ~clear]
           k == Min(Places(f, e.id))
           d == [c EXCEPT !.pw = @ \/ (~clear /\ f[k].pw)]
           new == [i \in DOMAIN f |-> IF i = k THEN [c EXCEPT !.pw = @ \/ (~clear /\ f[i].pw)] ELSE f[i]]
<1>1. SaveInto(f, e, clear) = new
  BY DEF SaveInto
<1>2. d.id = e.id /\ d.prod = e.prod
  <2>1. Named(e) = [id |-> e.id, at |-> e.at, label |-> Named(e).label, prod |-> e.prod, pw |-> e.pw]
    BY DEF Named, Submitted
  <2> QED
    BY <2>1
<1>3. k \in Places(f, e.id) /\ k \in DOMAIN f /\ f[k].id = e.id
  BY FirstPlace DEF Places
<1>4. DOMAIN new = DOMAIN f /\ new[k] = d /\ \A i \in DOMAIN f : i # k => new[i] = f[i]
  BY <1>3
<1> HIDE DEF new, d, k
<1>5. Places(new, e.id) = Places(f, e.id)
  BY <1>2, <1>3, <1>4 DEF Places
<1>6. Lookup(new, e.id) = d
  BY <1>4, <1>5 DEF Lookup, k
<1> QED
  BY <1>1, <1>2, <1>6

\* A save without the label removes a production mark only when the entry
\* changed, or became readable, after the save was checked: for any file, and
\* whatever else is saved, deleted, imported or used in between
\* (production.go:67-79).
THEOREM SavesKeepMarks == Spec => SavesAskForLabel
<1> DEFINE Asks == \A r \in Requests : SaveStored(r) =>
                     \A id \in unmarked' \ unmarked : req[r].saw # {Lookup(file, id)}
<1>1. SaveInv /\ [Next]_vars => [Asks]_vars
  <2> SUFFICES ASSUME SaveInv, NEW r \in Requests, SaveStored(r),
                      NEW id \in unmarked' \ unmarked, req[r].saw = {Lookup(file, id)}
               PROVE  FALSE
    OBVIOUS
  <2> DEFINE q == req[r]
             x == Lookup(file, id)
  <2>1. Checked(q) /\ IsList(file) /\ q.pc = "saving"
    BY DEF SaveInv, SaveStored
  <2>2. PICK e \in Identified(q.form) : Writes(SaveInto(file, e, q.flag), q.typed)
    BY DEF SaveStored
  <2>3. id \in Ids /\ Has(file, id) /\ x.prod /\ ~Lookup(file', id).prod /\ q.typed # x.label
    BY <2>2 DEF Writes, Unmarks
  <2>4. x.id = id
    BY <2>1, <2>3, FirstPlace DEF Lookup, Places
  <2>5. q.form \in Submitted /\ q.form.id = id /\ q.form.prod
    BY <2>1, <2>3, <2>4 DEF Checked
  <2>6. e \in Submitted /\ e.id = id /\ e.prod
    <3>1. id # None
      BY <2>3, StoreAssumption DEF StoreAssumption
    <3>2. e = [q.form EXCEPT !.id = id]
      BY <2>5, <3>1 DEF Identified
    <3> HIDE DEF q
    <3> QED
      BY <2>3, <2>5, <3>2 DEF Submitted
  <2>7. Lookup(file', id).prod = e.prod
    BY <2>1, <2>2, <2>3, <2>6, SavePlaces DEF Writes
  <2> QED
    BY <2>3, <2>6, <2>7
<1> QED
  BY <1>1, Initially, Inductive, SaveInitially, SaveInductive, PTL DEF Spec, SavesAskForLabel

(***************************************************************************)
(* What the sessions keep of their databases.  A step changes what a       *)
(* session holds, or what a database is in, at one place; whoever changes  *)
(* a database takes its last writer's name away first.                     *)
(***************************************************************************)
DatabaseShaped(v) ==
    v = [rows |-> v.rows, ddl |-> v.ddl, behind |-> v.behind, settled |-> v.settled,
         cloned |-> v.cloned]
DatabasesShaped(base) ==
    base = [d \in Databases |-> base[d]] /\ \A d \in Databases : DatabaseShaped(base[d])

\* Sessions that were closed too: jobs still run on them.
Follows(s, v, b) ==
    /\ b.settled = s => v.counts \in {None, b.rows}
    /\ b.cloned = s => v.ddl \in {None, b.ddl}
AllFollow(sess, base) ==
    \A s \in DOMAIN sess, d \in Databases : DbOf[sess[s].at] = d => Follows(s, sess[s], base[d])

CachesInv == DatabasesShaped(db) /\ AllFollow(session, db)

\* The database steps of one run.
LEMMA DatabaseMoves ==
    ASSUME IInv, CachesInv, NEW r \in Requests,
           WriteRows(r) \/ WriteSchema(r) \/ SchemaWritten(r) \/ Sync(r) \/ End(r)
    PROVE  CachesInv'
<1> DEFINE at == DbAt(req[r].sid)
<1> DEFINE sid == req[r].sid
<1>1. SessionsShaped(session) /\ None \notin Sids
  BY WebAssumption DEF IInv
<1>2. CASE WriteRows(r)
  <2>1. UNCHANGED session /\ db' = [db EXCEPT ![at] = [db[at] EXCEPT !.rows = @ + 1, !.behind = TRUE,
                                                                !.settled = None]]
    BY <1>2 DEF WriteRows
  <2>2. DatabasesShaped(db')
    BY <2>1 DEF CachesInv, DatabasesShaped, DatabaseShaped
  <2>3. \A d \in Databases : /\ db'[d].cloned = db[d].cloned /\ db'[d].ddl = db[d].ddl
                             /\ db'[d] = db[d] \/ db'[d].settled = None
    BY <2>1 DEF CachesInv, DatabasesShaped, DatabaseShaped
  <2>4. \A s \in DOMAIN session : s # None
    BY <1>1 DEF SessionsShaped
  <2>5. AllFollow(session, db')
    BY <2>3, <2>4 DEF CachesInv, AllFollow, Follows
  <2> QED
    BY <2>1, <2>2, <2>5 DEF CachesInv
<1>3. CASE WriteSchema(r)
  <2>1. UNCHANGED session /\ db' = [db EXCEPT ![at] =
                [db[at] EXCEPT !.rows = @ + 1, !.ddl = @ + 1, !.settled = None, !.cloned = None]]
    BY <1>3 DEF WriteSchema
  <2>2. DatabasesShaped(db')
    BY <2>1 DEF CachesInv, DatabasesShaped, DatabaseShaped
  <2>3. \A d \in Databases : db'[d] = db[d] \/ (db'[d].settled = None /\ db'[d].cloned = None)
    BY <2>1 DEF CachesInv, DatabasesShaped, DatabaseShaped
  <2>4. \A s \in DOMAIN session : s # None
    BY <1>1 DEF SessionsShaped
  <2>5. AllFollow(session, db')
    BY <2>3, <2>4 DEF CachesInv, AllFollow, Follows
  <2> QED
    BY <2>1, <2>2, <2>5 DEF CachesInv
<1>4. CASE SchemaWritten(r)
  <2>1. session' = [session EXCEPT ![sid].ddl = None] /\ db' = [db EXCEPT ![at].cloned = sid]
    BY <1>4 DEF SchemaWritten
  <2>2. DatabasesShaped(db')
    BY <2>1 DEF CachesInv, DatabasesShaped, DatabaseShaped
  <2>3. \A d \in Databases : /\ db'[d].settled = db[d].settled /\ db'[d].rows = db[d].rows
                             /\ db'[d] = db[d] \/ db'[d].cloned = sid
    BY <2>1 DEF CachesInv, DatabasesShaped, DatabaseShaped
  <2>4. /\ DOMAIN session' = DOMAIN session
        /\ \A s \in DOMAIN session : /\ session'[s].at = session[s].at
                                     /\ session'[s].counts = session[s].counts
                                     /\ session'[s].ddl = IF s = sid THEN None ELSE session[s].ddl
    BY <1>1, <2>1 DEF SessionsShaped, SessionShaped
  <2> QED
    BY <2>2, <2>3, <2>4 DEF CachesInv, AllFollow, Follows
<1>5. CASE Sync(r)
  <2>1. UNCHANGED session /\ (UNCHANGED db \/ db' = [db EXCEPT ![at].behind = FALSE])
    BY <1>5 DEF Sync
  <2>2. DatabasesShaped(db')
    BY <2>1 DEF CachesInv, DatabasesShaped, DatabaseShaped
  <2>3. \A d \in Databases : /\ db'[d].settled = db[d].settled /\ db'[d].rows = db[d].rows
                             /\ db'[d].cloned = db[d].cloned /\ db'[d].ddl = db[d].ddl
    BY <2>1 DEF CachesInv, DatabasesShaped, DatabaseShaped
  <2> QED
    BY <2>1, <2>2, <2>3 DEF CachesInv, AllFollow, Follows
<1>6. CASE End(r) /\ req[r].kind = "clone"
  BY <1>6 DEF End, CachesInv
<1>7. CASE End(r) /\ req[r].kind # "clone"
  <2>1. /\ session' = [session EXCEPT ![sid].counts = None]
        /\ UNCHANGED db \/ db' = [db EXCEPT ![at].settled = sid]
    BY <1>7 DEF End
  <2>2. DatabasesShaped(db')
    BY <2>1 DEF CachesInv, DatabasesShaped, DatabaseShaped
  <2>3. \A d \in Databases : /\ db'[d].cloned = db[d].cloned /\ db'[d].ddl = db[d].ddl
                             /\ db'[d] = db[d] \/ db'[d].settled = sid
    <3>1. CASE UNCHANGED db
      BY <3>1
    <3>2. CASE db' = [db EXCEPT ![at].settled = sid]
      BY <3>2 DEF CachesInv, DatabasesShaped, DatabaseShaped
    <3> QED
      BY <2>1, <3>1, <3>2
  <2>4. /\ DOMAIN session' = DOMAIN session
        /\ \A s \in DOMAIN session : /\ session'[s].at = session[s].at
                                     /\ session'[s].ddl = session[s].ddl
                                     /\ session'[s].counts = IF s = sid THEN None ELSE session[s].counts
    BY <1>1, <2>1 DEF SessionsShaped, SessionShaped
  <2> QED
    BY <2>2, <2>3, <2>4 DEF CachesInv, AllFollow, Follows
<1> QED
  BY <1>2, <1>3, <1>4, <1>5, <1>6, <1>7

\* Everything else a session is: what it reads it reads now.
LEMMA CacheMoves ==
    ASSUME IInv, CachesInv, UNCHANGED db,
           \/ UNCHANGED session
           \/ \E s, x : \/ session' = [session EXCEPT ![s].saved = x]
                        \/ session' = [session EXCEPT ![s].live = x]
           \/ \E at : \E s \in Sids \ Opened : session' = [z \in Opened \cup {s} |->
                                               IF z = s THEN Fresh(at) ELSE session[z]]
           \/ \E s : \/ Look(s)
                     \/ session' = [session EXCEPT ![s].ddl = IF @ = None THEN db[DbAt(s)].ddl ELSE @]
    PROVE  CachesInv'
<1>1. SessionsShaped(session)
  BY DEF IInv
<1>2. CASE UNCHANGED session
  BY <1>2 DEF CachesInv
<1>3. ASSUME NEW s, NEW x, \/ session' = [session EXCEPT ![s].saved = x]
                           \/ session' = [session EXCEPT ![s].live = x]
      PROVE  CachesInv'
  <2>1. /\ DOMAIN session' = DOMAIN session
        /\ \A z \in DOMAIN session : /\ session'[z].at = session[z].at
                                     /\ session'[z].ddl = session[z].ddl
                                     /\ session'[z].counts = session[z].counts
    BY <1>1, <1>3 DEF SessionsShaped, SessionShaped
  <2> QED
    BY <2>1 DEF CachesInv, AllFollow, Follows
<1>4. ASSUME NEW s \in Sids \ Opened, NEW at,
             session' = [z \in Opened \cup {s} |-> IF z = s THEN Fresh(at) ELSE session[z]]
      PROVE  CachesInv'
  <2>1. Fresh(at).counts = None /\ Fresh(at).ddl = None
    BY DEF Fresh
  <2>2. DOMAIN session' = DOMAIN session \cup {s}
    BY <1>4 DEF Opened
  <2>3. session'[s] = Fresh(at) /\ \A z \in DOMAIN session : session'[z] = session[z]
    BY <1>4 DEF Opened
  <2> QED
    BY <2>1, <2>2, <2>3 DEF CachesInv, AllFollow, Follows
<1>5. ASSUME NEW s, \/ Look(s)
                    \/ session' = [session EXCEPT ![s].ddl = IF @ = None THEN db[DbAt(s)].ddl ELSE @]
      PROVE  CachesInv'
  <2> DEFINE base == db[DbOf[session[s].at]]
  <2>1. \E x \in {session[s].counts, base.rows}, y \in {session[s].ddl, base.ddl} :
           \/ session' = [session EXCEPT ![s].counts = x, ![s].ddl = y]
           \/ session' = [session EXCEPT ![s].ddl = y]
    BY <1>5 DEF Look, DbAt
  <2>2. PICK x \in {session[s].counts, base.rows}, y \in {session[s].ddl, base.ddl} :
           \/ session' = [session EXCEPT ![s].counts = x, ![s].ddl = y]
           \/ session' = [session EXCEPT ![s].ddl = y]
    BY <2>1
  <2>3. DOMAIN session' = DOMAIN session
    BY <2>2
  <2>4. \A z \in DOMAIN session :
           /\ session'[z].at = session[z].at
           /\ z # s => session'[z] = session[z]
           /\ z = s => session'[z].ddl = y /\ session'[z].counts \in {session[s].counts, x}
    BY <1>1, <2>2 DEF SessionsShaped, SessionShaped
  <2>5. \A z \in DOMAIN session, d \in Databases : DbOf[session'[z].at] = d =>
           Follows(z, session'[z], db[d])
    BY <2>2, <2>4 DEF CachesInv, AllFollow, Follows
  <2> QED
    BY <2>3, <2>5 DEF CachesInv, AllFollow
<1> QED
  BY <1>2, <1>3, <1>4, <1>5

LEMMA CachesInductive == IInv /\ CachesInv /\ [Next]_vars => CachesInv'
<1> SUFFICES ASSUME IInv, CachesInv, [Next]_vars PROVE CachesInv'
  OBVIOUS
<1>1. ASSUME NEW r \in Requests, Ask(r) PROVE CachesInv'
  <2>1. UNCHANGED db /\ (UNCHANGED session \/ \E s \in Live : session' = [session EXCEPT ![s].live = FALSE])
    BY <1>1 DEF Ask, SaveAsked, ConnectAsked, Delete, ConnectSavedAsked, Import, Disconnect,
                SeedAsked, GapsAsked, MirrorAsked, CloneAsked, Guarded
  <2> QED
    BY <2>1, CacheMoves
<1>2. ASSUME NEW r \in Requests, Step(r) \/ Cancel(r) PROVE CachesInv'
  <2>1. CASE WriteRows(r) \/ WriteSchema(r) \/ SchemaWritten(r) \/ Sync(r) \/ End(r)
    BY <2>1, DatabaseMoves
  <2>2. CASE \/ SaveStored(r) \/ ConnectDone(r) \/ ResolveSaved(r) \/ ResolveOpen(r)
             \/ ResolveTyped(r) \/ ClonePlanned(r) \/ Fail(r) \/ RowsWritten(r) \/ Cancel(r)
    <3>1. UNCHANGED <<session, db>>
      BY <2>2 DEF SaveStored, ConnectDone, ResolveSaved, ResolveOpen, ResolveTyped,
                  ClonePlanned, Fail, RowsWritten, Cancel
    <3> QED
      BY <3>1, CacheMoves
  <2>3. CASE ConnectSavedDone(r) \/ Resolved(r)
    <3>1. UNCHANGED db /\ \E s, x : session' = [session EXCEPT ![s].saved = x]
      BY <2>3 DEF ConnectSavedDone, Resolved
    <3> QED
      BY <3>1, CacheMoves
  <2>4. CASE Dial(r)
    <3>1. UNCHANGED db
      BY <2>4 DEF Dial
    <3>2. \/ UNCHANGED session
          \/ \E s \in Sids \ Opened : session' = [z \in Opened \cup {s} |->
                                         IF z = s THEN Fresh(req[r].at) ELSE session[z]]
      BY <2>4 DEF Dial
    <3> QED
      BY <3>1, <3>2, CacheMoves
  <2>5. CASE Prepared(r)
    <3>1. UNCHANGED db
      BY <2>5 DEF Prepared
    <3>2. session' = [session EXCEPT ![req[r].sid].ddl =
                         IF @ = None THEN db[DbAt(req[r].sid)].ddl ELSE @]
      BY <2>5 DEF Prepared
    <3> QED
      BY <3>1, <3>2, CacheMoves
  <2> QED
    BY <1>2, <2>1, <2>2, <2>3, <2>4, <2>5 DEF Step, Job
<1>3. ASSUME NEW s \in Live, Look(s) PROVE CachesInv'
  <2>1. UNCHANGED db
    BY <1>3 DEF Look
  <2> QED
    BY <1>3, <2>1, CacheMoves
<1>4. CASE UNCHANGED vars
  BY <1>4, CacheMoves DEF vars
<1> QED
  BY <1>1, <1>2, <1>3, <1>4 DEF Next

\* Once the last run to write to a database has ended, its session shows the
\* rows that are there, and after the last clone the tables that are there: for
\* any runs sharing sessions, closed or not (runners.go:162, 202, 423).
THEOREM CachesFollow == Spec => []CachesFollowRuns
<1>1. Init => CachesInv
  <2> SUFFICES ASSUME Init PROVE CachesInv
    OBVIOUS
  <2>1. db = [d \in Databases |-> Untouched] /\ DatabaseShaped(Untouched)
    BY DEF Init, DatabaseShaped, Untouched
  <2>2. Untouched.settled = None /\ Untouched.cloned = None
    BY DEF Untouched
  <2>3. DOMAIN session \subseteq Sids /\ None \notin Sids
    BY Initially, WebAssumption DEF IInv, SessionsShaped
  <2> QED
    BY <2>1, <2>2, <2>3 DEF CachesInv, DatabasesShaped, AllFollow, Follows
<1>2. CachesInv => CachesFollowRuns
  BY DEF CachesInv, AllFollow, Follows, CachesFollowRuns, Live, Opened, DbAt
<1> QED
  BY <1>1, <1>2, Initially, Inductive, CachesInductive, PTL DEF Spec

(***************************************************************************)
(* What becomes of the rows written.  Ids past the sequences are the       *)
(* doing of a request that still owes them a synchronisation, or of one    *)
(* that was cancelled and skipped it.                                      *)
(***************************************************************************)
Skipped(q) == q.wrote /\ q.stopped /\ q.kind \in {"seed", "gaps"}
Owes(q, sess, d) ==
    /\ q.wrote /\ q.kind # "clone" /\ q.pc \in {"writing", "wrote", "failed"}
    /\ DbOf[sess[q.sid].at] = d
Answers(q, sess, d) == Skipped(q) \/ Owes(q, sess, d)

Answered(d) == "sync" \in Faults \/ \E r \in Requests : Answers(req[r], session, d)

SequencesInv ==
    /\ DatabasesShaped(db)
    /\ \A d \in Databases : db[d].behind => Answered(d)

\* What a step on a database does to it, the sequences aside.
LEMMA BehindKept ==
    ASSUME DatabasesShaped(db), NEW at, NEW s,
           \/ UNCHANGED db
           \/ db' = [db EXCEPT ![at] =
                [db[at] EXCEPT !.rows = @ + 1, !.ddl = @ + 1, !.settled = None, !.cloned = None]]
           \/ db' = [db EXCEPT ![at].cloned = s]
           \/ db' = [db EXCEPT ![at].settled = s]
    PROVE  DatabasesShaped(db') /\ \A d \in Databases : db'[d].behind => db[d].behind
<1>1. CASE UNCHANGED db
  BY <1>1
<1>2. CASE db' = [db EXCEPT ![at] =
             [db[at] EXCEPT !.rows = @ + 1, !.ddl = @ + 1, !.settled = None, !.cloned = None]]
  <2>1. DatabasesShaped(db')
    BY <1>2 DEF DatabasesShaped, DatabaseShaped
  <2>2. \A d \in Databases : db'[d].behind = db[d].behind
    BY <1>2 DEF DatabasesShaped, DatabaseShaped
  <2> QED
    BY <2>1, <2>2
<1>3. CASE db' = [db EXCEPT ![at].cloned = s] \/ db' = [db EXCEPT ![at].settled = s]
  <2>1. DatabasesShaped(db')
    BY <1>3 DEF DatabasesShaped, DatabaseShaped
  <2>2. \A d \in Databases : db'[d].behind = db[d].behind
    BY <1>3 DEF DatabasesShaped, DatabaseShaped
  <2> QED
    BY <2>1, <2>2
<1> QED
  BY <1>1, <1>2, <1>3

LEMMA BehindCleared ==
    ASSUME DatabasesShaped(db), NEW at, db' = [db EXCEPT ![at].behind = FALSE]
    PROVE  /\ DatabasesShaped(db')
           /\ \A d \in Databases : db'[d].behind => db[d].behind /\ d # at
<1>1. DatabasesShaped(db')
  BY DEF DatabasesShaped, DatabaseShaped
<1>2. \A d \in Databases : d # at => db'[d] = db[d]
  BY DEF DatabasesShaped
<1>3. ASSUME at \in Databases PROVE ~db'[at].behind
  <2>1. db'[at] = [db[at] EXCEPT !.behind = FALSE]
    BY <1>3 DEF DatabasesShaped
  <2>2. DOMAIN db[at] = {"rows", "ddl", "behind", "settled", "cloned"}
    BY <1>3 DEF DatabasesShaped, DatabaseShaped
  <2>3. "behind" \in DOMAIN db[at]
    BY <2>2
  <2> QED
    BY <2>1, <2>3, Zenon
<1> QED
  BY <1>1, <1>2, <1>3

\* A step of one request after which it, or another, still answers.
LEMMA StillAnswered ==
    ASSUME IInv, SequencesInv, NEW r \in Requests, Moved(r), NEW next, Become(r, next),
           DatabasesShaped(db'),
           \A d \in Databases :
              /\ db'[d].behind => db[d].behind \/ Answers(next, session', d)
              /\ db'[d].behind /\ Answers(req[r], session, d) =>
                    "sync" \in Faults \/ Answers(next, session', d)
    PROVE  SequencesInv'
<1>1. \A z \in Requests : req'[z] = IF z = r THEN next ELSE req[z]
  BY DEF Become, IInv
<1>2. ASSUME NEW z \in Requests, NEW d, Answers(req[z], session, d) PROVE Answers(req[z], session', d)
  <2>1. Owes(req[z], session, d) => req[z].sid \in DOMAIN session
    BY DEF Owes, IInv, Cleared, Running, FreeAt
  <2> QED
    BY <1>2, <2>1 DEF Answers, Owes, Moved, Kept
<1>3. ASSUME NEW d \in Databases, db'[d].behind PROVE Answered(d)'
  <2>1. CASE Answers(next, session', d)
    BY <1>1, <2>1 DEF Answered
  <2>2. CASE db[d].behind /\ ~Answers(next, session', d)
    <3>1. "sync" \in Faults \/ \E z \in Requests : Answers(req[z], session, d)
      BY <2>2 DEF SequencesInv, Answered
    <3>2. CASE "sync" \in Faults
      BY <3>2 DEF Answered
    <3>3. ASSUME NEW z \in Requests, Answers(req[z], session, d) PROVE Answered(d)'
      <4>1. CASE z = r
        BY <1>3, <2>2, <3>3, <4>1 DEF Answered
      <4>2. CASE z # r
        <5>1. Answers(req'[z], session', d)
          BY <1>1, <1>2, <3>3, <4>2
        <5> QED
          BY <5>1 DEF Answered
      <4> QED
        BY <4>1, <4>2
    <3> QED
      BY <3>1, <3>2, <3>3
  <2> QED
    BY <1>3, <2>1, <2>2
<1> QED
  BY <1>1, <1>3 DEF SequencesInv

\* A request that has written nothing answers for nothing.
LEMMA NothingAnswered ==
    ASSUME IInv, SequencesInv, UNCHANGED db, NEW r \in Requests, Moved(r),
           ~req[r].wrote
    PROVE  SequencesInv'
<1>1. \A d : ~Answers(req[r], session, d)
  BY DEF Answers, Skipped, Owes
<1>2. PICK next : Become(r, next)
  BY DEF Moved
<1> QED
  BY <1>1, <1>2, StillAnswered DEF SequencesInv

\* Whatever is asked, and every step of a request that is no run at work.
LEMMA QuietSequences ==
    ASSUME IInv, SequencesInv, NEW r \in Requests, Moved(r),
           \/ Ask(r) \/ SaveStored(r) \/ ConnectDone(r) \/ ConnectSavedDone(r)
           \/ Dial(r) \/ ResolveSaved(r) \/ ResolveOpen(r) \/ ResolveTyped(r) \/ Resolved(r)
    PROVE  SequencesInv'
<1>1. UNCHANGED db
  BY DEF Ask, SaveAsked, ConnectAsked, Delete, ConnectSavedAsked, Import, Disconnect,
         SeedAsked, GapsAsked, MirrorAsked, CloneAsked, Guarded,
         SaveStored, ConnectDone, ConnectSavedDone,
         Dial, ResolveSaved, ResolveOpen, ResolveTyped, Resolved
<1>2. req[r].pc \notin Running \cup {"done"}
  <2>1. req[r].pc \in {"idle", "saving", "opened", "dialing", "resolving"}
    <3>1. CASE Ask(r)
      BY <3>1 DEF Ask, SaveAsked, ConnectAsked, Delete, ConnectSavedAsked, Import, Disconnect,
                  SeedAsked, GapsAsked, MirrorAsked, CloneAsked, Guarded
    <3>2. CASE SaveStored(r) \/ ConnectDone(r) \/ ConnectSavedDone(r)
      BY <3>2 DEF SaveStored, ConnectDone, ConnectSavedDone
    <3>3. CASE Dial(r) \/ ResolveSaved(r) \/ ResolveOpen(r) \/ ResolveTyped(r) \/ Resolved(r)
      BY <3>3 DEF Dial, ResolveSaved, ResolveOpen, ResolveTyped, Resolved
    <3> QED
      BY <3>1, <3>2, <3>3
  <2> QED
    BY <2>1 DEF Running
<1>3. ~req[r].wrote
  BY <1>2 DEF IInv, Cleared
<1> QED
  BY <1>1, <1>3, NothingAnswered

\* A run at work: it answers from its first row on, until its sequences are
\* moved or it skips them, and a clone never does.
LEMMA WorkAnswers ==
    ASSUME IInv, SequencesInv, NEW r \in Requests, Moved(r),
           \/ Prepared(r) \/ ClonePlanned(r) \/ WriteRows(r) \/ WriteSchema(r) \/ Fail(r)
           \/ RowsWritten(r) \/ SchemaWritten(r) \/ Sync(r) \/ Cancel(r) \/ End(r)
    PROVE  SequencesInv'
<1> DEFINE q == req[r]
<1> DEFINE at == DbOf[session[q.sid].at]
<1>1. RequestShaped(q) /\ Cleared(q, session) /\ DatabasesShaped(db)
  BY DEF IInv, SequencesInv
<1>2. q.pc \in Running /\ q.sid \in DOMAIN session
  BY <1>1 DEF Prepared, ClonePlanned, WriteRows, WriteSchema, Writing, Fail, RowsWritten,
              SchemaWritten, Sync, Cancel, End, Running, Cleared, FreeAt
<1>3. session'[q.sid].at = session[q.sid].at
  BY <1>2 DEF Moved, Kept
<1>4. CASE Prepared(r) \/ ClonePlanned(r) \/ Fail(r) \/ RowsWritten(r) \/ Cancel(r)
  <2>1. \E next :
          /\ Become(r, next)
          /\ \A d : Answers(q, session, d) => Answers(next, session', d)
    <3>1. ASSUME NEW pc, Become(r, [q EXCEPT !.pc = pc]),
                 q.wrote => q.pc \notin {"wrote", "failed"} /\ (q.pc = "writing" => pc \in {"wrote", "failed"})
          PROVE  \A d : Answers(q, session, d) => Answers([q EXCEPT !.pc = pc], session', d)
      BY <1>1, <1>3, <3>1 DEF RequestShaped, Fields, Answers, Skipped, Owes
    <3>2. \A d : Answers(q, session, d) => Answers([q EXCEPT !.stopped = TRUE], session', d)
      BY <1>1, <1>3 DEF RequestShaped, Fields, Answers, Skipped, Owes
    <3> QED
      BY <1>1, <1>4, <3>1, <3>2 DEF Prepared, ClonePlanned, Fail, RowsWritten, Cancel
  <2>2. UNCHANGED db
    BY <1>4 DEF Prepared, ClonePlanned, Fail, RowsWritten, Cancel
  <2> QED
    BY <1>1, <2>1, <2>2, StillAnswered
<1>5. CASE WriteRows(r)
  <2> DEFINE next == [q EXCEPT !.wrote = TRUE]
  <2>1. /\ Become(r, next) /\ q.kind # "clone" /\ q.pc = "writing"
        /\ db' = [db EXCEPT ![at] = [db[at] EXCEPT !.rows = @ + 1, !.behind = TRUE, !.settled = None]]
    BY <1>5 DEF WriteRows, Writing, DbAt
  <2>2. DatabasesShaped(db') /\ \A d \in Databases : db'[d].behind => db[d].behind \/ d = at
    BY <1>1, <2>1 DEF DatabasesShaped, DatabaseShaped
  <2>3. Answers(next, session', at)
    BY <1>1, <1>3, <2>1 DEF RequestShaped, Fields, Answers, Owes
  <2>4. \A d : Answers(q, session, d) => Answers(next, session', d)
    BY <1>5 DEF WriteRows, Writing, Answers, Skipped, Owes
  <2> HIDE DEF next
  <2> QED
    BY <2>1, <2>2, <2>3, <2>4, StillAnswered
<1>6. CASE WriteSchema(r)
  <2> DEFINE next == [q EXCEPT !.wrote = TRUE]
  <2>1. /\ Become(r, next)
        /\ db' = [db EXCEPT ![at] =
                [db[at] EXCEPT !.rows = @ + 1, !.ddl = @ + 1, !.settled = None, !.cloned = None]]
    BY <1>6 DEF WriteSchema, DbAt
  <2>2. DatabasesShaped(db') /\ \A d \in Databases : db'[d].behind => db[d].behind
    BY <1>1, <2>1, BehindKept
  <2>3. \A d : ~Answers(q, session, d)
    BY <1>6 DEF WriteSchema, Writing, Answers, Skipped, Owes
  <2> HIDE DEF next
  <2> QED
    BY <2>1, <2>2, <2>3, StillAnswered
<1>7. CASE SchemaWritten(r)
  <2> DEFINE next == [q EXCEPT !.pc = "wrote"]
  <2>1. /\ Become(r, next)
        /\ db' = [db EXCEPT ![at].cloned = q.sid]
    BY <1>7 DEF SchemaWritten, DbAt
  <2>2. DatabasesShaped(db') /\ \A d \in Databases : db'[d].behind => db[d].behind
    BY <1>1, <2>1, BehindKept
  <2>3. \A d : ~Answers(q, session, d)
    BY <1>7 DEF SchemaWritten, Answers, Skipped, Owes
  <2> HIDE DEF next
  <2> QED
    BY <2>1, <2>2, <2>3, StillAnswered
<1>8. CASE Sync(r)
  <2> DEFINE next == [q EXCEPT !.pc = "ending"]
  <2>1. Become(r, next) /\ q.wrote
    BY <1>1, <1>8 DEF Sync, Cleared
  <2>2. CASE db' = [db EXCEPT ![at].behind = FALSE]
    <3>1. /\ DatabasesShaped(db')
          /\ \A d \in Databases : db'[d].behind => db[d].behind /\ d # at
      BY <1>1, <2>2, BehindCleared
    <3>2. ASSUME NEW d, Answers(q, session, d), d # at PROVE Answers(next, session', d)
      <4>1. Skipped(q)
        BY <3>2 DEF Answers, Owes
      <4>2. next.wrote = q.wrote /\ next.stopped = q.stopped /\ next.kind = q.kind
        BY <1>1 DEF RequestShaped, Fields
      <4> HIDE DEF next
      <4> QED
        BY <4>1, <4>2 DEF Answers, Skipped
    <3> HIDE DEF next
    <3> QED
      BY <2>1, <3>1, <3>2, StillAnswered
  <2>3. CASE /\ UNCHANGED db
             /\ \/ "sync" \in Faults \/ q.kind = "clone"
                \/ q.kind \in {"seed", "gaps"} /\ q.stopped
    <3>1. \A d : Answers(q, session, d) => "sync" \in Faults \/ Answers(next, session', d)
      BY <1>1, <2>1, <2>3 DEF RequestShaped, Fields, Answers, Skipped, Owes
    <3> HIDE DEF next
    <3> QED
      BY <1>1, <2>1, <2>3, <3>1, StillAnswered
  <2> QED
    BY <1>8, <2>2, <2>3 DEF Sync, DbAt
<1>9. CASE End(r)
  <2> DEFINE next == [Idle EXCEPT !.pc = "done", !.kind = q.kind, !.wrote = q.wrote,
                                  !.stopped = q.stopped, !.sid = q.sid]
  <2>1. Become(r, next) /\ (UNCHANGED db \/ db' = [db EXCEPT ![at].settled = q.sid])
    BY <1>9 DEF End, Over, DbAt
  <2>2. DatabasesShaped(db') /\ \A d \in Databases : db'[d].behind => db[d].behind
    BY <1>1, <2>1, BehindKept
  <2>3. \A d : Answers(q, session, d) => Answers(next, session', d)
    BY <1>9 DEF End, Idle, Answers, Skipped, Owes
  <2> HIDE DEF next
  <2> QED
    BY <2>1, <2>2, <2>3, StillAnswered
<1> QED
  BY <1>4, <1>5, <1>6, <1>7, <1>8, <1>9

\* A look at a session, or a stutter.
LEMMA LookAnswers ==
    ASSUME IInv, SequencesInv, UNCHANGED <<req, db>>, Kept(session, session')
    PROVE  SequencesInv'
<1>1. ASSUME NEW z \in Requests, NEW d, Answers(req[z], session, d) PROVE Answers(req[z], session', d)
  <2>1. Owes(req[z], session, d) => req[z].sid \in DOMAIN session
    BY DEF Owes, IInv, Cleared, Running, FreeAt
  <2> QED
    BY <1>1, <2>1 DEF Answers, Owes, Kept
<1>2. ASSUME NEW d \in Databases, db'[d].behind PROVE Answered(d)'
  <2>1. "sync" \in Faults \/ \E z \in Requests : Answers(req[z], session, d)
    BY <1>2 DEF SequencesInv, Answered
  <2>2. "sync" \in Faults \/ \E z \in Requests : Answers(req'[z], session', d)
    BY <1>1, <2>1
  <2> QED
    BY <2>2 DEF Answered
<1> QED
  BY <1>2 DEF SequencesInv

LEMMA SequencesInductive == IInv /\ SequencesInv /\ [Next]_vars => SequencesInv'
<1> SUFFICES ASSUME IInv, SequencesInv, [Next]_vars PROVE SequencesInv'
  OBVIOUS
<1>1. ASSUME NEW r \in Requests, Ask(r) PROVE SequencesInv'
  BY <1>1, AskMoves, QuietSequences
<1>2. ASSUME NEW r \in Requests, Step(r) \/ Cancel(r) PROVE SequencesInv'
  BY <1>2, StepMoves, QuietSequences, WorkAnswers DEF Step, Job
<1>3. ASSUME NEW s \in Live, Look(s) PROVE SequencesInv'
  <2>1. UNCHANGED <<req, db>> /\ \E x, y : session' = [session EXCEPT ![s].counts = x, ![s].ddl = y]
    BY <1>3 DEF Look
  <2>2. Kept(session, session')
    BY <2>1 DEF Kept, IInv, SessionsShaped, SessionShaped
  <2> QED
    BY <2>1, <2>2, LookAnswers
<1>4. CASE UNCHANGED vars
  BY <1>4, LookAnswers DEF vars, Kept
<1> QED
  BY <1>1, <1>2, <1>3, <1>4 DEF Next

\* Sequences left behind rows no run is writing are the doing of a cancelled
\* seed or fill, or of a database that would not move them: however runs on one
\* database overlap, fail or are cancelled (runners.go:333, 511, 640-653).
THEOREM SequencesAreSettled == Spec => []SequencesSettle
<1>1. Init => SequencesInv
  <2>1. DatabaseShaped(Untouched) /\ ~Untouched.behind
    BY DEF DatabaseShaped, Untouched
  <2> QED
    BY <2>1 DEF Init, SequencesInv, DatabasesShaped
<1>2. SequencesInv => SequencesSettle
  BY DEF SequencesInv, Answered, Answers, Skipped, Owes, SequencesSettle, InFlight, DbAt
<1> QED
  BY <1>1, <1>2, Initially, Inductive, SequencesInductive, PTL DEF Spec
(***************************************************************************)
(* What a session remembers about its database (SessionCache).  Cached     *)
(* counts and shapes are never older than the last run's writes (counts:   *)
(* unless a count was in flight while a run ended), and the shapes shown   *)
(* come from one scan, for any number of tables, requests, scans and runs. *)
(***************************************************************************)
(***************************************************************************)
(* The inductive invariant.                                                *)
(***************************************************************************)
\* What a run left behind is there; who does not count holds nothing, and a
\* count no run overlapped is as new as the last run that ended.
CountInv ==
    /\ \A t \in Tables : settled[t] <= data[t]
    /\ \A c \in Calls : call[c] # "counting" => result[c] = Nothing
    /\ ~overlap => \A c \in Calls : \A t \in DOMAIN result[c] : result[c][t] >= settled[t]

\* A generation is one scan's.  The scan that has the current one began after
\* the last run ended, so what it measured is new; the shapes cached are its.
ScanInv ==
    /\ \A s \in Scans : scan[s] # "scanning" => measured[s] = Nothing /\ myGen[s] = 0
    /\ \A s \in Scans : scan[s] = "scanning" => myGen[s] > 0
    /\ \A s, z \in Scans : myGen[s] > 0 /\ myGen[s] = myGen[z] => s = z
    /\ \A s \in Scans : myGen[s] = gen =>
          \A t \in DOMAIN measured[s] : measured[s][t] >= settled[t]
    /\ \A t \in DOMAIN shapes :
          gen > 0 /\ \A s \in Scans : myGen[s] = gen => s = shapes[t].by

CacheInv == TypeOK /\ CountInv /\ FreshUnlessOverlapped /\ ScanInv /\ ShapesFresh

(***************************************************************************)
(* Partial functions.                                                      *)
(***************************************************************************)
\* A partial function is a function on a part of the domain.
LEMMA PartialIs ==
    ASSUME NEW D, NEW R, NEW f
    PROVE  f \in Partial(D, R) <=> \E E \in SUBSET D : f \in [E -> R]
BY DEF Partial

\* The empty function is one.
LEMMA NothingFacts ==
    ASSUME NEW D, NEW R
    PROVE  Nothing \in Partial(D, R) /\ DOMAIN Nothing = {}
<1>1. Nothing \in [{} -> R] /\ DOMAIN Nothing = {}
  BY DEF Nothing
<1> QED
  BY <1>1, PartialIs

\* Adding a pair keeps the rest.
LEMMA WithFacts ==
    ASSUME NEW D, NEW R, NEW f \in Partial(D, R), NEW x \in D, NEW y \in R
    PROVE  /\ With(f, x, y) \in Partial(D, R)
           /\ DOMAIN With(f, x, y) = DOMAIN f \cup {x}
           /\ With(f, x, y)[x] = y
           /\ \A z \in DOMAIN f : z # x => With(f, x, y)[z] = f[z]
<1>1. PICK E \in SUBSET D : f \in [E -> R]
  BY PartialIs
<1>2. With(f, x, y) \in [E \cup {x} -> R] /\ E \cup {x} \in SUBSET D
  BY <1>1 DEF With
<1>3. With(f, x, y) \in Partial(D, R)
  BY <1>2, PartialIs
<1> QED
  BY <1>1, <1>3 DEF With

\* So does taking one away.
LEMMA WithoutFacts ==
    ASSUME NEW D, NEW R, NEW f \in Partial(D, R), NEW x
    PROVE  /\ Without(f, x) \in Partial(D, R)
           /\ DOMAIN Without(f, x) = DOMAIN f \ {x}
           /\ \A z \in DOMAIN f : z # x => Without(f, x)[z] = f[z]
<1>1. PICK E \in SUBSET D : f \in [E -> R]
  BY PartialIs
<1>2. Without(f, x) \in [E \ {x} -> R] /\ E \ {x} \in SUBSET D
  BY <1>1 DEF Without
<1>3. Without(f, x) \in Partial(D, R)
  BY <1>2, PartialIs
<1> QED
  BY <1>1, <1>3 DEF Without

\* What a partial function yields.
LEMMA PartialFacts ==
    ASSUME NEW D, NEW R, NEW f \in Partial(D, R)
    PROVE  DOMAIN f \subseteq D /\ \A z \in DOMAIN f : f[z] \in R
<1>1. PICK E \in SUBSET D : f \in [E -> R]
  BY PartialIs
<1> QED
  BY <1>1

(***************************************************************************)
(* Types.                                                                  *)
(***************************************************************************)
LEMMA InitType == CacheInit => TypeOK
<1> SUFFICES ASSUME CacheInit PROVE TypeOK
  OBVIOUS
<1> USE CacheAssumption DEF CacheAssumption, CacheInit
<1>1. 0 \in 0..MaxWrites
  OBVIOUS
<1>2. Nothing \in Partial(Tables, 0..MaxWrites) /\ Nothing \in Partial(Tables, [by : Scans, at : 0..MaxWrites])
  BY NothingFacts
<1>3. data \in [Tables -> 0..MaxWrites] /\ settled \in [Tables -> 0..MaxWrites]
  BY <1>1
<1>4. result \in [Calls -> Partial(Tables, 0..MaxWrites)] /\ measured \in [Scans -> Partial(Tables, 0..MaxWrites)]
  BY <1>2
<1>5. gen \in Nat /\ myGen \in [Scans -> 0..gen]
  OBVIOUS
<1>6. \A c \in Calls : call[c] = "counting" <=> loading = c
  OBVIOUS
<1>7. run \in [Runs -> {"writing", "ended"}]
      /\ call \in [Calls -> {"idle", "counting", "waiting", "returned"}]
      /\ joined \in [Calls -> Calls \cup {Nil}]
      /\ tried \in [Calls -> SUBSET Tables]
      /\ scan \in [Scans -> {"idle", "scanning", "ended"}]
      /\ todo \in [Scans -> SUBSET Tables]
  OBVIOUS
<1> QED
  BY <1>2, <1>3, <1>4, <1>5, <1>6, <1>7 DEF TypeOK

LEMMA RunType ==
    ASSUME TypeOK, NEW r \in Runs, EndRun(r) \/ \E t \in Written : Write(r, t)
    PROVE  TypeOK'
<1> USE CacheAssumption DEF CacheAssumption, TypeOK, runVars, countVars, shapeVars
<1>1. CASE EndRun(r)
  <2>1. shapes' \in Partial(Tables, [by : Scans, at : 0..MaxWrites])
    BY <1>1, NothingFacts DEF EndRun
  <2>2. gen' \in Nat /\ myGen' \in [Scans -> 0..gen']
    BY <1>1 DEF EndRun
  <2> QED
    BY <1>1, <2>1, <2>2 DEF EndRun
<1>2. CASE \E t \in Written : Write(r, t)
  <2>1. PICK t \in Written : Write(r, t)
    BY <1>2
  <2>2. data' \in [Tables -> 0..MaxWrites]
    BY <2>1 DEF Write
  <2> QED
    BY <2>1, <2>2 DEF Write
<1> QED
  BY <1>1, <1>2

LEMMA CallType ==
    ASSUME TypeOK, NEW c \in Calls, Call(c) \/ CountStep(c) \/ Quit(c)
    PROVE  TypeOK'
<1> USE CacheAssumption DEF CacheAssumption, TypeOK, runVars, countVars, shapeVars
<1>0. Nothing \in Partial(Tables, 0..MaxWrites)
  BY NothingFacts
<1>1. CASE CallCached(c)
  BY <1>1 DEF CallCached
<1>2. CASE CallWaits(c)
  BY <1>2 DEF CallWaits
<1>3. CASE CallCounts(c)
  BY <1>3 DEF CallCounts
<1>4. CASE \E t \in Tables : CountTable(c, t)
  <2>1. PICK t \in Tables : CountTable(c, t)
    BY <1>4
  <2>2. result' \in [Calls -> Partial(Tables, 0..MaxWrites)]
    <3>1. result[c] \in Partial(Tables, 0..MaxWrites) /\ data[t] \in 0..MaxWrites
      OBVIOUS
    <3>2. With(result[c], t, data[t]) \in Partial(Tables, 0..MaxWrites)
      BY <3>1, WithFacts
    <3> QED
      BY <2>1, <3>2 DEF CountTable
  <2>3. tried' \in [Calls -> SUBSET Tables]
    BY <2>1 DEF CountTable
  <2> QED
    BY <2>1, <2>2, <2>3 DEF CountTable
<1>5. CASE Counted(c)
  <2>1. counts' \in Partial(Tables, 0..MaxWrites) \cup {Nil}
    BY <1>5 DEF Counted
  <2>2. result' \in [Calls -> Partial(Tables, 0..MaxWrites)]
    BY <1>0, <1>5 DEF Counted, Return
  <2> QED
    BY <1>5, <2>1, <2>2 DEF Counted, Return
<1>6. CASE Woken(c)
  <2>1. result' \in [Calls -> Partial(Tables, 0..MaxWrites)]
    BY <1>0, <1>6 DEF Woken, Return
  <2> QED
    BY <1>6, <2>1 DEF Woken, Return
<1>7. CASE Quit(c)
  BY <1>7 DEF Quit
<1> QED
  BY <1>1, <1>2, <1>3, <1>4, <1>5, <1>6, <1>7 DEF Call, CountStep

LEMMA ScanType ==
    ASSUME TypeOK, NEW s \in Scans, Begin(s) \/ EndScan(s) \/ \E t \in Tables : Measure(s, t) \/ Put(s, t)
    PROVE  TypeOK'
<1> USE CacheAssumption DEF CacheAssumption, TypeOK, runVars, countVars, shapeVars
<1>1. CASE Begin(s)
  <2>1. shapes' \in Partial(Tables, [by : Scans, at : 0..MaxWrites])
    BY <1>1, NothingFacts DEF Begin
  <2>2. gen' \in Nat /\ myGen' \in [Scans -> 0..gen']
    BY <1>1 DEF Begin
  <2> QED
    BY <1>1, <2>1, <2>2 DEF Begin
<1>2. CASE EndScan(s)
  BY <1>2 DEF EndScan
<1>3. ASSUME NEW t \in Tables, Measure(s, t) PROVE TypeOK'
  <2>1. measured' \in [Scans -> Partial(Tables, 0..MaxWrites)]
    <3>1. measured \in [Scans -> Partial(Tables, 0..MaxWrites)] /\ data[t] \in 0..MaxWrites
      OBVIOUS
    <3>2. measured' = [measured EXCEPT ![s] = With(@, t, data[t])]
      BY <1>3 DEF Measure
    <3> HIDE DEF TypeOK
    <3>3. With(measured[s], t, data[t]) \in Partial(Tables, 0..MaxWrites)
      BY <3>1, WithFacts
    <3> QED
      BY <3>1, <3>2, <3>3
  <2>2. todo' \in [Scans -> SUBSET Tables]
    BY <1>3 DEF Measure
  <2> QED
    BY <1>3, <2>1, <2>2 DEF Measure
<1>4. ASSUME NEW t \in Tables, Put(s, t) PROVE TypeOK'
  <2>1. measured[s] \in Partial(Tables, 0..MaxWrites)
    OBVIOUS
  <2>2. measured' \in [Scans -> Partial(Tables, 0..MaxWrites)]
    BY <1>4, <2>1, WithoutFacts DEF Put
  <2>3. [by |-> s, at |-> measured[s][t]] \in [by : Scans, at : 0..MaxWrites]
    BY <1>4, <2>1, PartialFacts DEF Put
  <2>4. shapes' \in Partial(Tables, [by : Scans, at : 0..MaxWrites])
    BY <1>4, <2>3, WithFacts DEF Put
  <2> QED
    BY <1>4, <2>2, <2>4 DEF Put
<1> QED
  BY <1>1, <1>2, <1>3, <1>4

\* The state space is as declared.
THEOREM CacheTypeCorrect == CacheSpec => []TypeOK
<1>1. TypeOK /\ [CacheNext]_cacheVars => TypeOK'
  <2> SUFFICES ASSUME TypeOK, [CacheNext]_cacheVars PROVE TypeOK'
    OBVIOUS
  <2>1. CASE UNCHANGED cacheVars
    BY <2>1 DEF TypeOK, cacheVars, runVars, countVars, shapeVars
  <2>2. CASE CacheNext
    BY <2>2, RunType, CallType, ScanType DEF CacheNext
  <2> QED
    BY <2>1, <2>2
<1> QED
  BY <1>1, InitType, PTL DEF CacheSpec

(***************************************************************************)
(* Counts.                                                                 *)
(***************************************************************************)
LEMMA NothingHeld == DOMAIN Nothing = {}
BY DEF Nothing

LEMMA CountsInit == CacheInit => CountInv /\ FreshUnlessOverlapped
BY NothingHeld, CacheAssumption DEF CacheInit, CountInv, FreshUnlessOverlapped, CacheAssumption

\* A run writes, or ends and drops the counts.
LEMMA RunCounts ==
    ASSUME TypeOK, CountInv, FreshUnlessOverlapped,
           NEW r \in Runs, EndRun(r) \/ \E t \in Written : Write(r, t)
    PROVE  CountInv' /\ FreshUnlessOverlapped'
<1>1. CASE EndRun(r)
  <2>1. FreshUnlessOverlapped'
    BY <1>1 DEF EndRun, FreshUnlessOverlapped
  <2>2. settled' = data /\ data' = data /\ result' = result /\ call' = call /\ loading' = loading
    BY <1>1 DEF EndRun
  <2>3. \A t \in Tables : settled'[t] <= data'[t]
    BY <2>2, CacheAssumption DEF TypeOK, CacheAssumption
  <2>4. ASSUME ~overlap', NEW c \in Calls, NEW t \in DOMAIN result'[c]
        PROVE  result'[c][t] >= settled'[t]
    <3>1. loading = Nil
      BY <1>1, <2>4 DEF EndRun
    <3>2. call[c] # "counting"
      BY <3>1, CacheAssumption DEF TypeOK, CacheAssumption
    <3> QED
      BY <2>2, <2>4, <3>2, NothingHeld DEF CountInv
  <2> QED
    BY <2>1, <2>2, <2>3, <2>4 DEF CountInv
<1>2. CASE \E t \in Written : Write(r, t)
  <2>1. PICK t \in Written : Write(r, t)
    BY <1>2
  <2>2. t \in Tables /\ data[t] \in 0..MaxWrites
    BY <2>1, CacheAssumption DEF CacheAssumption, TypeOK
  <2>3. \A u \in Tables : data'[u] >= data[u] /\ settled[u] \in Int /\ data[u] \in Int /\ data'[u] \in Int
    BY <2>1, <2>2, CacheAssumption DEF Write, TypeOK, CacheAssumption
  <2>4. UNCHANGED <<settled, countVars>>
    BY <2>1 DEF Write
  <2> QED
    BY <2>3, <2>4 DEF CountInv, FreshUnlessOverlapped, countVars
<1> QED
  BY <1>1, <1>2

\* A call counts, or lets another count for it.
LEMMA CallCounted ==
    ASSUME TypeOK, CountInv, FreshUnlessOverlapped,
           NEW c \in Calls, Call(c) \/ CountStep(c) \/ Quit(c)
    PROVE  CountInv' /\ FreshUnlessOverlapped'
<1> USE DEF runVars
<1>1. CASE CallCached(c)
  BY <1>1 DEF CallCached, CountInv, FreshUnlessOverlapped, TypeOK
<1>2. CASE CallWaits(c)
  BY <1>2 DEF CallWaits, CountInv, FreshUnlessOverlapped, TypeOK
<1>3. CASE CallCounts(c)
  BY <1>3 DEF CallCounts, CountInv, FreshUnlessOverlapped, TypeOK
<1>4. ASSUME NEW t \in Tables, CountTable(c, t) PROVE CountInv' /\ FreshUnlessOverlapped'
  <2>1. UNCHANGED <<data, settled, call, counts, overlap>>
    BY <1>4 DEF CountTable
  <2>2. \A d \in Calls : d # c => result'[d] = result[d]
    BY <1>4 DEF CountTable, TypeOK
  <2>3. result'[c] = result[c] \/ result'[c] = With(result[c], t, data[t])
    BY <1>4 DEF CountTable, TypeOK
  <2>4. data[t] >= settled[t]
    BY CacheAssumption DEF CountInv, TypeOK, CacheAssumption
  <2>5. ASSUME ~overlap, NEW u \in DOMAIN result'[c] PROVE result'[c][u] >= settled[u]
    <3>1. result[c] \in Partial(Tables, 0..MaxWrites) /\ data[t] \in 0..MaxWrites
      BY DEF TypeOK
    <3>2. CASE result'[c] = result[c]
      BY <2>5, <3>2 DEF CountInv
    <3>3. CASE result'[c] = With(result[c], t, data[t])
      <4>1. /\ DOMAIN result'[c] = DOMAIN result[c] \cup {t}
            /\ result'[c][t] = data[t]
            /\ \A z \in DOMAIN result[c] : z # t => result'[c][z] = result[c][z]
        <5> DEFINE W == With(result[c], t, data[t])
        <5>1. /\ DOMAIN W = DOMAIN result[c] \cup {t}
              /\ W[t] = data[t]
              /\ \A z \in DOMAIN result[c] : z # t => W[z] = result[c][z]
          BY DEF With
        <5> HIDE DEF W
        <5>2. result'[c] = W
          BY <3>3 DEF W
        <5> QED
          BY <5>1, <5>2
      <4> QED
        BY <2>4, <2>5, <4>1 DEF CountInv
    <3> QED
      BY <2>3, <3>2, <3>3
  <2>6. \A d \in Calls : call'[d] # "counting" => result'[d] = Nothing
    BY <1>4, <2>1, <2>2 DEF CountTable, CountInv, TypeOK
  <2> QED
    BY <2>1, <2>2, <2>5, <2>6 DEF CountInv, FreshUnlessOverlapped
<1>5. ASSUME Return(c), UNCHANGED <<data, settled, overlap>>
      PROVE  CountInv'
  <2>1. \A d \in Calls : IF d = c THEN result'[d] = Nothing ELSE result'[d] = result[d] /\ call'[d] = call[d]
    BY <1>5 DEF Return, TypeOK
  <2> QED
    BY <1>5, <2>1, NothingHeld DEF CountInv
<1>6. CASE Counted(c)
  <2>1. CountInv'
    BY <1>5, <1>6 DEF Counted
  <2>2. UNCHANGED <<settled, overlap>> /\ counts' \in {counts, result[c]}
    BY <1>6 DEF Counted
  <2>3. FreshUnlessOverlapped'
    BY <2>2 DEF CountInv, FreshUnlessOverlapped
  <2> QED
    BY <2>1, <2>3
<1>7. CASE Woken(c)
  <2>1. CountInv'
    BY <1>5, <1>7 DEF Woken
  <2> QED
    BY <1>7, <2>1 DEF Woken, FreshUnlessOverlapped
<1>8. CASE Quit(c)
  BY <1>8 DEF Quit, CountInv, FreshUnlessOverlapped
<1> QED
  BY <1>1, <1>2, <1>3, <1>4, <1>6, <1>7, <1>8 DEF Call, CountStep

(***************************************************************************)
(* Shapes.                                                                 *)
(***************************************************************************)
LEMMA ShapesInit == CacheInit => ScanInv /\ ShapesFresh
BY NothingHeld DEF CacheInit, ScanInv, ShapesFresh

\* A run writes, or ends and starts a generation that no scan has.
LEMMA RunShapes ==
    ASSUME TypeOK, ScanInv, ShapesFresh,
           NEW r \in Runs, EndRun(r) \/ \E t \in Written : Write(r, t)
    PROVE  ScanInv' /\ ShapesFresh'
<1>1. CASE EndRun(r)
  <2>1. UNCHANGED <<scan, myGen, measured>> /\ gen' = gen + 1 /\ shapes' = Nothing
    BY <1>1 DEF EndRun
  <2>2. \A s \in Scans : myGen'[s] # gen'
    BY <2>1 DEF TypeOK
  <2>3. DOMAIN shapes' = {}
    BY <2>1, NothingHeld
  <2> QED
    BY <2>1, <2>2, <2>3 DEF ScanInv, ShapesFresh
<1>2. CASE \E t \in Written : Write(r, t)
  BY <1>2 DEF Write, shapeVars, ScanInv, ShapesFresh
<1> QED
  BY <1>1, <1>2

\* A scan begins, with a generation of its own.
LEMMA BeginShapes ==
    ASSUME TypeOK, ScanInv, ShapesFresh, NEW s \in Scans, Begin(s)
    PROVE  ScanInv' /\ ShapesFresh'
<1>1. /\ UNCHANGED <<measured, settled>> /\ gen' = gen + 1 /\ DOMAIN shapes' = {}
      /\ myGen'[s] = gen + 1 /\ \A z \in Scans : z # s => myGen'[z] = myGen[z]
      /\ scan'[s] = "scanning" /\ \A z \in Scans : z # s => scan'[z] = scan[z]
  BY NothingHeld DEF Begin, runVars, TypeOK
<1>2. gen \in Nat /\ \A z \in Scans : myGen[z] \in 0..gen
  BY DEF TypeOK
<1>3. measured[s] = Nothing
  BY DEF Begin, ScanInv
<1>4. \A z \in Scans : scan'[z] # "scanning" => measured'[z] = Nothing /\ myGen'[z] = 0
  BY <1>1 DEF ScanInv
<1>5. \A z \in Scans : scan'[z] = "scanning" => myGen'[z] > 0
  BY <1>1, <1>2 DEF ScanInv
<1>6. \A z, y \in Scans : myGen'[z] > 0 /\ myGen'[z] = myGen'[y] => z = y
  BY <1>1, <1>2 DEF ScanInv
<1>7. \A z \in Scans : myGen'[z] = gen' => DOMAIN measured'[z] = {}
  BY <1>1, <1>2, <1>3, NothingHeld
<1> QED
  BY <1>1, <1>4, <1>5, <1>6, <1>7 DEF ScanInv, ShapesFresh

\* A scan ends, or measures a table.
LEMMA EndShapes ==
    ASSUME TypeOK, ScanInv, ShapesFresh, NEW s \in Scans, EndScan(s)
    PROVE  ScanInv' /\ ShapesFresh'
<1>1. /\ UNCHANGED <<measured, settled, gen, shapes>>
      /\ myGen'[s] = 0 /\ \A z \in Scans : z # s => myGen'[z] = myGen[z]
      /\ scan'[s] = "ended" /\ \A z \in Scans : z # s => scan'[z] = scan[z]
  BY DEF EndScan, runVars, TypeOK
<1>2. gen \in Nat /\ \A z \in Scans : myGen[z] \in 0..gen
  BY DEF TypeOK
<1>3. measured[s] = Nothing
  BY DEF EndScan
<1>4. \A z \in Scans : scan'[z] # "scanning" => measured'[z] = Nothing /\ myGen'[z] = 0
  BY <1>1, <1>3 DEF ScanInv
<1>5. \A z \in Scans : scan'[z] = "scanning" => myGen'[z] > 0
  BY <1>1 DEF ScanInv
<1>6. \A z, y \in Scans : myGen'[z] > 0 /\ myGen'[z] = myGen'[y] => z = y
  BY <1>1, <1>2 DEF ScanInv
<1>7. ASSUME NEW z \in Scans, myGen'[z] = gen', NEW t \in DOMAIN measured'[z]
      PROVE  measured'[z][t] >= settled'[t]
  BY <1>1, <1>3, <1>7, NothingHeld DEF ScanInv
<1>8. ASSUME NEW t \in DOMAIN shapes'
      PROVE  gen' > 0 /\ \A z \in Scans : myGen'[z] = gen' => z = shapes'[t].by
  BY <1>1, <1>2, <1>8 DEF ScanInv
<1> QED
  BY <1>1, <1>4, <1>5, <1>6, <1>7, <1>8 DEF ScanInv, ShapesFresh

LEMMA MeasureShapes ==
    ASSUME TypeOK, CountInv, ScanInv, ShapesFresh, NEW s \in Scans, NEW t \in Tables, Measure(s, t)
    PROVE  ScanInv' /\ ShapesFresh'
<1>1. /\ UNCHANGED <<settled, gen, shapes, scan, myGen>>
      /\ measured'[s] = With(measured[s], t, data[t])
      /\ \A z \in Scans : z # s => measured'[z] = measured[z]
  BY DEF Measure, runVars, TypeOK
<1>2. measured[s] \in Partial(Tables, 0..MaxWrites) /\ data[t] \in 0..MaxWrites
  BY DEF TypeOK
<1>3. /\ DOMAIN measured'[s] = DOMAIN measured[s] \cup {t}
      /\ measured'[s][t] = data[t]
      /\ \A u \in DOMAIN measured[s] : u # t => measured'[s][u] = measured[s][u]
  <2> DEFINE W == With(measured[s], t, data[t])
  <2>1. /\ DOMAIN W = DOMAIN measured[s] \cup {t}
        /\ W[t] = data[t]
        /\ \A u \in DOMAIN measured[s] : u # t => W[u] = measured[s][u]
    BY DEF With
  <2>2. measured'[s] = W
    BY <1>1
  <2> HIDE DEF W
  <2> QED
    BY <2>1, <2>2
<1>4. data[t] >= settled[t]
  BY CacheAssumption DEF CountInv, TypeOK, CacheAssumption
<1>5. ASSUME NEW z \in Scans, myGen'[z] = gen', NEW u \in DOMAIN measured'[z]
      PROVE  measured'[z][u] >= settled'[u]
  <2>1. CASE z = s
    BY <1>1, <1>3, <1>4, <1>5, <2>1 DEF ScanInv
  <2>2. CASE z # s
    BY <1>1, <1>5, <2>2 DEF ScanInv
  <2> QED
    BY <2>1, <2>2
<1>6. scan[s] = "scanning"
  BY DEF Measure
<1>7. \A z \in Scans : scan'[z] # "scanning" => measured'[z] = Nothing /\ myGen'[z] = 0
  BY <1>1, <1>6 DEF ScanInv
<1> QED
  BY <1>1, <1>5, <1>7 DEF ScanInv, ShapesFresh

\* What is put into the cache is of the scan that has the current generation.
LEMMA PutShapes ==
    ASSUME TypeOK, ScanInv, ShapesFresh, NEW s \in Scans, NEW t \in Tables, Put(s, t)
    PROVE  ScanInv' /\ ShapesFresh'
<1>1. /\ UNCHANGED <<settled, gen, scan, myGen>>
      /\ measured'[s] = Without(measured[s], t)
      /\ \A z \in Scans : z # s => measured'[z] = measured[z]
  BY DEF Put, runVars, TypeOK
<1>2. measured[s] \in Partial(Tables, 0..MaxWrites) /\ shapes \in Partial(Tables, [by : Scans, at : 0..MaxWrites])
  BY DEF TypeOK
<1>3. /\ DOMAIN measured'[s] \subseteq DOMAIN measured[s]
      /\ \A u \in DOMAIN measured'[s] : measured'[s][u] = measured[s][u]
  <2> DEFINE W == Without(measured[s], t)
  <2>1. /\ DOMAIN W = DOMAIN measured[s] \ {t}
        /\ \A u \in DOMAIN measured[s] : u # t => W[u] = measured[s][u]
    BY DEF Without
  <2>2. measured'[s] = W
    BY <1>1
  <2> HIDE DEF W
  <2> QED
    BY <2>1, <2>2
<1>4. t \in DOMAIN measured[s]
  BY DEF Put
<1>5. scan[s] = "scanning" /\ myGen[s] > 0
  BY <1>4, NothingHeld DEF ScanInv
<1>6. \A z \in Scans : scan'[z] # "scanning" => measured'[z] = Nothing /\ myGen'[z] = 0
  BY <1>1, <1>5 DEF ScanInv
<1>7. ASSUME NEW z \in Scans, myGen'[z] = gen', NEW u \in DOMAIN measured'[z]
      PROVE  measured'[z][u] >= settled'[u]
  <2>1. CASE z = s
    BY <1>1, <1>3, <1>7, <2>1 DEF ScanInv
  <2>2. CASE z # s
    BY <1>1, <1>7, <2>2 DEF ScanInv
  <2> QED
    BY <2>1, <2>2
<1>8. CASE myGen[s] # gen
  <2>1. shapes' = shapes
    BY <1>8 DEF Put
  <2> QED
    BY <1>1, <1>6, <1>7, <2>1 DEF ScanInv, ShapesFresh
<1>9. CASE myGen[s] = gen
  <2> DEFINE new == [by |-> s, at |-> measured[s][t]]
  <2>1. shapes' = With(shapes, t, new)
    BY <1>9 DEF Put
  <2>2. new \in [by : Scans, at : 0..MaxWrites] /\ new.by = s /\ new.at >= settled[t]
    BY <1>2, <1>4, <1>9, PartialFacts DEF ScanInv
  <2> HIDE DEF new
  <2>3. /\ DOMAIN shapes' = DOMAIN shapes \cup {t}
        /\ shapes'[t] = new
        /\ \A u \in DOMAIN shapes : u # t => shapes'[u] = shapes[u]
    <3> DEFINE W == With(shapes, t, new)
    <3>1. /\ DOMAIN W = DOMAIN shapes \cup {t}
          /\ W[t] = new
          /\ \A u \in DOMAIN shapes : u # t => W[u] = shapes[u]
      BY DEF With
    <3>2. shapes' = W
      BY <2>1
    <3> HIDE DEF W
    <3> QED
      BY <3>1, <3>2
  <2>4. \A u \in DOMAIN shapes' : shapes'[u].by = s /\ shapes'[u].at >= settled[u]
    BY <1>9, <2>2, <2>3 DEF ScanInv, ShapesFresh
  <2>5. \A z \in Scans : myGen[z] = gen => z = s
    BY <1>5, <1>9 DEF ScanInv
  <2>6. \A u \in DOMAIN shapes' : gen' > 0 /\ \A z \in Scans : myGen'[z] = gen' => z = shapes'[u].by
    BY <1>1, <1>5, <1>9, <2>4, <2>5
  <2>7. ShapesFresh'
    BY <1>1, <2>4 DEF ShapesFresh
  <2> QED
    BY <1>1, <1>6, <1>7, <2>6, <2>7 DEF ScanInv
<1> QED
  BY <1>8, <1>9

(***************************************************************************)
(* The theorems.                                                           *)
(***************************************************************************)
LEMMA CacheInductive == CacheInv /\ [CacheNext]_cacheVars => CacheInv'
<1> SUFFICES ASSUME CacheInv, [CacheNext]_cacheVars PROVE CacheInv'
  OBVIOUS
<1> USE DEF CacheInv
<1>1. CASE UNCHANGED cacheVars
  BY <1>1 DEF TypeOK, CountInv, FreshUnlessOverlapped, ScanInv, ShapesFresh, cacheVars, runVars, countVars, shapeVars
<1>2. ASSUME NEW r \in Runs, EndRun(r) \/ \E t \in Written : Write(r, t) PROVE CacheInv'
  BY <1>2, RunType, RunCounts, RunShapes
<1>3. ASSUME NEW c \in Calls, Call(c) \/ CountStep(c) \/ Quit(c) PROVE CacheInv'
  <2>1. UNCHANGED <<settled, shapeVars>>
    BY <1>3 DEF Call, CountStep, CallCached, CallWaits, CallCounts, CountTable, Counted, Woken, Quit, runVars
  <2>2. ScanInv' /\ ShapesFresh'
    BY <2>1 DEF ScanInv, ShapesFresh, shapeVars
  <2> QED
    BY <1>3, <2>2, CallType, CallCounted
<1>4. ASSUME NEW s \in Scans, Begin(s) \/ EndScan(s) \/ \E t \in Tables : Measure(s, t) \/ Put(s, t) PROVE CacheInv'
  <2>1. UNCHANGED <<runVars, countVars>>
    BY <1>4 DEF Begin, EndScan, Measure, Put
  <2>2. CountInv' /\ FreshUnlessOverlapped'
    BY <2>1 DEF CountInv, FreshUnlessOverlapped, runVars, countVars
  <2> QED
    BY <1>4, <2>2, ScanType, BeginShapes, EndShapes, MeasureShapes, PutShapes
<1> QED
  BY <1>1, <1>2, <1>3, <1>4 DEF CacheNext

\* No cached count is older than the writes of the last run that ended, unless
\* a count was in flight while a run ended (session.go:360-420).
THEOREM CountsStayFresh == CacheSpec => []FreshUnlessOverlapped
<1>1. CacheInit => CacheInv
  BY InitType, CountsInit, ShapesInit DEF CacheInv
<1>2. CacheInv => FreshUnlessOverlapped
  BY DEF CacheInv
<1> QED
  BY <1>1, <1>2, CacheInductive, PTL DEF CacheSpec

\* No cached shape is older than the writes of the last run that ended, and
\* those shown together are of one scan (shapes.go:30-90).
THEOREM ShapesStayFresh == CacheSpec => []ShapesFresh
<1>1. CacheInit => CacheInv
  BY InitType, CountsInit, ShapesInit DEF CacheInv
<1>2. CacheInv => ShapesFresh
  BY DEF CacheInv
<1> QED
  BY <1>1, <1>2, CacheInductive, PTL DEF CacheSpec
=============================================================================
