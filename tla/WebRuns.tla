------------------------------ MODULE WebRuns ------------------------------
(***************************************************************************)
(* The web server between a click and a database: connections are saved    *)
(* and opened, runs are asked for, guarded, prepared, written and wound up *)
(* (internal/web handlers_connections.go, handlers_pages.go, session.go,   *)
(* handlers_runs.go, handlers_compare.go, runners.go).                     *)
(*                                                                         *)
(* A request is one HTTP request, and the job it starts.  It holds no lock *)
(* between its steps: the file and the registry each have their own.       *)
(***************************************************************************)
EXTENDS ConnStore, FiniteSets

CONSTANTS Requests,
          Sids,       \* bound: sessions the server opens in its life
          Forms,      \* entries a page or an API call submits
          Lists,      \* lists a browser imports
          Starts,     \* the file and the session a run may begin with
          Typed,      \* labels users type, None among them
          Kinds,      \* the runs asked for: seed, gaps, mirror, clone
          Faults      \* what can fail: "file", "ping", "write", "sync"

ASSUME WebAssumption == None \notin Sids \cup Spellings

ASSUME ListAssumption == /\ Forms \subseteq Submitted /\ Lists \subseteq Seq(Submitted)
                         /\ \A start \in Starts : start.file \in Seq(Entry)

VARIABLES
    file,     \* connections.yaml
    session,  \* the sessions opened, by their ids
    req,      \* the requests
    db,       \* database -> what is in it, see Untouched
    unmarked  \* ids that lost their production mark without their label typed

vars == <<file, session, req, db, unmarked>>

Opened == DOMAIN session
Live   == {s \in Opened : session[s].live}
Databases == {DbOf[at] : at \in Spellings}
DbAt(s) == DbOf[session[s].at]

Idle == [pc |-> "idle", op |-> None, form |-> None, typed |-> None, flag |-> FALSE,
         saw |-> {}, at |-> None, saved |-> None, kind |-> None, sid |-> None,
         marked |-> {}, wrote |-> FALSE, stopped |-> FALSE]

\* A session just opened, nothing cached.
Fresh(at) == [at |-> at, saved |-> None, live |-> TRUE, counts |-> None, ddl |-> None]

\* What the server was left with: the file, and a session open at "at" (None:
\* no session), first opened from the entry "saved" (None: ad hoc).
Start(file0, at, saved) == [file |-> file0, at |-> at, saved |-> saved]

\* rows, ddl: the writes and clones a database has seen; behind: ids written
\* that its sequences have not passed; settled, cloned: the session through
\* which the last write, the last clone has ended well.
Untouched == [rows |-> 0, ddl |-> 0, behind |-> FALSE, settled |-> None, cloned |-> None]

Init ==
    /\ \E start \in Starts, first \in Sids :
          /\ file = start.file
          /\ session = [s \in IF start.at = None THEN {} ELSE {first} |->
                           [Fresh(start.at) EXCEPT !.saved = start.saved]]
    /\ req = [r \in Requests |-> Idle]
    /\ db = [d \in Databases |-> Untouched]
    /\ unmarked = {}

Become(r, next) == req' = [req EXCEPT ![r] = next]
Done(r)         == Become(r, [Idle EXCEPT !.pc = "done"])

\* What a new content of the file does to the marks.
Unmarks(new, typed) ==
    {id \in Ids : /\ Has(file, id) /\ Lookup(file, id).prod
                  /\ Has(new, id) /\ ~Lookup(new, id).prod
                  /\ typed # Lookup(file, id).label}
Writes(new, typed) ==
    /\ file' = new
    /\ unmarked' = unmarked \cup Unmarks(new, typed)

(***************************************************************************)
(* The connections file.                                                   *)
(***************************************************************************)
\* Whether a read of the file finds it readable: it may be edited by hand, or
\* its permissions changed and mended, at any time.
Reads == IF "file" \in Faults THEN BOOLEAN ELSE {TRUE}

\* What a check of an entry sees: the entry, or nothing.
Seen(readable, id) == IF readable /\ id # None /\ Has(file, id) THEN {Lookup(file, id)} ELSE {}

\* Mutant of SaveAsked: no label is asked for.
SaveAskedUnguarded(r, e, typed, clear) ==
    /\ req[r].pc = "idle"
    /\ \E readable \in Reads :
       Become(r, [Idle EXCEPT !.op = "save", !.pc = "saving", !.form = e, !.typed = typed,
                              !.flag = clear, !.saw = Seen(readable, e.id)])
    /\ UNCHANGED <<file, session, db, unmarked>>

\* A save from the API or the form's Save button: refused when it would
\* remove the mark without the label.
SaveAsked(r, e, typed, clear) ==
    /\ req[r].pc = "idle"
    /\ \E readable \in Reads :
       IF UnflagRefused(readable, file, e, typed) THEN Done(r)
       ELSE Become(r, [Idle EXCEPT !.op = "save", !.pc = "saving", !.form = e, !.typed = typed,
                                   !.flag = clear, !.saw = Seen(readable, e.id)])
    /\ UNCHANGED <<file, session, db, unmarked>>

\* An empty id gets a new one.
Identified(e) == {[e EXCEPT !.id = id] : id \in IF e.id = None THEN FreshIds(file) ELSE {e.id}}

SaveStored(r) ==
    /\ req[r].pc = "saving"
    /\ \E readable \in Reads :
       \/ readable /\ \E e \in Identified(req[r].form) :
            Writes(SaveInto(file, e, req[r].flag), req[r].typed)
       \/ ~readable /\ UNCHANGED <<file, unmarked>>
    /\ Done(r)
    /\ UNCHANGED <<session, db>>

\* An unreadable file refuses a deletion or an import; it is as if not asked.
Delete(r, id) ==
    /\ req[r].pc = "idle"
    /\ Writes(DeleteFrom(file, id), None)
    /\ Done(r)
    /\ UNCHANGED <<session, db>>

Import(r, list) ==
    /\ req[r].pc = "idle"
    /\ Writes(ImportInto(file, list), None)
    /\ Done(r)
    /\ UNCHANGED <<session, db>>

(***************************************************************************)
(* Sessions.                                                               *)
(***************************************************************************)
SameDsn(at) == {s \in Live : session[s].at = at}

\* findByDSN: a live session with the same connection string is used again.
Reuses(r, at, next) ==
    \/ \E s \in SameDsn(at) : Become(r, [next EXCEPT !.pc = "opened", !.at = at, !.sid = s])
    \/ SameDsn(at) = {} /\ Become(r, [next EXCEPT !.pc = "dialing", !.at = at])

\* Connect from the form, and save the entry too when asked.
ConnectAsked(r, e, typed, save) ==
    /\ req[r].pc = "idle"
    /\ Reuses(r, e.at, [Idle EXCEPT !.op = "connect", !.form = e, !.typed = typed, !.flag = save])
    /\ UNCHANGED <<file, session, db, unmarked>>

\* Connect from the chooser; the password may be typed.
ConnectSavedAsked(r, id, typed) ==
    /\ req[r].pc = "idle"
    /\ IF Has(file, id) /\ (typed \/ ~NeedsPassword(Lookup(file, id)))
       THEN Reuses(r, Lookup(file, id).at, [Idle EXCEPT !.op = "connect saved", !.saved = id])
       ELSE Done(r)
    /\ UNCHANGED <<file, session, db, unmarked>>

\* The open and the ping, without a lock, then add.
Dial(r) ==
    /\ req[r].pc = "dialing"
    /\ \/ \E s \in Sids \ Opened :
            /\ session' = [z \in Opened \cup {s} |->
                              IF z = s THEN Fresh(req[r].at) ELSE session[z]]
            /\ Become(r, [req[r] EXCEPT !.pc = "opened", !.sid = s])
       \/ /\ "ping" \in Faults \/ Opened = Sids
          /\ Done(r)
          /\ UNCHANGED session
    /\ UNCHANGED <<file, db, unmarked>>

\* The form's connect stores the entry without asking for the label.
ConnectDone(r) ==
    /\ req[r].pc = "opened" /\ req[r].op = "connect"
    /\ \E readable \in Reads :
       \/ /\ req[r].flag /\ readable
          /\ \E e \in Identified(req[r].form) :
                Writes(TouchIn(SaveInto(file, e, ~e.pw), e.id), req[r].typed)
       \/ ~(req[r].flag /\ readable) /\ UNCHANGED <<file, unmarked>>
    /\ Done(r)
    /\ UNCHANGED <<session, db>>

ConnectSavedDone(r) ==
    /\ req[r].pc = "opened" /\ req[r].op = "connect saved"
    /\ session' = [session EXCEPT ![req[r].sid].saved = req[r].saved]
    /\ \E readable \in Reads :
       IF readable THEN Writes(TouchIn(file, req[r].saved), None) ELSE UNCHANGED <<file, unmarked>>
    /\ Done(r)
    /\ UNCHANGED db

\* Disconnecting closes the session for every browser and job that uses it.
Disconnect(r, s) ==
    /\ req[r].pc = "idle"
    /\ session' = [session EXCEPT ![s].live = FALSE]
    /\ Done(r)
    /\ UNCHANGED <<file, db, unmarked>>

\* A page reads the workspace: schema and row counts are cached.
Look(s) ==
    /\ None \in {session[s].counts, session[s].ddl}
    /\ session' = [session EXCEPT ![s].counts = IF @ = None THEN db[DbAt(s)].rows ELSE @,
                                  ![s].ddl = IF @ = None THEN db[DbAt(s)].ddl ELSE @]
    /\ UNCHANGED <<file, req, db, unmarked>>

(***************************************************************************)
(* Asking for a run.                                                       *)
(***************************************************************************)
SessionTarget(s) == Target(session[s].saved, KeyOf[session[s].at])

\* The target of a mirror or a clone: a saved entry, else a session by its id;
\* a clone's may be an address typed for it.
NoRef == [id |-> None, saved |-> None, at |-> None]
Refs == [id : {None}, saved : {id \in Ids : Has(file, id)}, at : {None}]
            \cup [id : Live, saved : {None}, at : {None}]
Addresses == [id : {None}, saved : {None}, at : Spellings]

\* Mutant of RefTarget: a session is taken for the entry it was opened from.
RefTargetBySavedId(ref) ==
    IF ref.saved # None THEN Target(ref.saved, None)
    ELSE IF ref.id \in Live THEN Target(session[ref.id].saved, None)
    ELSE Target(None, None)

RefTarget(ref) ==
    IF ref.saved # None THEN Target(ref.saved, None)
    ELSE IF ref.id \in Live THEN SessionTarget(ref.id)
    ELSE Target(None, None)

\* The keys production entries spell when a run on t is asked for, the ones
\* whose label is typed left out.  The guard asks for one label: when it is that of
\* t's own entry, no other entry is asked about.
Marked(t, typed) ==
    LET prod    == {e \in Range(file) : e.prod}
        labeled == {e \in prod : e.label = typed}
        keys(E) == {KeyOf[e.at] : e \in E} \ {None}
    IN  IF \E e \in labeled : e.id = t.saved THEN {} ELSE keys(prod) \ keys(labeled)

\* The guard looks at the target before the job exists; a refused run never
\* starts.
Guarded(r, kind, s, ref, t, typed) ==
    /\ req[r].pc = "idle"
    /\ \E readable \in Reads :
       IF Refused(readable, file, t, typed) THEN Done(r)
       ELSE Become(r, [Idle EXCEPT !.op = "run", !.kind = kind, !.sid = s, !.form = ref,
                                   !.pc = IF ref = NoRef THEN "checking" ELSE "resolving",
                                   !.marked = IF readable THEN Marked(t, typed) ELSE {}])
    /\ UNCHANGED <<file, session, db, unmarked>>

SeedAsked(r, s, typed)        == Guarded(r, "seed", s, NoRef, SessionTarget(s), typed)
GapsAsked(r, s, typed)        == Guarded(r, "gaps", s, NoRef, SessionTarget(s), typed)
MirrorAsked(r, s, ref, typed) == Guarded(r, "mirror", s, ref, RefTarget(ref), typed)
CloneAsked(r, s, ref, typed)  ==
    Guarded(r, "clone", s, ref,
            IF ref.at = None THEN RefTarget(ref) ELSE Target(None, KeyOf[ref.at]), typed)

(***************************************************************************)
(* The job.                                                                *)
(***************************************************************************)
\* resolveConnection: a saved entry is read again, now.
ResolveSaved(r) ==
    LET id == req[r].form.saved
    IN  /\ req[r].pc = "resolving" /\ id # None
        /\ IF Has(file, id) /\ ~NeedsPassword(Lookup(file, id))
           THEN Reuses(r, Lookup(file, id).at, [req[r] EXCEPT !.saved = id])
           ELSE Done(r)
        /\ UNCHANGED <<file, session, db, unmarked>>

\* A session given by its id; a clone never targets its own session.
ResolveOpen(r) ==
    LET s == req[r].form.id
    IN  /\ req[r].pc = "resolving" /\ s # None
        /\ IF s \in Live /\ ~(req[r].kind = "clone" /\ s = req[r].sid)
           THEN Become(r, [req[r] EXCEPT !.pc = "checking", !.sid = s, !.form = NoRef])
           ELSE Done(r)
        /\ UNCHANGED <<file, session, db, unmarked>>

ResolveTyped(r) ==
    /\ req[r].pc = "resolving" /\ req[r].form.at # None
    /\ Reuses(r, req[r].form.at, req[r])
    /\ UNCHANGED <<file, session, db, unmarked>>

\* A session opened for a run keeps the entry it was first opened from.  With
\* a saved target only that entry's mark was looked at: the others are not
\* counted on from here.
Resolved(r) ==
    /\ req[r].pc = "opened" /\ req[r].op = "run"
    /\ session' = [session EXCEPT ![req[r].sid].saved = IF @ = None THEN req[r].saved ELSE @]
    /\ Become(r, [req[r] EXCEPT !.pc = "checking", !.at = None, !.saved = None, !.form = NoRef,
                                !.marked = IF req[r].saved = None THEN @ ELSE {}])
    /\ UNCHANGED <<file, db, unmarked>>

\* Cancelled before it writes, a run only ends early, as a failed check does.
Cancel(r) ==
    /\ req[r].pc \in {"writing", "wrote"} /\ ~req[r].stopped
    /\ Become(r, [req[r] EXCEPT !.stopped = TRUE])
    /\ UNCHANGED <<file, session, db, unmarked>>

\* Schema, profile, dependency order, ignored tables, seedability: all are
\* settled before the first write, on the run's own handle (OpenRunConn).
Prepared(r) ==
    /\ req[r].pc = "checking" /\ req[r].kind # "clone"
    /\ Become(r, [req[r] EXCEPT !.pc = "writing"])
    /\ session' = [session EXCEPT ![req[r].sid].ddl = IF @ = None THEN db[DbAt(req[r].sid)].ddl ELSE @]
    /\ UNCHANGED <<file, db, unmarked>>

\* The source's tables are read, the statements planned, the target looked at.
ClonePlanned(r) ==
    /\ req[r].pc = "checking" /\ req[r].kind = "clone"
    /\ Become(r, [req[r] EXCEPT !.pc = "writing"])
    /\ UNCHANGED <<file, session, db, unmarked>>

Writing(r) == req[r].pc = "writing" /\ ~req[r].wrote /\ ~req[r].stopped

\* Tables are emptied and rows inserted.
WriteRows(r) ==
    /\ Writing(r) /\ req[r].kind # "clone"
    /\ db' = [db EXCEPT ![DbAt(req[r].sid)] =
                [db[DbAt(req[r].sid)] EXCEPT !.rows = @ + 1, !.behind = TRUE, !.settled = None]]
    /\ Become(r, [req[r] EXCEPT !.wrote = TRUE])
    /\ UNCHANGED <<file, session, unmarked>>

\* A clone's statements drop and create the tables.
WriteSchema(r) ==
    /\ Writing(r) /\ req[r].kind = "clone"
    /\ db' = [db EXCEPT ![DbAt(req[r].sid)] =
                [db[DbAt(req[r].sid)] EXCEPT !.rows = @ + 1, !.ddl = @ + 1, !.settled = None, !.cloned = None]]
    /\ Become(r, [req[r] EXCEPT !.wrote = TRUE])
    /\ UNCHANGED <<file, session, unmarked>>

\* A step fails, or the run was cancelled.
Fail(r) ==
    /\ \/ req[r].pc = "checking"
       \/ req[r].stopped /\ req[r].pc = "writing"
       \/ "write" \in Faults /\ req[r].pc = "writing"
    /\ Become(r, [req[r] EXCEPT !.pc = IF req[r].wrote THEN "failed" ELSE "ending"])
    /\ UNCHANGED <<file, session, db, unmarked>>

RowsWritten(r) ==
    /\ req[r].pc = "writing" /\ req[r].wrote /\ req[r].kind # "clone"
    /\ Become(r, [req[r] EXCEPT !.pc = "wrote"])
    /\ UNCHANGED <<file, session, db, unmarked>>

\* A clone that succeeded drops the target's cached schema.
SchemaWritten(r) ==
    /\ req[r].pc = "writing" /\ req[r].wrote /\ req[r].kind = "clone"
    /\ session' = [session EXCEPT ![req[r].sid].ddl = None]
    /\ db' = [db EXCEPT ![DbAt(req[r].sid)].cloned = req[r].sid]
    /\ Become(r, [req[r] EXCEPT !.pc = "wrote"])
    /\ UNCHANGED <<file, unmarked>>

\* Mutant of Sync: only a run that succeeded moves the sequences.
SyncOnSuccess(r) ==
    /\ req[r].pc \in {"wrote", "failed"}
    /\ \/ /\ req[r].pc = "wrote"
          /\ req[r].kind \in {"seed", "gaps"} => ~req[r].stopped
          /\ db' = [db EXCEPT ![DbAt(req[r].sid)].behind = FALSE]
       \/ /\ \/ req[r].pc = "failed" \/ "sync" \in Faults \/ req[r].stopped
             \/ req[r].kind = "clone"
          /\ UNCHANGED db
    /\ Become(r, [req[r] EXCEPT !.pc = "ending"])
    /\ UNCHANGED <<file, session, unmarked>>

\* Sequences are moved past the rows written, also after a failure: a mirror
\* detaches from the run's context to do it, a seed or a fill does not.
Sync(r) ==
    /\ req[r].pc \in {"wrote", "failed"}
    /\ \/ /\ req[r].kind \in {"seed", "gaps"} => ~req[r].stopped
          /\ req[r].kind # "clone"
          /\ db' = [db EXCEPT ![DbAt(req[r].sid)].behind = FALSE]
       \/ /\ \/ "sync" \in Faults \/ req[r].kind = "clone"
             \/ req[r].kind \in {"seed", "gaps"} /\ req[r].stopped
          /\ UNCHANGED db
    /\ Become(r, [req[r] EXCEPT !.pc = "ending"])
    /\ UNCHANGED <<file, session, unmarked>>

\* What is kept of a run for the properties: who wrote, and was it cancelled.
Over(r) == Become(r, [Idle EXCEPT !.pc = "done", !.kind = req[r].kind, !.wrote = req[r].wrote,
                                  !.stopped = req[r].stopped, !.sid = req[r].sid])

\* Mutant of End: a cancelled run keeps the counts.
EndKeepsCounts(r) ==
    /\ req[r].pc = "ending"
    /\ session' = IF req[r].wrote /\ ~req[r].stopped /\ req[r].kind # "clone"
                  THEN [session EXCEPT ![req[r].sid].counts = None] ELSE session
    /\ db' = IF req[r].wrote /\ req[r].kind # "clone"
             THEN [db EXCEPT ![DbAt(req[r].sid)].settled = req[r].sid] ELSE db
    /\ Over(r)
    /\ UNCHANGED <<file, unmarked>>

\* The handle is closed and, but for a clone, the session's counts dropped
\* (a mirror drops its target's).
End(r) ==
    /\ req[r].pc = "ending"
    /\ session' = IF req[r].kind = "clone" THEN session
                  ELSE [session EXCEPT ![req[r].sid].counts = None]
    /\ db' = IF req[r].wrote /\ req[r].kind # "clone"
             THEN [db EXCEPT ![DbAt(req[r].sid)].settled = req[r].sid] ELSE db
    /\ Over(r)
    /\ UNCHANGED <<file, unmarked>>

Job(r) == \/ Dial(r) \/ ResolveSaved(r) \/ ResolveOpen(r) \/ ResolveTyped(r) \/ Resolved(r)
          \/ Prepared(r) \/ ClonePlanned(r) \/ WriteRows(r) \/ WriteSchema(r)
          \/ Fail(r) \/ RowsWritten(r) \/ SchemaWritten(r) \/ Sync(r) \/ End(r)

Step(r) == \/ SaveStored(r) \/ ConnectDone(r) \/ ConnectSavedDone(r) \/ Job(r)

Ask(r) ==
    \/ \E e \in Forms, typed \in Typed, b \in BOOLEAN :
          SaveAsked(r, e, typed, b) \/ ConnectAsked(r, e, typed, b)
    \/ \E id \in Ids : Delete(r, id) \/ \E typed \in BOOLEAN : ConnectSavedAsked(r, id, typed)
    \/ \E list \in Lists : Import(r, list)
    \/ \E s \in Live : Disconnect(r, s)
    \/ \E s \in Live, typed \in Typed :
          \/ "seed" \in Kinds /\ SeedAsked(r, s, typed)
          \/ "gaps" \in Kinds /\ GapsAsked(r, s, typed)
          \/ "mirror" \in Kinds /\ \E ref \in Refs : MirrorAsked(r, s, ref, typed)
          \/ "clone" \in Kinds /\ \E ref \in Refs \cup Addresses : CloneAsked(r, s, ref, typed)

Next == \/ \E r \in Requests : Ask(r) \/ Step(r) \/ Cancel(r)
        \/ \E s \in Live : Look(s)

Spec == Init /\ [][Next]_vars /\ \A r \in Requests : WF_vars(Step(r))

(***************************************************************************)
(* Properties.                                                             *)
(***************************************************************************)
InFlight(d) == \E r \in Requests :
    req[r].wrote /\ req[r].pc # "done" /\ DbAt(req[r].sid) = d

\* A run on a session never writes to an address some production entry spelled
\* when the run was asked for, unless the label of such an entry, or of the
\* entry the session was opened from, was typed: however the session was
\* opened, found again or shared, and whatever is saved, closed or opened in
\* between (production.go:36-38).  It covers no run whose target is a saved
\* entry: there only that entry's own mark counts.
WritesGuarded == \A r \in Requests :
    req[r].wrote /\ req[r].pc # "done" => KeyOf[session[req[r].sid].at] \notin req[r].marked

\* A save without the label removes a production mark only when the entry
\* changed, or became readable, after the save was checked (production.go:67-79
\* reads the file, Save reads it again).
SavesAskForLabel ==
    [][\A r \in Requests : SaveStored(r) =>
          \A id \in unmarked' \ unmarked : req[r].saw # {Lookup(file, id)}]_vars

\* Once the last run to write to a database has ended, its session's cached
\* counts are those of the database, and once the last clone has succeeded, so
\* is its target's schema (runners.go:162, 202, 423; handlers_compare.go:195).
CachesFollowRuns == \A s \in Live, d \in Databases : DbAt(s) = d =>
    /\ db[d].settled = s => session[s].counts \in {None, db[d].rows}
    /\ db[d].cloned = s => session[s].ddl \in {None, db[d].ddl}

\* When no run is writing to a database, its sequences are past every row
\* written, but for rows of a seed or a fill that was cancelled and rows whose
\* sequences could not be moved.
SequencesSettle == \A d \in Databases :
    db[d].behind /\ ~InFlight(d) =>
        \/ "sync" \in Faults
        \/ \E r \in Requests : req[r].wrote /\ req[r].stopped /\ req[r].kind \in {"seed", "gaps"}

\* After a run, sequences are past the ids it inserted (docs/commands.md:516).
SequencesFollowRuns == \A d \in Databases : db[d].behind => InFlight(d)

\* No production mark goes without its label typed (production.go:67-69).
MarkNeedsLabel == unmarked = {}
=============================================================================
