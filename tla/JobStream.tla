------------------------------ MODULE JobStream ------------------------------
(***************************************************************************)
(* The event stream of one background job, from the goroutines that log to *)
(* the page that shows the log (internal/web/jobs.go, handlers_jobs.go     *)
(* streamJob, static/app.js streamJob).                                    *)
(*                                                                         *)
(* An event is its sequence number: text and kind are left out, and the    *)
(* job's log is therefore the number of events in it.  A stream is one     *)
(* HTTP request for the job's events, in the order the requests are made;  *)
(* the browser gives up a stream whose connection is lost and opens the    *)
(* next, while the handler of the old one may still be running.            *)
(***************************************************************************)
EXTENDS Integers, Sequences, FiniteSets

CONSTANTS Emitters, \* goroutines of the runner that emit events
          Loggers,  \* the ones that go through jobWriter.Write and its lock
          Buffer,   \* capacity of a subscriber's channel (64 in the code)
          Events,   \* bound: events emitted by the job
          Streams   \* bound: streams the page opens

ASSUME StreamAssumption ==
    /\ Loggers \subseteq Emitters
    /\ Buffer \in Nat \ {0}
    /\ Events \in Nat \ {0}
    /\ Streams \in Nat \ {0}

Stream == 1..Streams
Seqs   == 1..Events
End    == 0           \* the server-sent "end" event

VARIABLES
    status,    \* Job.Status
    cancelled, \* the job's context was cancelled
    log,       \* len(Job.events)
    sending,   \* per emitter: the event it sends, and to which subscribers still
    subs,      \* Job.subs, empty once the job has ended
    closing,   \* subscribers whose channel the ended job has yet to close
    buf,       \* what each subscriber's channel holds
    shut,      \* subscribers whose channel is closed
    lossy,     \* subscribers that dropped an event from a full channel
    handler,   \* the streamJob call of each stream
    maxSeq,    \* its maxSeq
    wire,      \* what it wrote and the browser has not read
    page,      \* the page: "live" on stream conn, "away", or "settled"
    conn,      \* the last stream the page opened
    got        \* the events the page shows

jobVars  == <<status, cancelled, log>>
chanVars == <<subs, closing, buf, shut, lossy>>
pageVars == <<page, conn, got>>
vars == <<jobVars, sending, chanVars, handler, maxSeq, wire, pageVars>>

Over == status \in {"done", "failed", "canceled"}
Idle(e) == sending[e].to = {}

Init ==
    /\ status = "pending"
    /\ cancelled = FALSE
    /\ log = 0
    /\ sending = [e \in Emitters |-> [seq |-> 0, to |-> {}]]
    /\ subs = {}
    /\ closing = {}
    /\ buf = [h \in Stream |-> <<>>]
    /\ shut = {}
    /\ lossy = {}
    /\ handler = [h \in Stream |-> "none"]
    /\ maxSeq = [h \in Stream |-> 0]
    /\ wire = [h \in Stream |-> <<>>]
    /\ page = "away"
    /\ conn = 0
    /\ got = <<>>

(***************************************************************************)
(* The job.                                                                *)
(***************************************************************************)
Run ==
    /\ status = "pending"
    /\ status' = "running"
    /\ UNCHANGED <<cancelled, log, sending, chanVars, handler, maxSeq, wire, pageVars>>

\* The event is numbered, kept, and the subscribers copied under the lock; an
\* emitter that logs holds jobWriter's lock until all of them were sent to.
Emit(e) ==
    /\ status = "running"
    /\ log < Events
    /\ Idle(e)
    /\ e \in Loggers => \A l \in Loggers : Idle(l)
    /\ log' = log + 1
    /\ sending' = [sending EXCEPT ![e] = [seq |-> log + 1, to |-> subs]]
    /\ UNCHANGED <<status, cancelled, chanVars, handler, maxSeq, wire, pageVars>>

\* The channels are sent to outside the lock and without blocking.
Send(e, h) ==
    /\ h \in sending[e].to
    /\ sending' = [sending EXCEPT ![e].to = @ \ {h}]
    /\ IF Len(buf[h]) < Buffer
       THEN buf' = [buf EXCEPT ![h] = Append(@, sending[e].seq)] /\ UNCHANGED lossy
       ELSE lossy' = lossy \cup {h} /\ UNCHANGED buf
    /\ UNCHANGED <<jobVars, subs, closing, shut, handler, maxSeq, wire, pageVars>>

Cancel ==
    /\ ~cancelled
    /\ cancelled' = TRUE
    /\ UNCHANGED <<status, log, sending, chanVars, handler, maxSeq, wire, pageVars>>

\* The runner returned, and every goroutine it started with it.
Finish(failed) ==
    /\ status = "running"
    /\ \A e \in Emitters : Idle(e)
    /\ status' = IF ~failed THEN "done" ELSE IF cancelled THEN "canceled" ELSE "failed"
    /\ subs' = {}
    /\ closing' = subs
    /\ UNCHANGED <<cancelled, log, sending, buf, shut, lossy, handler, maxSeq, wire, pageVars>>

Close(h) ==
    /\ h \in closing
    /\ closing' = closing \ {h}
    /\ shut' = shut \cup {h}
    /\ UNCHANGED <<jobVars, sending, subs, buf, lossy, handler, maxSeq, wire, pageVars>>

(***************************************************************************)
(* The handler of stream h.                                                *)
(***************************************************************************)

\* Events lo..hi, oldest first.
Span(lo, hi) == [i \in 1..(IF hi < lo THEN 0 ELSE hi - lo + 1) |-> lo + i - 1]

Later(a, b) == IF a < b THEN b ELSE a

\* Writes to a lost connection go nowhere.
Put(h, items) ==
    wire' = IF page = "live" /\ conn = h THEN [wire EXCEPT ![h] = @ \o items] ELSE wire

\* The backlog beyond the last event the page says it saw.
Backlog(after) == Span(after + 1, log)

\* The page opens its next stream: the handler subscribes and writes the
\* backlog.  A subscriber of an ended job gets a closed channel.
Open ==
    /\ page = "away"
    /\ conn < Streams
    /\ LET h == conn + 1
           after == IF got = <<>> THEN 0 ELSE got[Len(got)]
       IN /\ conn' = h
          /\ page' = "live"
          /\ handler' = [handler EXCEPT ![h] = "open"]
          /\ maxSeq' = [maxSeq EXCEPT ![h] = Later(after, log)]
          /\ wire' = [wire EXCEPT ![h] = Backlog(after)]
          /\ subs' = IF Over THEN subs ELSE subs \cup {h}
          /\ shut' = IF Over THEN shut \cup {h} ELSE shut
    /\ UNCHANGED <<jobVars, sending, closing, buf, lossy, got>>

\* Mutant of Fresh: an event that arrives past a gap is written alone.
FreshNoFill(h, seq) == IF seq > maxSeq[h] THEN <<seq>> ELSE <<>>

\* What a received event adds to the stream: nothing if it was written
\* already, else the events missed before it and the event itself.
Fresh(h, seq) == Span(maxSeq[h] + 1, seq)

Receive(h) ==
    /\ handler[h] = "open"
    /\ buf[h] # <<>>
    /\ Put(h, Fresh(h, Head(buf[h])))
    /\ maxSeq' = [maxSeq EXCEPT ![h] = Later(@, Head(buf[h]))]
    /\ buf' = [buf EXCEPT ![h] = Tail(@)]
    /\ UNCHANGED <<jobVars, sending, subs, closing, shut, lossy, handler, pageVars>>

\* The channel was drained and is closed: the job's end is written at once.
ReceiveClosed(h) ==
    /\ handler[h] = "open"
    /\ h \in shut
    /\ buf[h] = <<>>
    /\ Put(h, <<End>>)
    /\ handler' = [handler EXCEPT ![h] = "ended"]
    /\ UNCHANGED <<jobVars, sending, chanVars, maxSeq, pageVars>>

\* Mutant of JobDone: the end is written without the remaining events.
JobDoneNoDrain(h) ==
    /\ handler[h] = "open"
    /\ Over
    /\ Put(h, <<End>>)
    /\ handler' = [handler EXCEPT ![h] = "ended"]
    /\ UNCHANGED <<jobVars, sending, chanVars, maxSeq, pageVars>>

\* job.Done fired: what the log still has is written before the end.
JobDone(h) ==
    /\ handler[h] = "open"
    /\ Over
    /\ Put(h, Append(Span(maxSeq[h] + 1, log), End))
    /\ maxSeq' = [maxSeq EXCEPT ![h] = Later(@, log)]
    /\ handler' = [handler EXCEPT ![h] = "ended"]
    /\ UNCHANGED <<jobVars, sending, chanVars, pageVars>>

\* The request's context is done: the page has left this stream.
Gone(h) ==
    /\ handler[h] = "open"
    /\ page # "live" \/ conn # h
    /\ handler' = [handler EXCEPT ![h] = "gone"]
    /\ UNCHANGED <<jobVars, sending, chanVars, maxSeq, wire, pageVars>>

\* Mutant of Unsubscribe: the channel is closed by its reader.
UnsubscribeCloses(h) ==
    /\ handler[h] \in {"ended", "gone"}
    /\ h \in subs
    /\ subs' = subs \ {h}
    /\ shut' = shut \cup {h}
    /\ UNCHANGED <<jobVars, sending, closing, buf, lossy, handler, maxSeq, wire, pageVars>>

\* The deferred Unsubscribe; an emitter that copied the subscribers before
\* still sends to the channel.
Unsubscribe(h) ==
    /\ handler[h] \in {"ended", "gone"}
    /\ h \in subs
    /\ subs' = subs \ {h}
    /\ UNCHANGED <<jobVars, sending, closing, buf, shut, lossy, handler, maxSeq, wire, pageVars>>

(***************************************************************************)
(* The page.                                                               *)
(***************************************************************************)
\* Mutant of Show: the failure of a job is an "error" event, which the browser
\* takes for a lost connection and closes the stream before its end.
ShowFailureAsError ==
    /\ page = "live"
    /\ wire[conn] # <<>>
    /\ LET item == Head(wire[conn])
       IN /\ got' = IF item = End THEN got ELSE Append(got, item)
          /\ page' = IF item = End /\ status # "failed" THEN "settled" ELSE page
    /\ wire' = [wire EXCEPT ![conn] = Tail(@)]
    /\ UNCHANGED <<jobVars, sending, chanVars, handler, maxSeq, conn>>

Show ==
    /\ page = "live"
    /\ wire[conn] # <<>>
    /\ LET item == Head(wire[conn])
       IN /\ got' = IF item = End THEN got ELSE Append(got, item)
          /\ page' = IF item = End THEN "settled" ELSE page
    /\ wire' = [wire EXCEPT ![conn] = Tail(@)]
    /\ UNCHANGED <<jobVars, sending, chanVars, handler, maxSeq, conn>>

\* The connection is lost with what was on its way.
Lose ==
    /\ page = "live"
    /\ conn < Streams
    /\ page' = "away"
    /\ wire' = [wire EXCEPT ![conn] = <<>>]
    /\ UNCHANGED <<jobVars, sending, chanVars, handler, maxSeq, conn, got>>

\* The user leaves the page and opens it again: it starts empty.
Reload ==
    /\ page \in {"live", "away"}
    /\ conn \in 1..(Streams - 1)
    /\ page' = "away"
    /\ wire' = [wire EXCEPT ![conn] = <<>>]
    /\ got' = <<>>
    /\ UNCHANGED <<jobVars, sending, chanVars, handler, maxSeq, conn>>

\* After a lost connection, or on opening the page again, the page asks for the
\* job: when it is over the page shows its state and opens no further stream.
Settle ==
    /\ page = "away"
    /\ conn > 0
    /\ Over
    /\ page' = "settled"
    /\ UNCHANGED <<jobVars, sending, chanVars, handler, maxSeq, wire, conn, got>>

Serve(h) == Receive(h) \/ ReceiveClosed(h) \/ JobDone(h)
Leave(h) == Gone(h) \/ Unsubscribe(h)
Job == Run \/ \E failed \in BOOLEAN : Finish(failed)

Terminated ==
    /\ page = "settled"
    /\ Over
    /\ closing = {}
    /\ \A h \in Stream : handler[h] # "open"
    /\ UNCHANGED vars

Next ==
    \/ Job \/ Cancel \/ Open \/ Show \/ Lose \/ Reload \/ Settle \/ Terminated
    \/ \E e \in Emitters : Emit(e) \/ \E h \in Stream : Send(e, h)
    \/ \E h \in Stream : Close(h) \/ Serve(h) \/ Leave(h)

\* Goroutines run and a runner returns; the browser reconnects and reads what
\* arrives.  Nobody has to log, cancel, lose a connection or reload.
Fairness ==
    /\ WF_vars(Job)
    /\ WF_vars(Open) /\ WF_vars(Show)
    /\ \A e \in Emitters, h \in Stream : WF_vars(Send(e, h))
    /\ \A h \in Stream : WF_vars(Close(h)) /\ WF_vars(Serve(h)) /\ WF_vars(Leave(h))

Spec == Init /\ [][Next]_vars /\ Fairness

(***************************************************************************)
(* What a stream promises.                                                 *)
(***************************************************************************)
\* Every variable keeps its type, and only an open or ended handler has a
\* channel.
TypeOK ==
    /\ status \in {"pending", "running", "done", "failed", "canceled"}
    /\ cancelled \in BOOLEAN
    /\ log \in 0..Events
    /\ sending \in [Emitters -> [seq : 0..Events, to : SUBSET Stream]]
    /\ subs \subseteq Stream /\ closing \subseteq Stream
    /\ shut \subseteq Stream /\ lossy \subseteq Stream
    /\ buf \in [Stream -> Seq(Seqs)]
    /\ handler \in [Stream -> {"none", "open", "ended", "gone"}]
    /\ maxSeq \in [Stream -> 0..Events]
    /\ wire \in [Stream -> Seq(0..Events)]
    /\ page \in {"live", "away", "settled"}
    /\ conn \in 0..Streams
    /\ got \in Seq(Seqs)

\* Whatever emitters, drops and reconnections do, the page shows the job's
\* events from the first on, in order, without a gap and without a repeat.
PageInOrder == got = [i \in 1..Len(got) |-> i]

\* No emitter is about to send to a channel that is closed, which would panic
\* in the middle of a run.
NoSendOnClosed == \A e \in Emitters : sending[e].to \cap shut = {}

\* A stream that told the page the job's end wrote every event before it,
\* unless its channel overflowed.
CompleteUnlessLossy ==
    \A h \in Stream : handler[h] = "ended" /\ h \notin lossy => maxSeq[h] = log

\* A page that stays on a job's stream learns that the job ended, however many
\* connections it loses.
PageSettles == <>(page = "settled")

\* "The job keeps them all, so send whatever was missed" (handlers_jobs.go:126):
\* a stream that told the page the end wrote every event before it.
CompleteAtEnd == \A h \in Stream : handler[h] = "ended" => maxSeq[h] = log
=============================================================================
