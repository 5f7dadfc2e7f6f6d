-------------------------- MODULE JobStreamProofs --------------------------
(***************************************************************************)
(* The page shows a prefix of the job's log, and nobody sends to a closed  *)
(* channel, for any number of emitters, streams and events and any channel *)
(* capacity.                                                               *)
(***************************************************************************)
EXTENDS JobStream, SequenceTheorems, TLAPS

(***************************************************************************)
(* The inductive invariant.                                                *)
(***************************************************************************)
\* No number anywhere is beyond the log, and an emitter that still sends
\* sends a numbered event.
Numbered ==
    /\ Len(got) <= log
    /\ \A h \in Stream : maxSeq[h] <= log
    /\ \A h \in Stream : \A i \in 1..Len(buf[h]) : buf[h][i] <= log
    /\ \A e \in Emitters : sending[e].seq <= log /\ (sending[e].to # {} => sending[e].seq >= 1)

\* What is on its way to the page continues what it shows, up to what the
\* handler has written or, once it has ended, up to the end.
Continues(w) == \A i \in 1..Len(w) : w[i] = Len(got) + i

WireInv ==
    page = "live" =>
        /\ conn \in Stream
        /\ handler[conn] \in {"open", "ended"}
        /\ handler[conn] = "open" =>
              /\ Continues(wire[conn])
              /\ Len(got) + Len(wire[conn]) = maxSeq[conn]
        /\ handler[conn] = "ended" =>
              LET w == wire[conn]
              IN /\ Len(w) > 0
                 /\ w[Len(w)] = End
                 /\ \A i \in 1..(Len(w) - 1) : w[i] = Len(got) + i
                 /\ Len(got) + Len(w) - 1 <= log

IInv == TypeOK /\ Numbered /\ WireInv /\ PageInOrder

(***************************************************************************)
(* Sequences of consecutive events.                                        *)
(***************************************************************************)
\* Span(lo, hi) is the sequence of the events lo to hi.
LEMMA SpanFacts ==
    ASSUME NEW lo \in Nat \ {0}, NEW hi \in Nat
    PROVE  /\ Span(lo, hi) \in Seq(lo..hi)
           /\ Len(Span(lo, hi)) = IF hi < lo THEN 0 ELSE hi - lo + 1
           /\ \A i \in 1..Len(Span(lo, hi)) : Span(lo, hi)[i] = lo + i - 1
<1> DEFINE n == IF hi < lo THEN 0 ELSE hi - lo + 1
<1>1. n \in Nat
  OBVIOUS
<1>2. \A i \in 1..n : lo + i - 1 \in lo..hi
  OBVIOUS
<1>3. Span(lo, hi) = [i \in 1..n |-> lo + i - 1]
  BY DEF Span
<1> HIDE DEF n
<1>4. Span(lo, hi) \in Seq(lo..hi) /\ Len(Span(lo, hi)) = n
  <2>1. Span(lo, hi) \in [1..n -> lo..hi]
    BY <1>2, <1>3
  <2>2. Span(lo, hi) \in Seq(lo..hi)
    BY <1>1, <2>1, SeqDef
  <2>3. DOMAIN Span(lo, hi) = 1..n
    BY <2>1
  <2> QED
    BY <1>1, <2>2, <2>3, LenProperties
<1>5. \A i \in 1..n : Span(lo, hi)[i] = lo + i - 1
  BY <1>3
<1> QED
  BY <1>4, <1>5 DEF n

\* A sequence of events lo..hi is a sequence of events, and may be written.
LEMMA SpanTypes ==
    ASSUME NEW lo \in Nat \ {0}, NEW hi \in 0..Events
    PROVE  Span(lo, hi) \in Seq(0..Events)
<1>1. Span(lo, hi) \in Seq(lo..hi)
  <2>1. hi \in Nat
    BY StreamAssumption DEF StreamAssumption
  <2> QED
    BY <2>1, SpanFacts
<1>2. lo..hi \subseteq 0..Events
  BY StreamAssumption DEF StreamAssumption
<1> QED
  BY <1>1, <1>2, SeqMonotonic

\* What is written to a stream keeps the wires typed.
LEMMA PutTyped ==
    ASSUME wire \in [Stream -> Seq(0..Events)], NEW h \in Stream,
           NEW items \in Seq(0..Events), Put(h, items)
    PROVE  wire' \in [Stream -> Seq(0..Events)]
<1>1. wire[h] \o items \in Seq(0..Events)
  BY ConcatProperties
<1> QED
  BY <1>1 DEF Put

(***************************************************************************)
(* Types.                                                                  *)
(***************************************************************************)
\* The initial state is typed.
LEMMA InitTyped == Init => TypeOK
<1> SUFFICES ASSUME Init
             PROVE  TypeOK
  OBVIOUS
<1> USE StreamAssumption DEF StreamAssumption, Init
<1>1. sending \in [Emitters -> [seq : 0..Events, to : SUBSET Stream]]
  OBVIOUS
<1>2. buf \in [Stream -> Seq(Seqs)] /\ wire \in [Stream -> Seq(0..Events)] /\ got \in Seq(Seqs)
  BY EmptySeq
<1>3. handler \in [Stream -> {"none", "open", "ended", "gone"}] /\ maxSeq \in [Stream -> 0..Events]
  OBVIOUS
<1>4. cancelled \in BOOLEAN
  BY Zenon
<1>5. log \in 0..Events /\ conn \in 0..Streams
  OBVIOUS
<1>6. status \in {"pending", "running", "done", "failed", "canceled"} /\ page \in {"live", "away", "settled"}
  OBVIOUS
<1>7. subs \subseteq Stream /\ closing \subseteq Stream /\ shut \subseteq Stream /\ lossy \subseteq Stream
  OBVIOUS
<1> QED
  BY <1>1, <1>2, <1>3, <1>4, <1>5, <1>6, <1>7, Zenon DEF TypeOK

\* Every step keeps the types; a sent event is numbered.
LEMMA StepTyped == TypeOK /\ Numbered /\ WireInv /\ [Next]_vars => TypeOK'
<1> SUFFICES ASSUME TypeOK, Numbered, WireInv, [Next]_vars
             PROVE  TypeOK'
  OBVIOUS
<1> USE StreamAssumption DEF StreamAssumption, TypeOK, Seqs, Stream
<1>1. CASE Run
  BY <1>1 DEF Run, chanVars, pageVars
<1>2. ASSUME NEW f \in BOOLEAN, Finish(f)
      PROVE  TypeOK'
  BY <1>2 DEF Finish, pageVars
<1>3. CASE Cancel
  BY <1>3 DEF Cancel, chanVars, pageVars
<1>4. CASE Open
  <2> DEFINE h == conn + 1
             after == IF got = <<>> THEN 0 ELSE got[Len(got)]
  <2>1. h \in Stream /\ after \in 0..Events
    <3>1. CASE got = <<>>
      BY <1>4, <3>1 DEF Open
    <3>2. CASE got # <<>>
      <4>1. Len(got) \in Nat \ {0}
        BY <3>2, EmptySeq
      <4>2. got[Len(got)] \in 1..Events
        BY <4>1, ElementOfSeq
      <4> QED
        BY <1>4, <3>2, <4>2, SMTT(30) DEF Open
    <3> QED
      BY <3>1, <3>2
  <2>2. Backlog(after) \in Seq(0..Events)
    <3>1. after + 1 \in Nat \ {0} /\ log \in 0..Events
      BY <2>1, SMTT(30)
    <3> QED
      BY <3>1, SpanTypes DEF Backlog
  <2>3. Later(after, log) \in 0..Events
    BY <2>1 DEF Later
  <2>4. /\ wire' = [wire EXCEPT ![h] = Backlog(after)]
        /\ maxSeq' = [maxSeq EXCEPT ![h] = Later(after, log)]
        /\ handler' = [handler EXCEPT ![h] = "open"]
        /\ conn' = h /\ page' = "live"
        /\ subs' \subseteq subs \cup {h} /\ shut' \subseteq shut \cup {h}
        /\ UNCHANGED <<status, cancelled, log, sending, closing, buf, lossy, got>>
    BY <1>4 DEF Open, jobVars
  <2> HIDE DEF h, after
  <2>5. wire' \in [Stream -> Seq(0..Events)]
    BY <2>1, <2>2, <2>4
  <2>6. maxSeq' \in [Stream -> 0..Events]
    BY <2>1, <2>3, <2>4
  <2>7. handler' \in [Stream -> {"none", "open", "ended", "gone"}]
    BY <2>4
  <2>8. conn' \in 0..Streams /\ page' \in {"live", "away", "settled"}
    BY <2>1, <2>4
  <2>9. subs' \subseteq Stream /\ shut' \subseteq Stream
    BY <2>1, <2>4
  <2>10. UNCHANGED <<status, cancelled, log, sending, closing, buf, lossy, got>>
    BY <2>4
  <2> QED
    BY <2>5, <2>6, <2>7, <2>8, <2>9, <2>10
<1>5. CASE Show
  <2>1. conn \in Stream
    BY <1>5 DEF Show, WireInv
  <2>2. Head(wire[conn]) \in 0..Events /\ Tail(wire[conn]) \in Seq(0..Events)
    BY <1>5, <2>1, HeadTailProperties DEF Show
  <2>3. wire' \in [Stream -> Seq(0..Events)]
    BY <1>5, <2>1, <2>2 DEF Show
  <2>4. got' \in Seq(1..Events)
    <3>1. CASE Head(wire[conn]) = End
      BY <1>5, <3>1 DEF Show
    <3>2. CASE Head(wire[conn]) # End
      <4>1. Head(wire[conn]) \in 1..Events
        BY <2>2, <3>2, SMTT(30) DEF End
      <4>2. got' = Append(got, Head(wire[conn]))
        BY <1>5, <3>2 DEF Show
      <4> QED
        BY <4>1, <4>2, AppendProperties
    <3> QED
      BY <3>1, <3>2
  <2>5. page' \in {"live", "away", "settled"}
    BY <1>5 DEF Show
  <2>6. UNCHANGED <<status, cancelled, log, sending, subs, closing, buf, shut, lossy,
                    handler, maxSeq, conn>>
    BY <1>5 DEF Show, jobVars, chanVars
  <2> QED
    BY <2>3, <2>4, <2>5, <2>6
<1>6. CASE Lose
  <2>1. wire' \in [Stream -> Seq(0..Events)]
    BY <1>6, EmptySeq DEF Lose
  <2>2. page' \in {"live", "away", "settled"}
    BY <1>6 DEF Lose
  <2>3. UNCHANGED <<status, cancelled, log, sending, subs, closing, buf, shut, lossy,
                    handler, maxSeq, conn, got>>
    BY <1>6 DEF Lose, jobVars, chanVars
  <2> QED
    BY <2>1, <2>2, <2>3
<1>7. CASE Reload
  <2>1. wire' \in [Stream -> Seq(0..Events)] /\ got' \in Seq(1..Events)
    BY <1>7, EmptySeq DEF Reload
  <2>2. page' \in {"live", "away", "settled"}
    BY <1>7 DEF Reload
  <2>3. UNCHANGED <<status, cancelled, log, sending, subs, closing, buf, shut, lossy,
                    handler, maxSeq, conn>>
    BY <1>7 DEF Reload, jobVars, chanVars
  <2> QED
    BY <2>1, <2>2, <2>3
<1>8. CASE Settle
  <2>1. page' \in {"live", "away", "settled"}
    BY <1>8 DEF Settle
  <2>2. UNCHANGED <<status, cancelled, log, sending, subs, closing, buf, shut, lossy,
                    handler, maxSeq, wire, conn, got>>
    BY <1>8 DEF Settle, jobVars, chanVars
  <2> QED
    BY <2>1, <2>2
<1>9. ASSUME NEW e \in Emitters, Emit(e)
      PROVE  TypeOK'
  <2>1. log' \in 0..Events
    BY <1>9 DEF Emit
  <2>2. sending' \in [Emitters -> [seq : 0..Events, to : SUBSET Stream]]
    <3>1. [seq |-> log + 1, to |-> subs] \in [seq : 0..Events, to : SUBSET Stream]
      BY <1>9 DEF Emit
    <3> QED
      BY <1>9, <3>1 DEF Emit
  <2>3. UNCHANGED <<status, cancelled, subs, closing, buf, shut, lossy, handler, maxSeq,
                    wire, page, conn, got>>
    BY <1>9 DEF Emit, chanVars, pageVars
  <2> QED
    BY <2>1, <2>2, <2>3
<1>10. ASSUME NEW e \in Emitters, NEW h \in Stream, Send(e, h)
       PROVE  TypeOK'
  <2>1. sending[e].seq \in 1..Events
    BY <1>10 DEF Send, Numbered
  <2>2. sending' \in [Emitters -> [seq : 0..Events, to : SUBSET Stream]]
    <3>1. sending[e].to \ {h} \subseteq Stream
      OBVIOUS
    <3>2. [sending[e] EXCEPT !.to = @ \ {h}] \in [seq : 0..Events, to : SUBSET Stream]
      <4>1. sending[e] \in [seq : 0..Events, to : SUBSET Stream]
        BY DEF TypeOK
      <4> HIDE DEF TypeOK, Seqs, Stream
      <4> QED
        BY <3>1, <4>1
    <3> QED
      BY <1>10, <3>2 DEF Send
  <2>3. buf' \in [Stream -> Seq(1..Events)] /\ lossy' \subseteq Stream
    <3>1. Append(buf[h], sending[e].seq) \in Seq(1..Events)
      BY <2>1, AppendProperties
    <3>2. CASE Len(buf[h]) < Buffer
      BY <1>10, <3>1, <3>2 DEF Send
    <3>3. CASE ~(Len(buf[h]) < Buffer)
      BY <1>10, <3>3 DEF Send
    <3> QED
      BY <3>2, <3>3
  <2> QED
    BY <1>10, <2>2, <2>3 DEF Send, jobVars, pageVars
<1>11. ASSUME NEW h \in Stream, Close(h)
       PROVE  TypeOK'
  BY <1>11 DEF Close, jobVars, pageVars
<1>12. ASSUME NEW h \in Stream, Receive(h)
       PROVE  TypeOK'
  <2>1. Head(buf[h]) \in 1..Events /\ Tail(buf[h]) \in Seq(1..Events)
    BY <1>12, HeadTailProperties DEF Receive
  <2>2. Fresh(h, Head(buf[h])) \in Seq(0..Events)
    <3>1. maxSeq[h] + 1 \in Nat \ {0} /\ Head(buf[h]) \in 0..Events
      BY <2>1, SMTT(30)
    <3> QED
      BY <3>1, SpanTypes DEF Fresh
  <2>3. wire' \in [Stream -> Seq(0..Events)]
    <3>1. Put(h, Fresh(h, Head(buf[h])))
      BY <1>12 DEF Receive
    <3> HIDE DEF TypeOK
    <3>2. wire \in [Stream -> Seq(0..Events)]
      BY DEF TypeOK
    <3> QED
      BY <2>2, <3>1, <3>2, PutTyped
  <2>4. maxSeq' \in [Stream -> 0..Events]
    <3>1. Later(maxSeq[h], Head(buf[h])) \in 0..Events
      BY <2>1, SMTT(30) DEF Later
    <3> QED
      BY <1>12, <3>1 DEF Receive
  <2>5. buf' \in [Stream -> Seq(1..Events)]
    BY <1>12, <2>1 DEF Receive
  <2> QED
    BY <1>12, <2>3, <2>4, <2>5 DEF Receive, jobVars, pageVars
<1>13. ASSUME NEW h \in Stream, ReceiveClosed(h)
       PROVE  TypeOK'
  <2>1. <<End>> \in Seq(0..Events)
    BY DEF End
  <2>2. wire' \in [Stream -> Seq(0..Events)]
    BY <1>13, <2>1, PutTyped DEF ReceiveClosed
  <2> QED
    BY <1>13, <2>2 DEF ReceiveClosed, jobVars, chanVars, pageVars
<1>14. ASSUME NEW h \in Stream, JobDone(h)
       PROVE  TypeOK'
  <2>1. Span(maxSeq[h] + 1, log) \in Seq(0..Events)
    <3>1. maxSeq[h] + 1 \in Nat \ {0} /\ log \in 0..Events
      BY SMTT(30)
    <3> QED
      BY <3>1, SpanTypes
  <2>2. Append(Span(maxSeq[h] + 1, log), End) \in Seq(0..Events)
    <3>1. End \in 0..Events
      BY DEF End
    <3> QED
      BY <2>1, <3>1, AppendProperties
  <2>3. wire' \in [Stream -> Seq(0..Events)]
    BY <1>14, <2>2, PutTyped DEF JobDone
  <2>4. maxSeq' \in [Stream -> 0..Events]
    BY <1>14 DEF JobDone, Later
  <2> QED
    BY <1>14, <2>3, <2>4 DEF JobDone, jobVars, chanVars, pageVars
<1>15. ASSUME NEW h \in Stream, Gone(h)
       PROVE  TypeOK'
  BY <1>15 DEF Gone, jobVars, chanVars, pageVars
<1>16. ASSUME NEW h \in Stream, Unsubscribe(h)
       PROVE  TypeOK'
  BY <1>16 DEF Unsubscribe, jobVars, pageVars
<1>17. CASE UNCHANGED vars
  BY <1>17 DEF vars, jobVars, chanVars, pageVars
<1> QED
  BY <1>1, <1>2, <1>3, <1>4, <1>5, <1>6, <1>7, <1>8, <1>9, <1>10, <1>11, <1>12,
     <1>13, <1>14, <1>15, <1>16, <1>17
     DEF Next, Job, Serve, Leave, Terminated

(***************************************************************************)
(* What the page shows.                                                    *)
(***************************************************************************)
\* The log only grows.
LEMMA LogGrows ==
    ASSUME TypeOK, [Next]_vars
    PROVE  log' \in Nat /\ log \in Nat /\ log <= log'
<1> USE StreamAssumption DEF StreamAssumption, TypeOK
<1>1. log' = log \/ \E e \in Emitters : Emit(e)
  BY Zenon DEF Next, Job, Serve, Leave, Terminated, vars, jobVars, Run, Finish, Cancel, Open, Show,
     Lose, Reload, Settle, Send, Close, Receive, ReceiveClosed, JobDone, Gone, Unsubscribe
<1>2. ASSUME NEW e \in Emitters, Emit(e)
      PROVE  log' = log + 1
  BY <1>2 DEF Emit
<1> QED
  BY <1>1, <1>2

\* The last event the page says it saw is the number of events it shows.
LEMMA LastShown ==
    ASSUME TypeOK, PageInOrder
    PROVE  (IF got = <<>> THEN 0 ELSE got[Len(got)]) = Len(got)
<1> USE DEF TypeOK
<1>1. CASE got = <<>>
  BY <1>1, EmptySeq
<1>2. CASE got # <<>>
  <2>1. Len(got) \in Nat \ {0}
    BY <1>2, EmptySeq
  <2>2. [i \in 1..Len(got) |-> i][Len(got)] = Len(got)
    BY <2>1
  <2> QED
    BY <1>2, <2>2 DEF PageInOrder
<1> QED
  BY <1>1, <1>2

\* What is at the head of the wire is the next event the page has to show, or
\* the end, and a shown event is in the log.
LEMMA HeadIsNext ==
    ASSUME TypeOK, Numbered, WireInv, page = "live", wire[conn] # <<>>
    PROVE  /\ conn \in Stream
           /\ Head(wire[conn]) = wire[conn][1]
           /\ Len(wire[conn]) \in Nat \ {0}
           /\ Head(wire[conn]) # End =>
                 Head(wire[conn]) = Len(got) + 1 /\ Len(got) + 1 <= log
<1> USE StreamAssumption DEF StreamAssumption, TypeOK
<1>1. conn \in Stream /\ handler[conn] \in {"open", "ended"}
  BY DEF WireInv
<1>2. wire[conn] \in Seq(0..Events) /\ Len(wire[conn]) \in Nat \ {0}
  BY <1>1, EmptySeq
<1>3. Head(wire[conn]) = wire[conn][1]
  BY <1>2
<1>4. Len(got) \in Nat /\ log \in Nat /\ maxSeq[conn] \in Nat /\ maxSeq[conn] <= log
  BY <1>1, LenProperties DEF Numbered
<1>5. CASE handler[conn] = "open"
  <2>1. Continues(wire[conn]) /\ Len(got) + Len(wire[conn]) = maxSeq[conn]
    BY <1>5 DEF WireInv
  <2>2. wire[conn][1] = Len(got) + 1
    BY <1>2, <2>1 DEF Continues
  <2>3. Len(got) + 1 <= log
    BY <1>2, <1>4, <2>1
  <2> QED
    BY <1>1, <1>2, <1>3, <2>2, <2>3
<1>6. CASE handler[conn] = "ended"
  <2>1. /\ wire[conn][Len(wire[conn])] = End
        /\ \A i \in 1..(Len(wire[conn]) - 1) : wire[conn][i] = Len(got) + i
        /\ Len(got) + Len(wire[conn]) - 1 <= log
    BY <1>6 DEF WireInv
  <2>2. wire[conn][1] # End => Len(wire[conn]) > 1
    BY <1>2, <2>1
  <2>3. wire[conn][1] # End => wire[conn][1] = Len(got) + 1
    BY <1>2, <2>1, <2>2
  <2>4. wire[conn][1] # End => Len(got) + 1 <= log
    BY <1>2, <1>4, <2>1, <2>2
  <2> QED
    BY <1>1, <1>2, <1>3, <2>3, <2>4
<1> QED
  BY <1>1, <1>5, <1>6

\* A step changes what the page shows by an event that is next, or to nothing.
LEMMA GotChanges ==
    ASSUME TypeOK, Numbered, WireInv, [Next]_vars
    PROVE  \/ got' = got
           \/ got' = <<>>
           \/ got' = Append(got, Len(got) + 1) /\ Len(got) + 1 <= log
<1>1. got' = got \/ Show \/ Reload
  BY Zenon DEF Next, Job, Serve, Leave, Terminated, vars, pageVars, Run, Finish, Cancel, Open, Emit,
     Lose, Settle, Send, Close, Receive, ReceiveClosed, JobDone, Gone, Unsubscribe
<1>2. CASE Reload
  BY <1>2 DEF Reload
<1>3. CASE Show
  <2>1. page = "live" /\ wire[conn] # <<>>
    BY <1>3 DEF Show
  <2>2. Head(wire[conn]) # End =>
           Head(wire[conn]) = Len(got) + 1 /\ Len(got) + 1 <= log
    BY <2>1, HeadIsNext
  <2>3. got' = IF Head(wire[conn]) = End THEN got ELSE Append(got, Head(wire[conn]))
    BY <1>3 DEF Show
  <2> QED
    BY <2>2, <2>3
<1> QED
  BY <1>1, <1>2, <1>3

\* The page keeps its order.
LEMMA StepOrder == TypeOK /\ Numbered /\ WireInv /\ PageInOrder /\ [Next]_vars => PageInOrder'
<1> SUFFICES ASSUME TypeOK, Numbered, WireInv, PageInOrder, [Next]_vars
             PROVE  got' = [i \in 1..Len(got') |-> i]
  BY DEF PageInOrder
<1>1. CASE got' = got
  BY <1>1 DEF PageInOrder
<1>2. CASE got' = <<>>
  BY <1>2
<1>3. CASE got' = Append(got, Len(got) + 1) /\ Len(got) + 1 <= log
  <2>1. got \in Seq(1..Events) /\ Len(got) \in Nat
    BY LenProperties DEF TypeOK, Seqs
  <2>2. Len(got) + 1 \in 1..Events
    BY <1>3, <2>1, StreamAssumption DEF TypeOK, StreamAssumption
  <2>3. /\ got' \in Seq(1..Events)
        /\ Len(got') = Len(got) + 1
        /\ \A i \in 1..Len(got) : got'[i] = got[i]
        /\ got'[Len(got) + 1] = Len(got) + 1
    BY <1>3, <2>1, <2>2, AppendProperties
  <2>4. \A i \in 1..Len(got) : got[i] = i
    <3> DEFINE n == Len(got)
    <3>1. \A i \in 1..n : [j \in 1..n |-> j][i] = i
      OBVIOUS
    <3> QED
      BY <3>1 DEF PageInOrder
  <2>5. \A i \in 1..Len(got') : got'[i] = i
    BY <2>1, <2>3, <2>4
  <2>6. got' = [i \in 1..Len(got') |-> got'[i]]
    BY <2>3, LenProperties
  <2> QED
    BY <2>5, <2>6
<1> QED
  BY <1>1, <1>2, <1>3, GotChanges

(***************************************************************************)
(* Numbers never run ahead of the log.                                     *)
(***************************************************************************)
\* The page never shows more events than the log has.
LEMMA StepShown ==
    ASSUME TypeOK, Numbered, WireInv, [Next]_vars
    PROVE  Len(got') <= log'
<1>1. got \in Seq(1..Events) /\ Len(got) \in Nat /\ Len(got) <= log
  BY LenProperties DEF TypeOK, Seqs, Numbered
<1>2. log' \in Nat /\ log \in Nat /\ log <= log'
  BY LogGrows
<1>3. CASE got' = got
  BY <1>1, <1>2, <1>3
<1>4. CASE got' = <<>>
  BY <1>2, <1>4
<1>5. CASE got' = Append(got, Len(got) + 1) /\ Len(got) + 1 <= log
  <2>1. Len(got) + 1 \in 1..Events
    BY <1>1, <1>5, StreamAssumption DEF TypeOK, StreamAssumption
  <2>2. Len(got') = Len(got) + 1
    BY <1>1, <1>5, <2>1, AppendProperties
  <2> QED
    BY <1>1, <1>2, <1>5, <2>2
<1> QED
  BY <1>3, <1>4, <1>5, GotChanges

\* No handler claims to have written more than the log has.
LEMMA StepWritten ==
    ASSUME TypeOK, Numbered, PageInOrder, [Next]_vars
    PROVE  \A h \in Stream : maxSeq'[h] <= log'
<1> SUFFICES ASSUME NEW h \in Stream
             PROVE  maxSeq'[h] <= log'
  OBVIOUS
<1>1. maxSeq[h] \in Nat /\ maxSeq[h] <= log
  BY StreamAssumption DEF TypeOK, StreamAssumption, Numbered
<1>2. log' \in Nat /\ log \in Nat /\ log <= log'
  BY LogGrows
<1>3. CASE maxSeq' = maxSeq
  BY <1>1, <1>2, <1>3
<1>4. CASE Open
  <2>1. maxSeq' = [maxSeq EXCEPT ![conn + 1] = Later(Len(got), log)]
    BY <1>4, LastShown DEF Open
  <2>2. Later(Len(got), log) = log
    BY <1>2, LenProperties DEF Later, Numbered, TypeOK
  <2> QED
    BY <1>1, <1>2, <2>1, <2>2 DEF TypeOK
<1>5. ASSUME NEW k \in Stream, Receive(k)
      PROVE  maxSeq'[h] <= log'
  <2>1. buf[k] \in Seq(1..Events) /\ buf[k] # <<>>
    BY <1>5 DEF Receive, TypeOK, Seqs
  <2>2. Head(buf[k]) = buf[k][1] /\ Head(buf[k]) \in 1..Events /\ 1 \in 1..Len(buf[k])
    <3>1. Head(buf[k]) \in 1..Events
      BY <2>1, HeadTailProperties
    <3>2. Len(buf[k]) \in Nat \ {0}
      BY <2>1, EmptySeq
    <3>3. Head(buf[k]) = buf[k][1]
      BY <2>1
    <3> QED
      BY <3>1, <3>2, <3>3
  <2>3. Head(buf[k]) <= log
    BY <2>2 DEF Numbered
  <2>4. maxSeq[k] \in Nat /\ maxSeq[k] <= log
    BY StreamAssumption DEF TypeOK, StreamAssumption, Numbered
  <2>5. Later(maxSeq[k], Head(buf[k])) <= log
    BY <2>3, <2>4 DEF Later
  <2>6. maxSeq' = [maxSeq EXCEPT ![k] = Later(maxSeq[k], Head(buf[k]))]
    BY <1>5 DEF Receive
  <2>7. maxSeq'[h] <= log
    BY <1>1, <2>5, <2>6 DEF TypeOK
  <2>8. Later(maxSeq[k], Head(buf[k])) \in Nat
    BY <2>2, <2>4 DEF Later
  <2>9. maxSeq'[h] \in Nat
    BY <1>1, <2>6, <2>8 DEF TypeOK
  <2> QED
    BY <1>2, <2>7, <2>9
<1>6. ASSUME NEW k \in Stream, JobDone(k)
      PROVE  maxSeq'[h] <= log'
  <2>1. maxSeq[k] \in Nat /\ maxSeq[k] <= log
    BY StreamAssumption DEF TypeOK, StreamAssumption, Numbered
  <2>2. Later(maxSeq[k], log) = log
    BY <1>2, <2>1 DEF Later
  <2>3. maxSeq' = [maxSeq EXCEPT ![k] = log]
    BY <1>6, <2>2 DEF JobDone
  <2> QED
    BY <1>1, <1>2, <2>3 DEF TypeOK
<1>7. maxSeq' = maxSeq \/ Open \/ (\E k \in Stream : Receive(k)) \/ (\E k \in Stream : JobDone(k))
  BY Zenon DEF Next, Job, Serve, Leave, Terminated, vars, Run, Finish, Cancel, Emit, Show, Lose,
     Reload, Settle, Send, Close, ReceiveClosed, Gone, Unsubscribe
<1> QED
  BY <1>3, <1>4, <1>5, <1>6, <1>7

\* No channel holds an event the log does not have.
LEMMA StepBuffered ==
    ASSUME TypeOK, Numbered, [Next]_vars
    PROVE  \A h \in Stream : \A i \in 1..Len(buf'[h]) : buf'[h][i] <= log'
<1> SUFFICES ASSUME NEW h \in Stream, NEW i \in 1..Len(buf'[h])
             PROVE  buf'[h][i] <= log'
  OBVIOUS
<1>1. buf[h] \in Seq(1..Events) /\ Len(buf[h]) \in Nat
  BY LenProperties DEF TypeOK, Seqs
<1>2. log' \in Nat /\ log \in Nat /\ log <= log'
  BY LogGrows
<1>3. ASSUME NEW j \in 1..Len(buf[h])
      PROVE  buf[h][j] <= log'
  <2>1. buf[h][j] \in 1..Events
    BY <1>1, ElementOfSeq
  <2>2. buf[h][j] <= log
    BY DEF Numbered
  <2> QED
    BY <1>2, <2>1, <2>2
<1>4. CASE buf' = buf
  BY <1>3, <1>4
<1>5. ASSUME NEW e \in Emitters, NEW k \in Stream, Send(e, k)
      PROVE  buf'[h][i] <= log'
  <2>1. sending[e].seq \in 1..Events /\ sending[e].seq <= log
    BY <1>5, StreamAssumption DEF Send, Numbered, TypeOK, StreamAssumption
  <2>2. CASE buf'[h] = buf[h]
    BY <1>3, <2>2
  <2>3. CASE buf'[h] = Append(buf[h], sending[e].seq)
    <3>1. /\ Len(buf'[h]) = Len(buf[h]) + 1
          /\ \A j \in 1..Len(buf[h]) : buf'[h][j] = buf[h][j]
          /\ buf'[h][Len(buf[h]) + 1] = sending[e].seq
      BY <1>1, <2>1, <2>3, AppendProperties
    <3>2. i \in 1..Len(buf[h]) \/ i = Len(buf[h]) + 1
      BY <1>1, <3>1
    <3>3. sending[e].seq <= log'
      BY <1>2, <2>1
    <3> QED
      BY <1>3, <3>1, <3>2, <3>3
  <2>4. buf'[h] = buf[h] \/ buf'[h] = Append(buf[h], sending[e].seq)
    BY <1>5 DEF Send, TypeOK
  <2> QED
    BY <2>2, <2>3, <2>4
<1>6. ASSUME NEW k \in Stream, Receive(k)
      PROVE  buf'[h][i] <= log'
  <2>1. CASE buf'[h] = buf[h]
    BY <1>3, <2>1
  <2>2. CASE buf'[h] = Tail(buf[h]) /\ buf[h] # <<>>
    <3>1. /\ Len(buf'[h]) = Len(buf[h]) - 1
          /\ \A j \in 1..Len(buf'[h]) : buf'[h][j] = buf[h][j + 1]
      BY <1>1, <2>2, HeadTailProperties
    <3>2. i + 1 \in 1..Len(buf[h])
      BY <1>1, <3>1
    <3> QED
      BY <1>3, <3>1, <3>2
  <2>3. buf'[h] = buf[h] \/ (buf'[h] = Tail(buf[h]) /\ buf[h] # <<>>)
    BY <1>6 DEF Receive, TypeOK
  <2> QED
    BY <2>1, <2>2, <2>3
<1>7. \/ buf' = buf
      \/ \E e \in Emitters : \E k \in Stream : Send(e, k)
      \/ \E k \in Stream : Receive(k)
  BY Zenon DEF Next, Job, Serve, Leave, Terminated, vars, chanVars, Run, Finish, Cancel, Open, Emit,
     Show, Lose, Reload, Settle, Close, ReceiveClosed, JobDone, Gone, Unsubscribe
<1> QED
  BY <1>4, <1>5, <1>6, <1>7

\* An emitter sends an event of the log.
LEMMA StepSending ==
    ASSUME TypeOK, Numbered, [Next]_vars
    PROVE  \A e \in Emitters : /\ sending'[e].seq <= log'
                               /\ sending'[e].to # {} => sending'[e].seq >= 1
<1> SUFFICES ASSUME NEW e \in Emitters
             PROVE  sending'[e].seq <= log' /\ (sending'[e].to # {} => sending'[e].seq >= 1)
  OBVIOUS
<1>1. /\ sending[e].seq \in Nat /\ sending[e].seq <= log
      /\ sending[e].to # {} => sending[e].seq >= 1
  BY StreamAssumption DEF TypeOK, StreamAssumption, Numbered
<1>2. log' \in Nat /\ log \in Nat /\ log <= log'
  BY LogGrows
<1>3. CASE sending' = sending
  BY <1>1, <1>2, <1>3
<1>4. ASSUME NEW a \in Emitters, Emit(a)
      PROVE  sending'[e].seq <= log' /\ (sending'[e].to # {} => sending'[e].seq >= 1)
  <2>1. sending'[e] = sending[e] \/ sending'[e] = [seq |-> log + 1, to |-> subs]
    BY <1>4 DEF Emit, TypeOK
  <2>2. log' = log + 1
    BY <1>4 DEF Emit
  <2>3. CASE sending'[e] = sending[e]
    BY <1>1, <1>2, <2>3
  <2>4. CASE sending'[e] = [seq |-> log + 1, to |-> subs]
    BY <1>2, <2>2, <2>4
  <2> QED
    BY <2>1, <2>3, <2>4
<1>5. ASSUME NEW a \in Emitters, NEW h \in Stream, Send(a, h)
      PROVE  sending'[e].seq <= log' /\ (sending'[e].to # {} => sending'[e].seq >= 1)
  <2>1. sending'[e].seq = sending[e].seq
    BY <1>5 DEF Send, TypeOK
  <2>2. sending'[e].to # {} => sending[e].to # {}
    BY <1>5 DEF Send, TypeOK
  <2> QED
    BY <1>1, <1>2, <2>1, <2>2
<1>6. \/ sending' = sending
      \/ \E a \in Emitters : Emit(a)
      \/ \E a \in Emitters : \E h \in Stream : Send(a, h)
  BY Zenon DEF Next, Job, Serve, Leave, Terminated, vars, Run, Finish, Cancel, Open, Show, Lose,
     Reload, Settle, Close, Receive, ReceiveClosed, JobDone, Gone, Unsubscribe
<1> QED
  BY <1>3, <1>4, <1>5, <1>6

(***************************************************************************)
(* What is on its way continues what is shown.                             *)
(***************************************************************************)
\* WireInv speaks of one stream: what of it changes decides whether it holds.
LEMMA WireFrame ==
    ASSUME TypeOK, Numbered, WireInv, [Next]_vars,
           page' = page, conn' = conn, got' = got,
           page = "live" => wire'[conn] = wire[conn] /\ handler'[conn] = handler[conn]
                                                     /\ maxSeq'[conn] = maxSeq[conn]
    PROVE  WireInv'
<1> SUFFICES ASSUME page = "live"
             PROVE  WireInv'
  BY DEF WireInv
<1>1. conn \in Stream /\ handler[conn] \in {"open", "ended"}
  BY DEF WireInv
<1>2. log' \in Nat /\ log \in Nat /\ log <= log'
  BY LogGrows
<1>3. CASE handler[conn] = "open"
  BY <1>1, <1>3 DEF WireInv, Continues
<1>4. CASE handler[conn] = "ended"
  <2>1. Len(wire[conn]) \in Nat /\ Len(got) \in Nat
    BY <1>1, LenProperties DEF TypeOK
  <2>2. Len(got) + Len(wire[conn]) - 1 <= log'
    BY <1>2, <1>4, <2>1 DEF WireInv
  <2> QED
    BY <1>1, <1>4, <2>2 DEF WireInv
<1> QED
  BY <1>1, <1>3, <1>4

\* Opening a stream puts the backlog on the wire.
LEMMA OpenWire ==
    ASSUME TypeOK, Numbered, PageInOrder, Open
    PROVE  WireInv'
<1> USE StreamAssumption DEF StreamAssumption
<1> DEFINE h == conn + 1
<1>1. h \in Stream
  BY DEF Open, Stream, TypeOK
<1>2. Len(got) \in Nat /\ log \in 0..Events /\ Len(got) <= log
  BY LenProperties DEF Numbered, TypeOK
<1>3. Later(Len(got), log) = log
  BY <1>2 DEF Later
<1>4. /\ wire'[h] = Span(Len(got) + 1, log)
      /\ maxSeq'[h] = log
      /\ handler'[h] = "open" /\ conn' = h /\ got' = got
  BY <1>1, <1>3, LastShown DEF Open, Backlog, TypeOK
<1>5. /\ Len(Span(Len(got) + 1, log)) = log - Len(got)
      /\ \A i \in 1..Len(Span(Len(got) + 1, log)) :
            Span(Len(got) + 1, log)[i] = Len(got) + i
  <2>1. Len(got) + 1 \in Nat \ {0} /\ log \in Nat
    BY <1>2
  <2>2. /\ Len(Span(Len(got) + 1, log)) =
              IF log < Len(got) + 1 THEN 0 ELSE log - (Len(got) + 1) + 1
        /\ \A i \in 1..Len(Span(Len(got) + 1, log)) :
              Span(Len(got) + 1, log)[i] = Len(got) + 1 + i - 1
    BY <2>1, SpanFacts
  <2>3. Len(Span(Len(got) + 1, log)) = log - Len(got)
    BY <1>2, <2>2
  <2> QED
    BY <1>2, <2>2, <2>3
<1>6. Continues(wire[conn])'
  BY <1>4, <1>5 DEF Continues
<1>7. Len(got') + Len(wire'[conn']) = maxSeq'[conn']
  BY <1>2, <1>4, <1>5
<1> QED
  BY <1>1, <1>4, <1>6, <1>7 DEF WireInv

\* What an open handler writes up to the event n continues the wire up to n.
LEMMA WriteContinues ==
    ASSUME TypeOK, Numbered, WireInv, page = "live", handler[conn] = "open",
           NEW n \in 0..Events
    PROVE  LET w == wire[conn] \o Span(maxSeq[conn] + 1, n)
           IN /\ w \in Seq(0..Events)
              /\ Continues(w)
              /\ Len(got) + Len(w) = Later(maxSeq[conn], n)
<1> DEFINE s == Span(maxSeq[conn] + 1, n)
           w == wire[conn] \o s
<1> USE StreamAssumption DEF StreamAssumption
<1>1. conn \in Stream
  BY DEF WireInv
<1>2. maxSeq[conn] \in Nat /\ n \in Nat /\ maxSeq[conn] + 1 \in Nat \ {0}
  BY <1>1 DEF TypeOK
<1>3. s \in Seq(0..Events)
  BY <1>2, SpanTypes
<1>4. /\ Len(s) = IF n < maxSeq[conn] + 1 THEN 0 ELSE n - (maxSeq[conn] + 1) + 1
      /\ \A i \in 1..Len(s) : s[i] = maxSeq[conn] + 1 + i - 1
  BY <1>2, SpanFacts
<1>5. /\ Continues(wire[conn])
      /\ Len(got) + Len(wire[conn]) = maxSeq[conn]
  BY DEF WireInv
<1>6. wire[conn] \in Seq(0..Events) /\ Len(wire[conn]) \in Nat /\ Len(got) \in Nat
  BY <1>1, LenProperties DEF TypeOK
<1> HIDE DEF s
<1>7. /\ w \in Seq(0..Events)
      /\ Len(w) = Len(wire[conn]) + Len(s)
      /\ \A i \in 1..(Len(wire[conn]) + Len(s)) :
            w[i] = IF i <= Len(wire[conn]) THEN wire[conn][i] ELSE s[i - Len(wire[conn])]
  BY <1>3, <1>6, ConcatProperties
<1>8. Len(got) + Len(w) = Later(maxSeq[conn], n)
  <2>1. Len(w) = Len(wire[conn]) + Len(s)
    BY <1>7
  <2>2. CASE n <= maxSeq[conn]
    <3>1. Len(s) = 0
      BY <1>2, <1>4, <2>2
    <3>2. Later(maxSeq[conn], n) = maxSeq[conn]
      BY <1>2, <2>2 DEF Later
    <3> HIDE DEF w
    <3> QED
      BY <1>5, <1>6, <2>1, <3>1, <3>2
  <2>3. CASE n > maxSeq[conn]
    <3>1. Len(s) = n - maxSeq[conn]
      BY <1>2, <1>4, <2>3
    <3>2. Later(maxSeq[conn], n) = n
      BY <1>2, <2>3 DEF Later
    <3> HIDE DEF w
    <3>3. Len(s) \in Nat
      BY <1>3, LenProperties
    <3>4. Len(got) + Len(w) = maxSeq[conn] + Len(s)
      BY <1>5, <1>6, <2>1, <3>3
    <3> QED
      BY <1>2, <3>1, <3>2, <3>4
  <2> QED
    BY <1>2, <2>2, <2>3
<1>9. ASSUME NEW i \in 1..Len(w)
      PROVE  w[i] = Len(got) + i
  <2>0. Len(s) \in Nat
    BY <1>3, LenProperties
  <2>1. CASE i <= Len(wire[conn])
    <3>1. i \in 1..Len(wire[conn])
      BY <1>6, <1>7, <2>0, <2>1
    <3>2. w[i] = wire[conn][i]
      BY <1>7, <2>1
    <3> QED
      BY <1>5, <3>1, <3>2 DEF Continues
  <2>2. CASE ~(i <= Len(wire[conn]))
    <3>1. i - Len(wire[conn]) \in 1..Len(s)
      BY <1>6, <1>7, <2>0, <2>2
    <3>2. w[i] = s[i - Len(wire[conn])]
      BY <1>7, <2>2
    <3>3. s[i - Len(wire[conn])] = maxSeq[conn] + 1 + (i - Len(wire[conn])) - 1
      BY <1>4, <3>1
    <3>4. i \in Nat
      BY <1>6, <1>7, <2>0
    <3> HIDE DEF w
    <3> QED
      BY <1>2, <1>5, <1>6, <3>2, <3>3, <3>4
  <2> QED
    BY <2>1, <2>2
<1>10. Continues(w)
  BY <1>9 DEF Continues
<1> HIDE DEF w
<1>11. /\ w \in Seq(0..Events) /\ Continues(w)
       /\ Len(got) + Len(w) = Later(maxSeq[conn], n)
  BY <1>7, <1>8, <1>10
<1> QED
  BY <1>11 DEF w, s

\* A wire that continues what is shown up to an event of the log may be ended.
LEMMA EndedWire ==
    ASSUME TypeOK, Numbered, NEW w \in Seq(0..Events), Continues(w), Len(got) + Len(w) <= log
    PROVE  LET v == Append(w, End)
           IN /\ Len(v) > 0
              /\ v[Len(v)] = End
              /\ \A i \in 1..(Len(v) - 1) : v[i] = Len(got) + i
              /\ Len(got) + Len(v) - 1 <= log
<1> DEFINE v == Append(w, End)
<1>1. End \in 0..Events /\ Len(w) \in Nat /\ Len(got) \in Nat /\ log \in Nat
  BY StreamAssumption, LenProperties DEF StreamAssumption, End, TypeOK
<1>2. /\ Len(v) = Len(w) + 1
      /\ \A i \in 1..Len(w) : v[i] = w[i]
      /\ v[Len(w) + 1] = End
  BY <1>1, AppendProperties
<1> HIDE DEF v
<1>3. Len(v) > 0 /\ v[Len(v)] = End /\ Len(got) + Len(v) - 1 <= log
  BY <1>1, <1>2
<1>4. \A i \in 1..(Len(v) - 1) : v[i] = Len(got) + i
  BY <1>1, <1>2 DEF Continues
<1> QED
  BY <1>3, <1>4 DEF v

\* Appending after concatenating is concatenating what was appended to.
LEMMA AppendAfter ==
    ASSUME NEW S, NEW a \in Seq(S), NEW b \in Seq(S), NEW x \in S
    PROVE  a \o Append(b, x) = Append(a \o b, x)
<1>1. Append(b, x) = b \o <<x>>
  BY AppendIsConcat
<1>2. a \o b \in Seq(S)
  BY ConcatProperties
<1>3. Append(a \o b, x) = (a \o b) \o <<x>>
  BY <1>2, AppendIsConcat
<1>4. a \o (b \o <<x>>) = (a \o b) \o <<x>>
  <2> DEFINE end == <<x>>
  <2>1. end \in Seq(S)
    OBVIOUS
  <2> HIDE DEF end
  <2>2. a \o (b \o end) = (a \o b) \o end
    BY <2>1, ConcatAssociative, SMTT(30)
  <2> QED
    BY <2>2 DEF end
<1> QED
  BY <1>1, <1>3, <1>4, Zenon

\* The handler the page is connected to writes, and another one does not
\* reach the page.
LEMMA ServeWire ==
    ASSUME TypeOK, Numbered, WireInv, [Next]_vars, NEW h \in Stream, Serve(h)
    PROVE  WireInv'
<1>1. page' = page /\ conn' = conn /\ got' = got /\ log' = log /\ handler[h] = "open"
  BY DEF Serve, Receive, ReceiveClosed, JobDone, pageVars, jobVars
<1>2. CASE page = "live" => conn # h
  <2>1. page = "live" => wire' = wire
    BY <1>2 DEF Serve, Receive, ReceiveClosed, JobDone, Put
  <2>2. page = "live" => handler'[conn] = handler[conn] /\ maxSeq'[conn] = maxSeq[conn]
    <3>1. page = "live" => conn \in Stream
      BY DEF WireInv
    <3>2. handler' = handler \/ handler' = [handler EXCEPT ![h] = "ended"]
      BY DEF Serve, Receive, ReceiveClosed, JobDone
    <3>3. maxSeq' = maxSeq \/ \E n : maxSeq' = [maxSeq EXCEPT ![h] = n]
      BY DEF Serve, Receive, ReceiveClosed, JobDone
    <3> QED
      BY <1>2, <3>1, <3>2, <3>3 DEF TypeOK
  <2> QED
    BY <1>1, <2>1, <2>2, WireFrame
<1>3. CASE page = "live" /\ conn = h
  <2>1. log \in 0..Events /\ maxSeq[h] \in 0..Events /\ maxSeq[h] <= log
    BY DEF TypeOK, Numbered
  <2>2. wire[h] \in Seq(0..Events)
    BY DEF TypeOK
  <2>3. CASE Receive(h)
    <3>1. Head(buf[h]) \in 0..Events
      <4>1. buf[h] \in Seq(1..Events) /\ buf[h] # <<>>
        BY <2>3 DEF Receive, TypeOK, Seqs
      <4>2. Head(buf[h]) \in 1..Events
        BY <4>1, HeadTailProperties
      <4> QED
        BY <4>2, StreamAssumption DEF StreamAssumption
    <3>2. /\ wire'[h] = wire[h] \o Span(maxSeq[h] + 1, Head(buf[h]))
          /\ maxSeq'[h] = Later(maxSeq[h], Head(buf[h]))
          /\ handler' = handler
      BY <1>3, <2>3 DEF Receive, Put, Fresh, TypeOK
    <3>3. Continues(wire'[h]) /\ Len(got) + Len(wire'[h]) = maxSeq'[h]
      BY <1>1, <1>3, <3>1, <3>2, WriteContinues
    <3> QED
      BY <1>1, <1>3, <3>2, <3>3 DEF WireInv, Continues
  <2>4. ASSUME NEW w \in Seq(0..Events), Continues(w), Len(got) + Len(w) <= log,
               wire'[h] = Append(w, End), handler'[h] = "ended"
        PROVE  WireInv'
    <3>1. /\ Len(wire'[h]) > 0
          /\ wire'[h][Len(wire'[h])] = End
          /\ \A i \in 1..(Len(wire'[h]) - 1) : wire'[h][i] = Len(got) + i
          /\ Len(got) + Len(wire'[h]) - 1 <= log
      BY <2>4, EndedWire
    <3> QED
      BY <1>1, <1>3, <2>4, <3>1 DEF WireInv
  <2>5. CASE ReceiveClosed(h)
    <3>1. wire'[h] = wire[h] \o <<End>> /\ handler'[h] = "ended"
      BY <1>3, <2>5 DEF ReceiveClosed, Put, TypeOK
    <3>2. wire'[h] = Append(wire[h], End)
      BY <2>2, <3>1
    <3>3. Continues(wire[h]) /\ Len(got) + Len(wire[h]) = maxSeq[h]
      BY <1>1, <1>3 DEF WireInv
    <3>4. Len(got) + Len(wire[h]) <= log
      BY <2>1, <3>3
    <3> QED
      BY <2>2, <2>4, <3>1, <3>2, <3>3, <3>4
  <2>6. CASE JobDone(h)
    <3> DEFINE rest == Span(maxSeq[h] + 1, log)
               w == wire[h] \o rest
    <3>1. w \in Seq(0..Events) /\ Continues(w) /\ Len(got) + Len(w) = Later(maxSeq[h], log)
      BY <1>1, <1>3, <2>1, WriteContinues
    <3>2. Later(maxSeq[h], log) = log
      BY <2>1 DEF Later
    <3>3. rest \in Seq(0..Events)
      <4>1. maxSeq[h] + 1 \in Nat \ {0}
        BY <2>1
      <4> QED
        BY <2>1, <4>1, SpanTypes
    <3>4. wire'[h] = wire[h] \o Append(rest, End) /\ handler'[h] = "ended"
      BY <1>3, <2>6 DEF JobDone, Put, TypeOK
    <3> HIDE DEF rest
    <3>5. wire[h] \o Append(rest, End) = Append(w, End)
      <4>1. End \in 0..Events
        BY StreamAssumption DEF End, StreamAssumption
      <4> DEFINE a == wire[h]
      <4>2. a \in Seq(0..Events)
        BY <2>2
      <4> HIDE DEF a
      <4>3. a \o Append(rest, End) = Append(a \o rest, End)
        BY <3>3, <4>1, <4>2, AppendAfter
      <4> QED
        BY <4>3 DEF a
    <3>6. wire'[h] = Append(w, End)
      BY <3>4, <3>5
    <3> HIDE DEF w
    <3>7. Len(got) + Len(w) <= log
      BY <2>1, <3>1, <3>2
    <3> QED
      BY <2>4, <3>1, <3>4, <3>6, <3>7
  <2> QED
    BY <2>3, <2>5, <2>6 DEF Serve
<1> QED
  BY <1>2, <1>3

\* Showing the head of the wire leaves what comes after it.
LEMMA ShowWire ==
    ASSUME TypeOK, Numbered, WireInv, [Next]_vars, Show
    PROVE  WireInv'
<1> USE StreamAssumption DEF StreamAssumption
<1>1. page = "live" /\ wire[conn] # <<>>
  BY DEF Show
<1>2. /\ conn \in Stream
      /\ Head(wire[conn]) = wire[conn][1]
      /\ Len(wire[conn]) \in Nat \ {0}
      /\ Head(wire[conn]) # End => Head(wire[conn]) = Len(got) + 1 /\ Len(got) + 1 <= log
  BY <1>1, HeadIsNext
<1>3. CASE Head(wire[conn]) = End
  BY <1>3 DEF Show, WireInv
<1>4. CASE Head(wire[conn]) # End
  <2>1. /\ wire'[conn] = Tail(wire[conn]) /\ page' = page /\ conn' = conn
        /\ got' = Append(got, Len(got) + 1)
        /\ handler' = handler /\ maxSeq' = maxSeq /\ log' = log
    BY <1>2, <1>4 DEF Show, jobVars, TypeOK
  <2>2. Len(got) \in Nat /\ Len(got') = Len(got) + 1
    <3>1. got \in Seq(1..Events) /\ Len(got) \in Nat /\ log \in 0..Events
      BY LenProperties DEF TypeOK, Seqs
    <3>2. Len(got) + 1 \in 1..Events
      BY <1>2, <1>4, <3>1
    <3> QED
      BY <2>1, <3>1, <3>2, AppendProperties
  <2>3. wire[conn] \in Seq(0..Events)
    BY <1>2 DEF TypeOK
  <2>4. /\ Len(wire'[conn]) = Len(wire[conn]) - 1
        /\ \A i \in 1..Len(wire'[conn]) : wire'[conn][i] = wire[conn][i + 1]
    BY <1>1, <2>1, <2>3, HeadTailProperties
  <2>5. CASE handler[conn] = "open"
    <3>1. /\ \A i \in 1..Len(wire[conn]) : wire[conn][i] = Len(got) + i
          /\ Len(got) + Len(wire[conn]) = maxSeq[conn]
      BY <1>1, <2>5 DEF WireInv, Continues
    <3>2. ASSUME NEW i \in 1..Len(wire'[conn])
          PROVE  wire'[conn][i] = Len(got') + i
      <4>1. i + 1 \in 1..Len(wire[conn]) /\ i \in Nat
        BY <1>2, <2>4
      <4>2. wire'[conn][i] = Len(got) + (i + 1)
        BY <2>4, <3>1, <4>1
      <4>3. Len(got) + (i + 1) = Len(got') + i
        BY <2>2, <4>1
      <4> QED
        BY <4>2, <4>3
    <3>3. Len(got') + Len(wire'[conn]) = maxSeq[conn]
      <4>0. Len(got) \in Nat /\ Len(wire[conn]) \in Nat
        BY <1>2, <2>2
      <4>1. (Len(got) + 1) + (Len(wire[conn]) - 1) = maxSeq[conn]
        <5>1. Len(got) + Len(wire[conn]) = maxSeq[conn]
          BY <3>1
        <5>2. \A a, b \in Nat : (a + 1) + (b - 1) = a + b
          OBVIOUS
        <5> QED
          BY <4>0, <5>1, <5>2, Zenon
      <4> QED
        BY <2>2, <2>4, <4>1, Zenon
    <3> QED
      BY <1>2, <2>1, <2>5, <3>2, <3>3 DEF WireInv, Continues
  <2>6. CASE handler[conn] = "ended"
    <3>1. /\ wire[conn][Len(wire[conn])] = End
          /\ \A i \in 1..(Len(wire[conn]) - 1) : wire[conn][i] = Len(got) + i
          /\ Len(got) + Len(wire[conn]) - 1 <= log
      BY <1>1, <2>6 DEF WireInv
    <3>2. Len(wire[conn]) > 1
      BY <1>2, <1>4, <3>1
    <3>3. Len(wire'[conn]) > 0 /\ Len(wire'[conn]) \in Nat
      BY <1>2, <2>4, <3>2
    <3>4. wire'[conn][Len(wire'[conn])] = End
      <4>1. Len(wire'[conn]) \in 1..Len(wire'[conn]) /\ Len(wire'[conn]) + 1 = Len(wire[conn])
        BY <1>2, <2>4, <3>3
      <4> QED
        BY <2>4, <3>1, <4>1
    <3>5. ASSUME NEW i \in 1..(Len(wire'[conn]) - 1)
          PROVE  wire'[conn][i] = Len(got') + i
      <4>1. /\ i \in Nat /\ i \in 1..Len(wire'[conn])
            /\ i + 1 \in 1..(Len(wire[conn]) - 1)
        BY <1>2, <2>4, <3>3
      <4>2. wire'[conn][i] = Len(got) + (i + 1)
        BY <2>4, <3>1, <4>1
      <4>3. Len(got) + (i + 1) = Len(got') + i
        BY <2>2, <4>1
      <4> QED
        BY <4>2, <4>3
    <3>6. Len(got') + Len(wire'[conn]) - 1 <= log
      <4>0. Len(got) \in Nat /\ Len(wire[conn]) \in Nat
        BY <1>2, <2>2
      <4>1. (Len(got) + 1) + (Len(wire[conn]) - 1) - 1 <= log
        <5>1. \A a, b, m \in Nat : a + b - 1 <= m => (a + 1) + (b - 1) - 1 <= m
          OBVIOUS
        <5>2. Len(got) + Len(wire[conn]) - 1 <= log
          BY <3>1
        <5>3. log \in Nat
          BY DEF TypeOK
        <5> QED
          BY <4>0, <5>1, <5>2, <5>3, Zenon
      <4> QED
        BY <2>2, <2>4, <4>1, Zenon
    <3> QED
      BY <1>2, <2>1, <2>6, <3>3, <3>4, <3>5, <3>6 DEF WireInv
  <2> QED
    BY <1>1, <2>5, <2>6 DEF WireInv
<1> QED
  BY <1>3, <1>4

\* Every step keeps what is on its way in line with what is shown.
LEMMA StepWire == TypeOK /\ Numbered /\ WireInv /\ PageInOrder /\ [Next]_vars => WireInv'
<1> SUFFICES ASSUME TypeOK, Numbered, WireInv, PageInOrder, [Next]_vars
             PROVE  WireInv'
  OBVIOUS
<1>1. CASE Open
  BY <1>1, OpenWire
<1>2. CASE Show
  BY <1>2, ShowWire
<1>3. CASE Lose \/ Reload \/ Settle
  BY <1>3 DEF Lose, Reload, Settle, WireInv
<1>4. ASSUME NEW h \in Stream, Serve(h)
      PROVE  WireInv'
  BY <1>4, ServeWire
<1>5. ASSUME NEW h \in Stream, Gone(h)
      PROVE  WireInv'
  <2>1. page' = page /\ conn' = conn /\ got' = got /\ wire' = wire /\ maxSeq' = maxSeq
    BY <1>5 DEF Gone, pageVars
  <2>2. page = "live" => handler'[conn] = handler[conn]
    BY <1>5 DEF Gone, TypeOK
  <2> QED
    BY <2>1, <2>2, WireFrame
<1>6. CASE UNCHANGED <<handler, maxSeq, wire, pageVars>>
  BY <1>6, WireFrame DEF pageVars
<1>7. \/ Open \/ Show \/ Lose \/ Reload \/ Settle
      \/ \E h \in Stream : Serve(h)
      \/ \E h \in Stream : Gone(h)
      \/ UNCHANGED <<handler, maxSeq, wire, pageVars>>
  BY Zenon DEF Next, Job, Leave, Terminated, vars, Run, Finish, Cancel, Emit, Send, Close, Unsubscribe
<1> QED
  BY <1>1, <1>2, <1>3, <1>4, <1>5, <1>6, <1>7

(***************************************************************************)
(* The theorems.                                                           *)
(***************************************************************************)
\* The invariant holds at first.
LEMMA InitInv == Init => IInv
<1> SUFFICES ASSUME Init
             PROVE  Numbered /\ WireInv /\ PageInOrder
  BY InitTyped DEF IInv
<1>1. Len(got) = 0 /\ log = 0
  BY EmptySeq DEF Init
<1>2. \A h \in Stream : Len(buf[h]) = 0
  BY EmptySeq DEF Init
<1>3. Numbered
  BY <1>1, <1>2 DEF Init, Numbered
<1>4. WireInv
  BY DEF Init, WireInv
<1>5. PageInOrder
  BY <1>1 DEF Init, PageInOrder
<1> QED
  BY <1>3, <1>4, <1>5

\* Every step keeps the invariant.
LEMMA StepInv == IInv /\ [Next]_vars => IInv'
<1> SUFFICES ASSUME IInv, [Next]_vars
             PROVE  IInv'
  OBVIOUS
<1>1. TypeOK /\ Numbered /\ WireInv /\ PageInOrder
  BY DEF IInv
<1>2. TypeOK'
  BY <1>1, StepTyped
<1>3. Numbered'
  BY <1>1, StepShown, StepWritten, StepBuffered, StepSending DEF Numbered
<1>4. WireInv'
  BY <1>1, StepWire
<1>5. PageInOrder'
  BY <1>1, StepOrder
<1> QED
  BY <1>2, <1>3, <1>4, <1>5 DEF IInv

\* Every variable of the job's stream keeps its type (internal/web/jobs.go).
THEOREM TypeCorrect == Spec => []TypeOK
<1>1. IInv => TypeOK
  BY DEF IInv
<1> QED
  BY <1>1, InitInv, StepInv, PTL DEF Spec

\* Whatever emitters interleave, channels drop and connections lose, the page
\* shows the job's events from the first on, without a gap or a repeat: what
\* streamJob's maxSeq and the page's "after" parameter are for
\* (internal/web/handlers_jobs.go).
THEOREM PageShowsPrefix == Spec => []PageInOrder
<1>1. IInv => PageInOrder
  BY DEF IInv
<1> QED
  BY <1>1, InitInv, StepInv, PTL DEF Spec

(***************************************************************************)
(* Channels are closed only when nothing is sent any more.                 *)
(***************************************************************************)
\* While the job is not over no channel is closed, and only a running job sends.
CloseInv ==
    /\ ~Over => closing = {} /\ shut = {}
    /\ status # "running" => \A e \in Emitters : sending[e].to = {}

\* Every step keeps it.
LEMMA StepClose == TypeOK /\ CloseInv /\ [Next]_vars => CloseInv'
<1> SUFFICES ASSUME TypeOK, CloseInv, [Next]_vars
             PROVE  CloseInv'
  OBVIOUS
<1> USE DEF CloseInv, Over
<1>1. CASE Run
  BY <1>1 DEF Run, chanVars
<1>2. ASSUME NEW f \in BOOLEAN, Finish(f)
      PROVE  CloseInv'
  BY <1>2 DEF Finish, Idle
<1>3. ASSUME NEW e \in Emitters, Emit(e)
      PROVE  CloseInv'
  BY <1>3 DEF Emit, chanVars
<1>4. ASSUME NEW e \in Emitters, NEW h \in Stream, Send(e, h)
      PROVE  CloseInv'
  <2>1. status = "running"
    BY <1>4 DEF Send
  <2> QED
    BY <1>4, <2>1 DEF Send, jobVars
<1>5. ASSUME NEW h \in Stream, Close(h)
      PROVE  CloseInv'
  BY <1>5 DEF Close, jobVars
<1>6. CASE Open
  BY <1>6 DEF Open, jobVars
<1>7. ASSUME NEW h \in Stream, Receive(h) \/ Unsubscribe(h)
      PROVE  CloseInv'
  BY <1>7 DEF Receive, Unsubscribe, jobVars
<1>8. CASE UNCHANGED <<status, sending, closing, shut>>
  BY <1>8
<1>9. \/ Run \/ Open
      \/ \E f \in BOOLEAN : Finish(f)
      \/ \E e \in Emitters : Emit(e)
      \/ \E e \in Emitters : \E h \in Stream : Send(e, h)
      \/ \E h \in Stream : Close(h)
      \/ \E h \in Stream : Receive(h) \/ Unsubscribe(h)
      \/ UNCHANGED <<status, sending, closing, shut>>
  BY Zenon DEF Next, Job, Serve, Leave, Terminated, vars, jobVars, chanVars, Cancel, Show, Lose,
     Reload, Settle, ReceiveClosed, JobDone, Gone
<1> QED
  BY <1>1, <1>2, <1>3, <1>4, <1>5, <1>6, <1>7, <1>8, <1>9

\* No emitter is about to send to a closed channel: Job.finish closes the
\* subscribers' channels after the runner and its goroutines are done, and
\* Unsubscribe closes none (internal/web/jobs.go).
THEOREM NeverSendsOnClosed == Spec => []NoSendOnClosed
<1>1. Init => CloseInv
  BY DEF Init, CloseInv, Over
<1>2. CloseInv => NoSendOnClosed
  BY DEF CloseInv, NoSendOnClosed, Over
<1> QED
  BY <1>1, <1>2, StepClose, TypeCorrect, PTL DEF Spec

(***************************************************************************)
(* A stream that lost nothing ends with the whole log.                     *)
(***************************************************************************)
\* Event n has been sent to stream h and not received, or is being sent to it.
Pending(h, n) ==
    \/ \E i \in 1..Len(buf[h]) : buf[h][i] = n
    \/ \E e \in Emitters : sending[e].seq = n /\ h \in sending[e].to

\* An open handler is subscribed as long as events come, every event it has not
\* written is pending, and one that has ended wrote them all.
DeliveryInv ==
    \A h \in Stream :
        /\ handler[h] = "open" /\ ~Over => h \in subs
        /\ handler[h] = "open" /\ h \notin lossy =>
              \A n \in Nat : maxSeq[h] < n /\ n <= log => Pending(h, n)
        /\ handler[h] = "ended" => Over /\ (h \notin lossy => maxSeq[h] = log)

\* A handler that is left alone, with everything it is owed.
LEMMA DeliveryFrame ==
    ASSUME DeliveryInv, UNCHANGED <<status, log, sending, subs, buf, lossy, maxSeq>>,
           \A h \in Stream : handler'[h] \in {handler[h], "gone"}
    PROVE  DeliveryInv'
  BY DEF DeliveryInv, Pending, Over

LEMMA StepDelivery ==
    TypeOK /\ Numbered /\ CloseInv /\ DeliveryInv /\ [Next]_vars => DeliveryInv'
<1> SUFFICES ASSUME TypeOK, Numbered, CloseInv, DeliveryInv, [Next]_vars
             PROVE  DeliveryInv'
  OBVIOUS
<1>0. log \in Nat /\ \A h \in Stream : maxSeq[h] \in Nat
  BY StreamAssumption DEF TypeOK
<1>1. CASE Run
  BY <1>1 DEF Run, DeliveryInv, Pending, Over, chanVars
<1>2. ASSUME NEW f \in BOOLEAN, Finish(f)
      PROVE  DeliveryInv'
  BY <1>2 DEF Finish, DeliveryInv, Pending, Over
<1>3. ASSUME NEW e \in Emitters, Emit(e)
      PROVE  DeliveryInv'
  <2> USE <1>3 DEF Emit, chanVars
  <2>1. ~Over /\ ~Over'
    BY DEF Over
  <2>2. \A h \in Stream, n \in Nat : Pending(h, n) => Pending(h, n)'
    BY DEF Pending, TypeOK, Idle
  <2>3. \A h \in subs, n \in Nat : n = log + 1 => Pending(h, n)'
    BY DEF Pending, TypeOK
  <2>4. \A n \in Nat : n <= log' => n <= log \/ n = log + 1
    BY <1>0
  <2>5. UNCHANGED <<subs, lossy, handler, maxSeq>>
    OBVIOUS
  <2> QED
    BY <2>1, <2>2, <2>3, <2>4, <2>5 DEF DeliveryInv
<1>4. ASSUME NEW e \in Emitters, NEW h \in Stream, Send(e, h)
      PROVE  DeliveryInv'
  <2>1. UNCHANGED <<status, log, subs, handler, maxSeq>>
    BY <1>4 DEF Send, jobVars
  <2>2. \A g \in Stream, n \in Nat : Pending(g, n) /\ g \notin lossy' => Pending(g, n)'
    <3> SUFFICES ASSUME NEW g \in Stream, NEW n \in Nat, Pending(g, n), g \notin lossy'
                 PROVE  Pending(g, n)'
      OBVIOUS
    <3>1. \A i \in 1..Len(buf[g]) : i \in 1..Len(buf'[g]) /\ buf'[g][i] = buf[g][i]
      <4>1. buf[g] \in Seq(Seqs)
        BY DEF TypeOK
      <4>2. buf'[g] = buf[g] \/ \E x : buf'[g] = Append(buf[g], x)
        <5>1. buf \in [Stream -> Seq(Seqs)]
          BY DEF TypeOK
        <5>2. \/ buf' = [buf EXCEPT ![h] = Append(@, sending[e].seq)]
              \/ buf' = buf
          BY <1>4 DEF Send
        <5> QED
          BY <5>1, <5>2
      <4> QED
        BY <4>1, <4>2
    <3>2. ASSUME NEW d \in Emitters, g \in sending[d].to, sending[d].seq = n, <<d, g>> # <<e, h>>
          PROVE  Pending(g, n)'
      <4>1. g \in sending'[d].to /\ sending'[d].seq = n
        BY <1>4, <3>2 DEF Send, TypeOK
      <4> QED
        BY <4>1 DEF Pending
    <3>3. CASE g = h /\ sending[e].seq = n
      <4>1. buf' = [buf EXCEPT ![h] = Append(@, n)]
        BY <1>4, <3>3 DEF Send
      <4>2. buf'[h] = Append(buf[h], n) /\ buf[h] \in Seq(Seqs)
        BY <4>1 DEF TypeOK
      <4>3. Len(buf'[h]) \in 1..Len(buf'[h]) /\ buf'[h][Len(buf'[h])] = n
        BY <4>2
      <4> QED
        BY <3>3, <4>3 DEF Pending
    <3> QED
      BY <3>1, <3>2, <3>3 DEF Pending
  <2>3. lossy \subseteq lossy'
    BY <1>4 DEF Send
  <2> QED
    BY <2>1, <2>2, <2>3 DEF DeliveryInv, Over
<1>5. CASE Open
  <2> DEFINE g == conn + 1
             after == IF got = <<>> THEN 0 ELSE got[Len(got)]
  <2> USE <1>5 DEF Open, jobVars
  <2>1. g \in Stream
    BY StreamAssumption DEF TypeOK, Stream
  <2>2. UNCHANGED <<status, log, sending, buf, lossy>>
    OBVIOUS
  <2>3. \A h \in Stream \ {g} : handler'[h] = handler[h] /\ maxSeq'[h] = maxSeq[h]
    BY DEF TypeOK
  <2>4. handler'[g] = "open" /\ maxSeq'[g] = Later(after, log)
    BY <2>1 DEF TypeOK
  <2>5. after \in Nat
    <3>1. got \in Seq(Seqs) /\ (got # <<>> => Len(got) \in 1..Len(got))
      BY DEF TypeOK
    <3> QED
      BY <3>1, StreamAssumption, ElementOfSeq DEF Seqs
  <2>6. log <= maxSeq'[g]
    BY <1>0, <2>4, <2>5 DEF Later
  <2>7. \A h \in Stream : handler'[h] = "open" /\ ~Over => h \in subs'
    BY <2>3 DEF DeliveryInv
  <2>8. maxSeq'[g] \in Nat
    BY <1>0, <2>4, <2>5 DEF Later
  <2> QED
    BY <1>0, <2>1, <2>2, <2>3, <2>4, <2>6, <2>7, <2>8 DEF DeliveryInv, Pending, Over
<1>6. ASSUME NEW h \in Stream, Receive(h)
      PROVE  DeliveryInv'
  <2> USE <1>6 DEF Receive, jobVars
  <2>1. UNCHANGED <<status, log, sending, subs, lossy, handler>>
    OBVIOUS
  <2>2. \A g \in Stream \ {h} : maxSeq'[g] = maxSeq[g] /\ buf'[g] = buf[g]
    BY DEF TypeOK
  <2>3. buf[h] \in Seq(Seqs) /\ buf[h] # <<>> /\ buf'[h] = Tail(buf[h])
    BY DEF TypeOK
  <2>4. maxSeq'[h] = Later(maxSeq[h], Head(buf[h])) /\ Head(buf[h]) \in Nat
    <3>1. Head(buf[h]) \in Seqs
      BY <2>3, HeadTailProperties
    <3> QED
      BY <3>1, StreamAssumption DEF TypeOK, Seqs
  <2>5. maxSeq[h] <= maxSeq'[h] /\ Head(buf[h]) <= maxSeq'[h] /\ maxSeq'[h] \in Nat
    BY <1>0, <2>4 DEF Later
  <2>6. ASSUME NEW n \in Nat, maxSeq'[h] < n, Pending(h, n)
        PROVE  Pending(h, n)'
    <3>1. ASSUME NEW i \in 1..Len(buf[h]), buf[h][i] = n
          PROVE  i - 1 \in 1..Len(buf'[h]) /\ buf'[h][i - 1] = n
      <4>1. i # 1
        BY <2>3, <2>4, <2>5, <2>6, <3>1
      <4>2. Len(buf'[h]) = Len(buf[h]) - 1 /\ Len(buf[h]) \in Nat
        BY <2>3, HeadTailProperties, LenProperties
      <4>3. i - 1 \in 1..Len(buf'[h]) /\ (i - 1) + 1 = i
        BY <4>1, <4>2
      <4>4. buf'[h][i - 1] = buf[h][(i - 1) + 1]
        <5> DEFINE b == buf[h]
                   j == i - 1
        <5>1. b \in Seq(Seqs) /\ b # <<>> /\ buf'[h] = Tail(b) /\ j \in 1..Len(Tail(b))
          BY <2>3, <4>3
        <5> HIDE DEF b, j
        <5>2. Tail(b)[j] = b[j + 1]
          BY <5>1, HeadTailProperties
        <5> QED
          BY <5>1, <5>2 DEF b, j
      <4> QED
        BY <3>1, <4>3, <4>4
    <3> QED
      BY <2>1, <2>6, <3>1 DEF Pending
  <2>7. \A n \in Nat : maxSeq'[h] < n => maxSeq[h] < n
    BY <1>0, <2>5
  <2>8. \A g \in Stream \ {h}, n \in Nat : Pending(g, n) => Pending(g, n)'
    BY <2>1, <2>2 DEF Pending
  <2> QED
    BY <1>0, <2>1, <2>2, <2>6, <2>7, <2>8 DEF DeliveryInv, Over
<1>7. ASSUME NEW h \in Stream, ReceiveClosed(h)
      PROVE  DeliveryInv'
  <2>1. Over /\ \A e \in Emitters : sending[e].to = {}
    BY <1>7 DEF ReceiveClosed, CloseInv, Over
  <2>2. \A n \in Nat : ~Pending(h, n)
    BY <1>7, <2>1 DEF ReceiveClosed, Pending
  <2>3. h \notin lossy => maxSeq[h] = log
    BY <1>0, <1>7, <2>2 DEF ReceiveClosed, DeliveryInv, Numbered
  <2> QED
    BY <1>7, <2>1, <2>3 DEF ReceiveClosed, DeliveryInv, Pending, Over, TypeOK, chanVars, jobVars
<1>8. ASSUME NEW h \in Stream, JobDone(h)
      PROVE  DeliveryInv'
  <2>1. maxSeq'[h] = log
    BY <1>0, <1>8 DEF JobDone, Later, TypeOK, Numbered
  <2> QED
    BY <1>8, <2>1, SMTT(30) DEF JobDone, DeliveryInv, Pending, Over, TypeOK, chanVars, jobVars
<1>9. ASSUME NEW h \in Stream, Gone(h)
      PROVE  DeliveryInv'
  BY <1>9, DeliveryFrame DEF Gone, chanVars, jobVars, TypeOK
<1>10. ASSUME NEW h \in Stream, Unsubscribe(h)
       PROVE  DeliveryInv'
  BY <1>10 DEF Unsubscribe, DeliveryInv, Pending, Over, jobVars
<1>11. CASE UNCHANGED <<status, log, sending, subs, buf, lossy, maxSeq, handler>>
  BY <1>11, DeliveryFrame
<1>12. \/ Run \/ Open
       \/ \E f \in BOOLEAN : Finish(f)
       \/ \E e \in Emitters : Emit(e)
       \/ \E e \in Emitters : \E h \in Stream : Send(e, h)
       \/ \E h \in Stream : \/ Receive(h) \/ ReceiveClosed(h) \/ JobDone(h)
                            \/ Gone(h) \/ Unsubscribe(h)
       \/ UNCHANGED <<status, log, sending, subs, buf, lossy, maxSeq, handler>>
  BY Zenon DEF Next, Job, Serve, Leave, Terminated, vars, jobVars, chanVars, Cancel, Show, Lose,
     Reload, Settle, Close
<1> QED
  BY <1>1, <1>2, <1>3, <1>4, <1>5, <1>6, <1>7, <1>8, <1>9, <1>10, <1>11, <1>12

\* A stream that told the page the end has written every event before it, unless
\* its channel overflowed: whatever was logged while its handler was busy, and
\* whichever of the closed channel and job.Done it saw first (streamJob,
\* internal/web/handlers_jobs.go).
THEOREM StreamsEndComplete == Spec => []CompleteUnlessLossy
<1>1. Init => CloseInv /\ DeliveryInv
  BY DEF Init, CloseInv, DeliveryInv, Over
<1>2. DeliveryInv => CompleteUnlessLossy
  BY DEF DeliveryInv, CompleteUnlessLossy
<1>3. IInv => TypeOK /\ Numbered
  BY DEF IInv
<1> QED
  BY <1>1, <1>2, <1>3, InitInv, StepInv, StepClose, StepDelivery, PTL DEF Spec
=============================================================================
