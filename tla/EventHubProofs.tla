--------------------------- MODULE EventHubProofs ---------------------------
(***************************************************************************)
(* Machine-checked proofs about EventHub: what a page shows as final is     *)
(* final, for any number of queries, pages and handlers and any faults.     *)
(***************************************************************************)
EXTENDS EventHub, TLAPS

AnyStatus == {"absent"} \cup Waiting \cup Outcome

\* What is on its way about the end of a query is true: a notification nobody
\* has sent yet, one on the wire, a row a stream has read and a queue.
Truthful ==
    /\ \A h \in Handler :
         unsent[h].status \in Outcome => status[unsent[h].query] = unsent[h].status
    /\ \A q \in QueryId : \A i \in 1 .. Len(wire[q]) :
         wire[q][i] \in Outcome => wire[q][i] = status[q]
    /\ \A p \in Page :
         phase[p] = "read" /\ row[p] \in Outcome => row[p] = status[watched[p]]
    /\ \A p \in Page : \A i \in 1 .. Len(queue[p]) :
         phase[p] = "open" /\ queue[p][i] \in Outcome => queue[p][i] = status[watched[p]]
    /\ \A p \in Page : phase[p] \in {"idle", "asked", "read"} => queue[p] = <<>>

HubInv == HubTypeOK /\ Truthful /\ ShownIsFinal

\* Only the table steps change a row, and none changes a finished one.
LEMMA TableKeepsOutcomes ==
    ASSUME HubTypeOK, TableStep
    PROVE  \A q \in QueryId : status[q] \in Outcome => status'[q] = status[q]
  <1> USE DEF HubTypeOK, Outcome
  <1>1. CASE \E q \in QueryId : CreateQuery(q)
    BY <1>1 DEF CreateQuery, Submit
  <1>2. CASE \E q \in QueryId, w \in Worker : ClaimQuery(q, w)
    BY <1>2 DEF ClaimQuery, Place
  <1>3. CASE \E S \in SUBSET QueryId : ReturnLost(S)
    BY <1>3 DEF ReturnLost, Return
  <1>4. CASE \E h \in Handler, q \in QueryId : RevertQuery(h, q) \/ EndQueryAgain(h, q)
    BY <1>4 DEF RevertQuery, EndQueryAgain, Return, table
  <1>5. CASE \E h \in Handler, q \in QueryId, outcome \in Outcome : EndQuery(h, q, outcome)
    BY <1>5 DEF EndQuery, Finish
  <1> QED
    BY <1>1, <1>2, <1>3, <1>4, <1>5 DEF TableStep

LEMMA HubInitInv == HubInit => HubInv
  BY HubAssumption
     DEF HubInit, Init, HubInv, HubTypeOK, Truthful, ShownIsFinal, Nothing, Waiting, Outcome, Notice

\* What the handlers write, and what the streams and the faults write.
Written ==
    /\ status \in [QueryId -> AnyStatus]
    /\ assigned \in [QueryId -> Worker \cup {None}]
    /\ unsent \in [Handler -> Notice \cup {Nothing}]
    /\ wire \in [QueryId -> Seq(Waiting \cup Outcome)]
    /\ notices \in 0 .. MaxNotices

Streamed ==
    /\ phase \in [Page -> {"idle", "asked", "read", "open", "ended", "lost", "silent", "failed"}]
    /\ watched \in [Page -> QueryId \cup {None}]
    /\ row \in [Page -> AnyStatus]
    /\ queue \in [Page -> Seq(Waiting \cup Outcome)]
    /\ shown \in [Page -> AnyStatus]
    /\ \A p \in Page : watched[p] = None <=> phase[p] = "idle"

Connected ==
    /\ listener \in {"connecting", "listening", "broken"}
    /\ faults \in 0 .. MaxFaults

LEMMA TypeParts == HubTypeOK <=> Written /\ Streamed /\ Connected
  BY DEF HubTypeOK, Written, Streamed, Connected, AnyStatus

LEMMA SendTypeOK ==
    ASSUME Written, NEW S, NEW s \in Waiting \cup Outcome, Send(S, s)
    PROVE  wire' \in [QueryId -> Seq(Waiting \cup Outcome)]
  BY DEF Written, Send

LEMMA TableStepWritten ==
    ASSUME Written, TableStep
    PROVE  Written'
  <1> USE HubAssumption DEF Written
  <1>0. /\ {"pending", "running"} \subseteq Waiting \cup Outcome
        /\ Waiting \cup Outcome \subseteq AnyStatus
        /\ Outcome \subseteq AnyStatus
    BY DEF Waiting, AnyStatus
  <1>1. CASE \E q \in QueryId : CreateQuery(q)
    BY <1>0, <1>1 DEF CreateQuery, Submit
  <1>2. CASE \E q \in QueryId, w \in Worker : ClaimQuery(q, w)
    <2> PICK q \in QueryId, w \in Worker : ClaimQuery(q, w)
      BY <1>2
    <2>1. wire' \in [QueryId -> Seq(Waiting \cup Outcome)]
      BY <1>0, SendTypeOK DEF ClaimQuery
    <2>2. status' \in [QueryId -> AnyStatus]
      BY <1>0 DEF ClaimQuery, Place
    <2>3. assigned' \in [QueryId -> Worker \cup {None}]
      BY DEF ClaimQuery, Place
    <2>4. notices' \in 0 .. MaxNotices
      BY DEF ClaimQuery, Counted
    <2> QED
      BY <2>1, <2>2, <2>3, <2>4 DEF ClaimQuery
  <1>3. CASE \E S \in SUBSET QueryId : ReturnLost(S)
    <2> PICK S \in SUBSET QueryId : ReturnLost(S)
      BY <1>3
    <2>1. wire' \in [QueryId -> Seq(Waiting \cup Outcome)]
      BY <1>0, SendTypeOK DEF ReturnLost
    <2> QED
      BY <1>0, <2>1 DEF ReturnLost, Return, Counted
  <1>4. CASE \E h \in Handler, q \in QueryId : RevertQuery(h, q) \/ EndQueryAgain(h, q)
    <2> PICK h \in Handler, q \in QueryId : RevertQuery(h, q) \/ EndQueryAgain(h, q)
      BY <1>4
    <2>1. CASE RevertQuery(h, q)
      BY <1>0, <2>1 DEF RevertQuery, Return, ThenNotify, Counted, Notice
    <2>2. CASE EndQueryAgain(h, q)
      BY <2>2 DEF EndQueryAgain, ThenNotify, Counted, Notice, table
    <2> QED
      BY <2>1, <2>2
  <1>5. CASE \E h \in Handler, q \in QueryId, outcome \in Outcome : EndQuery(h, q, outcome)
    BY <1>0, <1>5 DEF EndQuery, Finish, ThenNotify, Notice
  <1> QED
    BY <1>1, <1>2, <1>3, <1>4, <1>5 DEF TableStep

LEMMA TableStepFrame ==
    ASSUME TableStep
    PROVE  UNCHANGED <<listener, stream, faults>>
  BY DEF TableStep, CreateQuery, ClaimQuery, ReturnLost, RevertQuery, EndQueryAgain, EndQuery,
         ThenNotify

LEMMA TableStepTypeOK ==
    ASSUME HubTypeOK, TableStep
    PROVE  HubTypeOK'
  <1>1. Written'
    BY TypeParts, TableStepWritten
  <1>2. Streamed' /\ Connected'
    BY TypeParts, TableStepFrame DEF Streamed, Connected, stream
  <1> QED
    BY <1>1, <1>2 DEF HubTypeOK, Written, Streamed, Connected, AnyStatus

LEMMA NotifyTypeOK ==
    ASSUME HubTypeOK, NEW h \in Handler, Notify(h)
    PROVE  HubTypeOK'
  <1>1. unsent[h] \in Notice
    BY DEF HubTypeOK, Notify
  <1>2. Written'
    BY <1>1, TypeParts, SendTypeOK DEF Notify, Written, Notice, table
  <1>3. Streamed' /\ Connected'
    BY TypeParts DEF Notify, Streamed, Connected, stream
  <1> QED
    BY <1>2, <1>3 DEF HubTypeOK, Written, Streamed, Connected, AnyStatus

LEMMA DeliverTypeOK ==
    ASSUME HubTypeOK, NEW q \in QueryId, Deliver(q)
    PROVE  HubTypeOK'
  <1>1. Head(wire[q]) \in Waiting \cup Outcome /\ Tail(wire[q]) \in Seq(Waiting \cup Outcome)
    BY DEF HubTypeOK, Deliver
  <1>2. Written'
    BY <1>1, TypeParts DEF Deliver, Written, table
  <1>3. queue' \in [Page -> Seq(Waiting \cup Outcome)]
    BY <1>1 DEF HubTypeOK, Deliver, Dispatch
  <1>4. Streamed' /\ Connected'
    BY <1>3, TypeParts DEF Deliver, Streamed, Connected
  <1> QED
    BY <1>2, <1>4 DEF HubTypeOK, Written, Streamed, Connected, AnyStatus

\* The steps that belong to one page.
LEMMA PageTypeOK ==
    ASSUME HubTypeOK, NEW p \in Page,
           StreamStep(p) \/ ConnectionBreaks(p) \/ \E q \in QueryId : WatchQuery(p, q)
    PROVE  HubTypeOK'
  <1>0. Waiting \cup Outcome \subseteq AnyStatus
    BY DEF AnyStatus
  <1>1. Written' /\ listener' = listener
    BY TypeParts
       DEF StreamStep, ReadRow, Subscribe, SendEvent, AskOnce, ConnectionBreaks, WatchQuery,
           StreamOnly, Written, table
  <1>2. Connected'
    <2>1. faults' \in 0 .. MaxFaults
      BY HubAssumption
         DEF HubTypeOK, StreamStep, ReadRow, Subscribe, SendEvent, AskOnce, ConnectionBreaks,
             WatchQuery, Fault
    <2> QED
      BY <1>1, <2>1, TypeParts DEF Connected
  <1>3. Streamed'
    <2> USE TypeParts, HubAssumption DEF Streamed
    <2>1. CASE ReadRow(p)
      BY <2>1 DEF ReadRow, Written
    <2>2. CASE Subscribe(p)
      BY <2>2 DEF Subscribe, Show
    <2>3. CASE SendEvent(p)
      <3>1. Head(queue[p]) \in Waiting \cup Outcome /\ Tail(queue[p]) \in Seq(Waiting \cup Outcome)
        BY <2>3 DEF SendEvent
      <3> QED
        BY <1>0, <2>3, <3>1 DEF SendEvent, Show
    <2>4. CASE AskOnce(p)
      BY <2>4 DEF AskOnce, Written
    <2>5. CASE ConnectionBreaks(p)
      BY <2>5 DEF ConnectionBreaks, Break, Streaming
    <2>6. CASE \E q \in QueryId : WatchQuery(p, q)
      BY <1>0, <2>6 DEF WatchQuery, Written
    <2> QED
      BY <2>1, <2>2, <2>3, <2>4, <2>5, <2>6 DEF StreamStep
  <1> QED
    BY <1>1, <1>2, <1>3 DEF HubTypeOK, Written, Streamed, Connected, AnyStatus

LEMMA ProcessTypeOK ==
    ASSUME HubTypeOK, Listen \/ ListenerBreaks \/ CoordinatorRestarts
    PROVE  HubTypeOK'
  <1> USE HubAssumption DEF HubTypeOK
  <1>1. CASE Listen
    BY <1>1 DEF Listen, stream, table
  <1>2. CASE ListenerBreaks
    BY <1>2 DEF ListenerBreaks, Fault, stream, table
  <1>3. CASE CoordinatorRestarts
    BY <1>3 DEF CoordinatorRestarts, Fault, Break, Streaming, table
  <1> QED
    BY <1>1, <1>2, <1>3

LEMMA NextHubTypeOK == HubTypeOK /\ [HubNext]_hubVars => HubTypeOK'
  <1> SUFFICES ASSUME HubTypeOK, [HubNext]_hubVars PROVE HubTypeOK'
    OBVIOUS
  <1>1. CASE UNCHANGED hubVars
    BY <1>1 DEF HubTypeOK, hubVars, stream, table
  <1>2. CASE HubNext
    BY <1>2, TableStepTypeOK, NotifyTypeOK, DeliverTypeOK, PageTypeOK, ProcessTypeOK DEF HubNext
  <1> QED
    BY <1>1, <1>2

(***************************************************************************)
(* Truth of what is on its way.                                             *)
(***************************************************************************)

\* Handlers: what they are about to send.
UnsentTrue ==
    \A h \in Handler :
        unsent[h].status \in Outcome => status[unsent[h].query] = unsent[h].status

WireTrue ==
    \A q \in QueryId : \A i \in 1 .. Len(wire[q]) :
        wire[q][i] \in Outcome => wire[q][i] = status[q]

\* What one page has been told or is about to be told.
PageTrue(p) ==
    /\ phase[p] = "read" /\ row[p] \in Outcome => row[p] = status[watched[p]]
    /\ \A i \in 1 .. Len(queue[p]) :
         phase[p] = "open" /\ queue[p][i] \in Outcome => queue[p][i] = status[watched[p]]
    /\ phase[p] \in {"idle", "asked", "read"} => queue[p] = <<>>
    /\ phase[p] = "ended" => shown[p] \in Outcome
    /\ shown[p] \in Outcome =>
         /\ phase[p] \notin {"idle", "open", "silent"}
         /\ shown[p] = status[watched[p]]

LEMMA TruthParts ==
    Truthful /\ ShownIsFinal <=> UnsentTrue /\ WireTrue /\ \A p \in Page : PageTrue(p)
  BY DEF Truthful, ShownIsFinal, UnsentTrue, WireTrue, PageTrue

\* An appended status that is no outcome, or the right one, does no harm.
LEMMA AppendTrue ==
    ASSUME NEW S, NEW old \in Seq(S), NEW s \in S, NEW final,
           \A i \in 1 .. Len(old) : old[i] \in Outcome => old[i] = final,
           s \in Outcome => s = final
    PROVE  \A i \in 1 .. Len(Append(old, s)) :
               Append(old, s)[i] \in Outcome => Append(old, s)[i] = final
  OBVIOUS

LEMMA TailTrue ==
    ASSUME NEW S, NEW old \in Seq(S), NEW final, old # <<>>,
           \A i \in 1 .. Len(old) : old[i] \in Outcome => old[i] = final
    PROVE  /\ Head(old) \in Outcome => Head(old) = final
           /\ \A i \in 1 .. Len(Tail(old)) :
                Tail(old)[i] \in Outcome => Tail(old)[i] = final
  OBVIOUS

\* Pages are none the wiser for a change of the table.
LEMMA TableStepPages ==
    ASSUME HubTypeOK, NEW p \in Page, PageTrue(p), TableStep
    PROVE  PageTrue(p)'
  <1>1. \A q \in QueryId : status[q] \in Outcome => status'[q] = status[q]
    BY TableKeepsOutcomes
  <1>2. UNCHANGED <<phase, watched, row, queue, shown>>
    BY TableStepFrame DEF stream
  <1>3. watched[p] \in QueryId \/ phase[p] = "idle"
    BY DEF HubTypeOK
  <1>4. shown[p] \in Outcome => shown'[p] = status'[watched'[p]]
    BY <1>1, <1>2, <1>3 DEF PageTrue
  <1>5. phase[p] = "read" /\ row[p] \in Outcome => row'[p] = status'[watched'[p]]
    BY <1>1, <1>2, <1>3 DEF PageTrue
  <1>6. \A i \in 1 .. Len(queue[p]) :
          phase[p] = "open" /\ queue[p][i] \in Outcome => queue'[p][i] = status'[watched'[p]]
    BY <1>1, <1>2, <1>3 DEF PageTrue
  <1> QED
    BY <1>2, <1>4, <1>5, <1>6 DEF PageTrue

LEMMA WaitingIsNoOutcome == \A s \in Waiting : s \notin Outcome
  BY DEF Waiting, Outcome

LEMMA SendTrue ==
    ASSUME HubTypeOK, WireTrue, NEW S \in SUBSET QueryId, NEW s \in Waiting \cup Outcome, Send(S, s),
           \A q \in QueryId : status[q] \in Outcome => status'[q] = status[q],
           \A q \in S : s \in Outcome => s = status'[q]
    PROVE  WireTrue'
  <1> SUFFICES ASSUME NEW q \in QueryId
               PROVE  \A i \in 1 .. Len(wire'[q]) :
                          wire'[q][i] \in Outcome => wire'[q][i] = status'[q]
    BY DEF WireTrue
  <1>1. wire[q] \in Seq(Waiting \cup Outcome)
    BY DEF HubTypeOK
  <1>2. \A i \in 1 .. Len(wire[q]) : wire[q][i] \in Outcome => wire[q][i] = status'[q]
    BY DEF WireTrue
  <1>3. wire'[q] = wire[q] \/ (q \in S /\ wire'[q] = Append(wire[q], s))
    BY DEF Send
  <1> QED
    BY <1>1, <1>2, <1>3, AppendTrue

LEMMA TableStepUnsent ==
    ASSUME HubTypeOK, UnsentTrue, TableStep
    PROVE  UnsentTrue'
  <1>1. \A q \in QueryId : status[q] \in Outcome => status'[q] = status[q]
    BY TableKeepsOutcomes
  <1>2. \A h \in Handler : unsent[h].status \in Outcome => unsent[h].query \in QueryId
    BY DEF HubTypeOK, Notice, Nothing, Outcome
  <1>3. \A h \in Handler :
          unsent[h].status \in Outcome => status'[unsent[h].query] = unsent[h].status
    BY <1>1, <1>2 DEF UnsentTrue
  <1>4. CASE UNCHANGED unsent
    BY <1>3, <1>4 DEF UnsentTrue
  <1>5. CASE \E h \in Handler, q \in QueryId, s \in Waiting \cup Outcome :
               /\ unsent' = [unsent EXCEPT ![h] = [query |-> q, status |-> s]]
               /\ s \in Outcome => s = status'[q]
    <2> PICK h \in Handler, q \in QueryId, s \in Waiting \cup Outcome :
               /\ unsent' = [unsent EXCEPT ![h] = [query |-> q, status |-> s]]
               /\ s \in Outcome => s = status'[q]
      BY <1>5
    <2>1. unsent'[h] = [query |-> q, status |-> s]
      BY DEF HubTypeOK
    <2>2. \A g \in Handler : g # h => unsent'[g] = unsent[g]
      BY DEF HubTypeOK
    <2> QED
      BY <1>3, <2>1, <2>2 DEF UnsentTrue
  <1>6. ASSUME NEW h \in Handler, NEW q \in QueryId, RevertQuery(h, q)
        PROVE  UnsentTrue'
    BY <1>5, <1>6, WaitingIsNoOutcome DEF RevertQuery, ThenNotify, Waiting
  <1>7. ASSUME NEW h \in Handler, NEW q \in QueryId, EndQueryAgain(h, q)
        PROVE  UnsentTrue'
    BY <1>5, <1>7 DEF EndQueryAgain, ThenNotify, table
  <1>8. ASSUME NEW h \in Handler, NEW q \in QueryId, NEW outcome \in Outcome,
               EndQuery(h, q, outcome)
        PROVE  UnsentTrue'
    <2>1. status'[q] = outcome
      BY <1>8 DEF EndQuery, Finish, HubTypeOK
    <2> QED
      BY <1>5, <1>8, <2>1 DEF EndQuery, ThenNotify
  <1> QED
    BY <1>4, <1>6, <1>7, <1>8 DEF TableStep, CreateQuery, ClaimQuery, ReturnLost

LEMMA TableStepWire ==
    ASSUME HubTypeOK, WireTrue, TableStep
    PROVE  WireTrue'
  <1>1. \A q \in QueryId : status[q] \in Outcome => status'[q] = status[q]
    BY TableKeepsOutcomes
  <1>2. ASSUME UNCHANGED wire
        PROVE  WireTrue'
    BY <1>1, <1>2 DEF WireTrue
  <1>3. ASSUME NEW S \in SUBSET QueryId, NEW s \in Waiting, Send(S, s)
        PROVE  WireTrue'
    BY <1>1, <1>3, SendTrue, WaitingIsNoOutcome
  <1>4. \/ UNCHANGED wire
        \/ \E S \in SUBSET QueryId, s \in Waiting : Send(S, s)
    <2>1. ASSUME NEW q \in QueryId, NEW w \in Worker, ClaimQuery(q, w)
          PROVE  \E S \in SUBSET QueryId, s \in Waiting : Send(S, s)
      <3>1. {q} \in SUBSET QueryId /\ "running" \in Waiting /\ Send({q}, "running")
        BY <2>1 DEF ClaimQuery, Waiting
      <3> QED
        BY <3>1
    <2>2. ASSUME NEW S \in SUBSET QueryId, ReturnLost(S)
          PROVE  \E T \in SUBSET QueryId, s \in Waiting : Send(T, s)
      <3>1. "pending" \in Waiting /\ Send(S, "pending")
        BY <2>2 DEF ReturnLost, Waiting
      <3> QED
        BY <3>1
    <2> QED
      BY <2>1, <2>2 DEF TableStep, CreateQuery, RevertQuery, EndQueryAgain, EndQuery, ThenNotify
  <1> QED
    BY <1>2, <1>3, <1>4

\* A notice keeps its truth when it goes onto the wire.
LEMMA NotifyTrue ==
    ASSUME HubTypeOK, UnsentTrue, WireTrue, NEW h \in Handler, Notify(h)
    PROVE  UnsentTrue' /\ WireTrue'
  <1>1. unsent[h] \in Notice
    BY DEF HubTypeOK, Notify
  <1>2. WireTrue'
    BY <1>1, SendTrue DEF Notify, UnsentTrue, Notice, table
  <1>3. UnsentTrue'
    BY DEF Notify, UnsentTrue, HubTypeOK, Nothing, Outcome, table
  <1> QED
    BY <1>2, <1>3

LEMMA DeliverTrue ==
    ASSUME HubTypeOK, WireTrue, NEW q \in QueryId, Deliver(q)
    PROVE  WireTrue' /\ \A p \in Page : PageTrue(p) => PageTrue(p)'
  <1>1. wire[q] \in Seq(Waiting \cup Outcome) /\ wire[q] # <<>>
    BY DEF HubTypeOK, Deliver
  <1>2. \A i \in 1 .. Len(wire[q]) : wire[q][i] \in Outcome => wire[q][i] = status[q]
    BY DEF WireTrue
  <1>3. /\ Head(wire[q]) \in Waiting \cup Outcome
        /\ Head(wire[q]) \in Outcome => Head(wire[q]) = status[q]
        /\ \A i \in 1 .. Len(Tail(wire[q])) :
             Tail(wire[q])[i] \in Outcome => Tail(wire[q])[i] = status[q]
    BY <1>1, <1>2, TailTrue
  <1>4. WireTrue'
    BY <1>3 DEF Deliver, WireTrue, HubTypeOK, table
  <1>5. ASSUME NEW p \in Page, PageTrue(p)
        PROVE  PageTrue(p)'
    <2>1. UNCHANGED <<status, phase, watched, row, shown>>
      BY DEF Deliver, table
    <2>2. CASE p \notin Subscribers(q)
      BY <1>5, <2>1, <2>2 DEF PageTrue, Deliver, Dispatch
    <2>3. CASE p \in Subscribers(q)
      <3>1. phase[p] = "open" /\ watched[p] = q
        BY <2>3 DEF Subscribers
      <3>2. queue'[p] = Append(queue[p], Head(wire[q]))
        BY <2>3 DEF Deliver, Dispatch
      <3>3. queue[p] \in Seq(Waiting \cup Outcome)
        BY DEF HubTypeOK
      <3>4. \A i \in 1 .. Len(queue[p]) : queue[p][i] \in Outcome => queue[p][i] = status[q]
        BY <1>5, <3>1 DEF PageTrue
      <3>5. \A i \in 1 .. Len(queue'[p]) : queue'[p][i] \in Outcome => queue'[p][i] = status[q]
        BY <1>3, <3>2, <3>3, <3>4, AppendTrue
      <3> QED
        BY <1>5, <2>1, <3>1, <3>5 DEF PageTrue
    <2> QED
      BY <2>2, <2>3
  <1> QED
    BY <1>4, <1>5

\* A page that is not concerned stays as it is.
LEMMA OtherPage ==
    ASSUME NEW p \in Page, PageTrue(p), UNCHANGED status,
           phase'[p] = phase[p], watched'[p] = watched[p], row'[p] = row[p],
           queue'[p] = queue[p], shown'[p] = shown[p]
    PROVE  PageTrue(p)'
  BY DEF PageTrue

\* A page whose stream was cut has an empty queue and shows what it showed.
LEMMA BrokenPage ==
    ASSUME HubTypeOK, NEW P, Break(P), UNCHANGED status, NEW p \in Page, PageTrue(p)
    PROVE  PageTrue(p)'
  <1>1. CASE p \in P /\ phase[p] \in Streaming
    BY <1>1 DEF Break, PageTrue, Streaming
  <1>2. CASE ~(p \in P /\ phase[p] \in Streaming)
    BY <1>2, OtherPage DEF Break
  <1> QED
    BY <1>1, <1>2

LEMMA PageStepTrue ==
    ASSUME HubTypeOK, NEW p \in Page, NEW o \in Page, PageTrue(p), PageTrue(o),
           StreamStep(p) \/ ConnectionBreaks(p) \/ \E q \in QueryId : WatchQuery(p, q)
    PROVE  PageTrue(o)'
  <1>0. UNCHANGED status
    BY DEF StreamStep, ReadRow, Subscribe, SendEvent, AskOnce, ConnectionBreaks, WatchQuery,
           StreamOnly, table
  <1>1. CASE ConnectionBreaks(p)
    BY <1>0, <1>1, BrokenPage DEF ConnectionBreaks
  <1>2. CASE o # p /\ ~ConnectionBreaks(p)
    <2>1. /\ phase'[o] = phase[o] /\ watched'[o] = watched[o] /\ row'[o] = row[o]
          /\ queue'[o] = queue[o] /\ shown'[o] = shown[o]
      BY <1>2
         DEF HubTypeOK, StreamStep, ReadRow, Subscribe, SendEvent, AskOnce, WatchQuery, Show
    <2> QED
      BY <1>0, <2>1, OtherPage
  <1>3. ASSUME o = p, NEW q \in QueryId, WatchQuery(p, q)
        PROVE  PageTrue(p)'
    <2>1. /\ phase'[p] = "asked" /\ queue'[p] = <<>> /\ watched'[p] = q
          /\ shown'[p] \in Waiting \cup {status[q]}
      BY <1>3 DEF WatchQuery, PageTrue, HubTypeOK
    <2> QED
      BY <1>0, <2>1, WaitingIsNoOutcome DEF PageTrue
  <1>4. ASSUME o = p, ReadRow(p)
        PROVE  PageTrue(p)'
    <2>1. /\ phase[p] = "asked" /\ phase'[p] = "read" /\ row'[p] = status[watched[p]]
          /\ UNCHANGED <<watched, queue, shown>>
      BY <1>4 DEF ReadRow, HubTypeOK
    <2> QED
      BY <1>0, <2>1 DEF PageTrue
  <1>5. ASSUME o = p, Subscribe(p)
        PROVE  PageTrue(p)'
    <2>1. /\ phase[p] = "read" /\ shown'[p] = row[p]
          /\ phase'[p] = IF row[p] \in Outcome THEN "ended" ELSE "open"
          /\ UNCHANGED <<watched, row, queue>>
      BY <1>5 DEF Subscribe, Show, HubTypeOK
    <2>2. queue[p] = <<>>
      BY <2>1 DEF PageTrue
    <2>3. queue'[p] = <<>>
      BY <2>1, <2>2
    <2> QED
      BY <1>0, <2>1, <2>3 DEF PageTrue
  <1>6. ASSUME o = p, SendEvent(p)
        PROVE  PageTrue(p)'
    <2>1. /\ phase[p] = "open" /\ queue[p] # <<>>
          /\ shown'[p] = Head(queue[p]) /\ queue'[p] = Tail(queue[p])
          /\ phase'[p] = IF Head(queue[p]) \in Outcome THEN "ended" ELSE "open"
          /\ UNCHANGED <<watched, row>>
      BY <1>6 DEF SendEvent, Show, HubTypeOK
    <2>2. queue[p] \in Seq(Waiting \cup Outcome)
      BY DEF HubTypeOK
    <2>3. \A i \in 1 .. Len(queue[p]) :
            queue[p][i] \in Outcome => queue[p][i] = status[watched[p]]
      BY <2>1 DEF PageTrue
    <2>4. /\ Head(queue[p]) \in Outcome => Head(queue[p]) = status[watched[p]]
          /\ \A i \in 1 .. Len(Tail(queue[p])) :
               Tail(queue[p])[i] \in Outcome => Tail(queue[p])[i] = status[watched[p]]
      BY <2>1, <2>2, <2>3, TailTrue
    <2> QED
      BY <1>0, <2>1, <2>4 DEF PageTrue
  <1>7. ASSUME o = p, AskOnce(p)
        PROVE  PageTrue(p)'
    <2>1. phase[p] = "lost" /\ UNCHANGED <<watched, row, queue>>
      BY <1>7 DEF AskOnce
    <2>2. \/ /\ shown'[p] = status[watched[p]]
             /\ phase'[p] = IF status[watched[p]] \in Outcome THEN "ended" ELSE "silent"
          \/ phase'[p] = "failed" /\ shown'[p] = shown[p]
      BY <1>7 DEF AskOnce, HubTypeOK
    <2> QED
      BY <1>0, <2>1, <2>2 DEF PageTrue
  <1> QED
    BY <1>1, <1>2, <1>3, <1>4, <1>5, <1>6, <1>7 DEF StreamStep

LEMMA ProcessTrue ==
    ASSUME HubTypeOK, UnsentTrue, WireTrue, Listen \/ ListenerBreaks \/ CoordinatorRestarts
    PROVE  UnsentTrue' /\ WireTrue' /\ \A p \in Page : PageTrue(p) => PageTrue(p)'
  <1>0. UNCHANGED status
    BY DEF Listen, ListenerBreaks, CoordinatorRestarts, table
  <1>1. UnsentTrue'
    BY DEF Listen, ListenerBreaks, CoordinatorRestarts, UnsentTrue, Nothing, Outcome, table
  <1>2. WireTrue'
    BY <1>0 DEF Listen, ListenerBreaks, CoordinatorRestarts, WireTrue
  <1>3. ASSUME NEW p \in Page, PageTrue(p)
        PROVE  PageTrue(p)'
    <2>1. CASE UNCHANGED stream
      BY <1>0, <1>3, <2>1, OtherPage DEF stream
    <2>2. CASE CoordinatorRestarts
      BY <1>0, <1>3, <2>2, BrokenPage DEF CoordinatorRestarts
    <2> QED
      BY <2>1, <2>2 DEF Listen, ListenerBreaks
  <1> QED
    BY <1>1, <1>2, <1>3

LEMMA NextTruthful ==
    ASSUME HubInv, [HubNext]_hubVars
    PROVE  Truthful' /\ ShownIsFinal'
  <1>0. HubTypeOK /\ UnsentTrue /\ WireTrue /\ \A p \in Page : PageTrue(p)
    BY TruthParts DEF HubInv
  <1>1. ASSUME UNCHANGED hubVars
        PROVE  UnsentTrue' /\ WireTrue' /\ \A p \in Page : PageTrue(p)'
    BY <1>0, <1>1, OtherPage DEF hubVars, table, stream, UnsentTrue, WireTrue
  <1>2. ASSUME TableStep
        PROVE  UnsentTrue' /\ WireTrue' /\ \A p \in Page : PageTrue(p)'
    BY <1>0, <1>2, TableStepUnsent, TableStepWire, TableStepPages
  <1>3. ASSUME NEW h \in Handler, Notify(h)
        PROVE  UnsentTrue' /\ WireTrue' /\ \A p \in Page : PageTrue(p)'
    BY <1>0, <1>3, NotifyTrue, OtherPage DEF Notify, table, stream
  <1>4. ASSUME NEW q \in QueryId, Deliver(q)
        PROVE  UnsentTrue' /\ WireTrue' /\ \A p \in Page : PageTrue(p)'
    BY <1>0, <1>4, DeliverTrue DEF Deliver, UnsentTrue, table
  <1>5. ASSUME NEW p \in Page,
               StreamStep(p) \/ ConnectionBreaks(p) \/ \E q \in QueryId : WatchQuery(p, q)
        PROVE  UnsentTrue' /\ WireTrue' /\ \A o \in Page : PageTrue(o)'
    <2>1. UNCHANGED <<status, unsent, wire>>
      BY <1>5 DEF StreamStep, ReadRow, Subscribe, SendEvent, AskOnce, ConnectionBreaks,
                  WatchQuery, StreamOnly, table
    <2> QED
      BY <1>0, <1>5, <2>1, PageStepTrue DEF UnsentTrue, WireTrue
  <1>6. ASSUME Listen \/ ListenerBreaks \/ CoordinatorRestarts
        PROVE  UnsentTrue' /\ WireTrue' /\ \A p \in Page : PageTrue(p)'
    BY <1>0, <1>6, ProcessTrue
  <1>7. UnsentTrue' /\ WireTrue' /\ \A p \in Page : PageTrue(p)'
    BY <1>1, <1>2, <1>3, <1>4, <1>5, <1>6 DEF HubNext
  <1> QED
    BY <1>7 DEF Truthful, ShownIsFinal, UnsentTrue, WireTrue, PageTrue

LEMMA HubInvariant == HubSpec => []HubInv
  <1>1. HubInv /\ [HubNext]_hubVars => HubInv'
    BY NextHubTypeOK, NextTruthful DEF HubInv
  <1> QED
    BY HubInitInv, <1>1, PTL DEF HubSpec

(***************************************************************************)
(* How an open stream may miss the end of its query. Whoever ends a query   *)
(* leaves the end with the handler, the handler gives it to the wire, the   *)
(* wire to the queue of every open stream and the queue to the page: each   *)
(* step passes it on, but for the three ways.                               *)
(***************************************************************************)

\* A watched query exists, and so does the row a stream has read.
Present ==
    \A p \in Page : /\ phase[p] # "idle" => status[watched[p]] # "absent"
                    /\ phase[p] = "read" => row[p] # "absent"

Ends(s) == \E i \in DOMAIN s : s[i] \in Outcome

LEMMA AppendEnds ==
    ASSUME NEW S, NEW old \in Seq(S), NEW s \in S
    PROVE  Ends(Append(old, s)) <=> Ends(old) \/ s \in Outcome
  <1>1. /\ Append(old, s) \in Seq(S) /\ Len(Append(old, s)) = Len(old) + 1
        /\ DOMAIN Append(old, s) = 1 .. (Len(old) + 1) /\ DOMAIN old = 1 .. Len(old)
        /\ Append(old, s)[Len(old) + 1] = s
        /\ \A i \in 1 .. Len(old) : Append(old, s)[i] = old[i]
    OBVIOUS
  <1>2. Len(old) \in Nat
    OBVIOUS
  <1> QED
    BY <1>1, <1>2 DEF Ends

LEMMA TailEnds ==
    ASSUME NEW S, NEW old \in Seq(S), old # <<>>
    PROVE  Ends(old) <=> Head(old) \in Outcome \/ Ends(Tail(old))
  <1>1. /\ Len(old) \in Nat /\ Len(old) > 0
        /\ DOMAIN old = 1 .. Len(old) /\ DOMAIN Tail(old) = 1 .. (Len(old) - 1)
        /\ Head(old) = old[1]
        /\ \A i \in 1 .. (Len(old) - 1) : Tail(old)[i] = old[i + 1]
    OBVIOUS
  <1>2. \A i \in 1 .. Len(old) : i = 1 \/ i - 1 \in 1 .. (Len(old) - 1)
    BY <1>1
  <1>3. \A i \in 1 .. Len(old) : i = 1 \/ Tail(old)[i - 1] = old[i]
    BY <1>1, <1>2
  <1>4. \A i \in 1 .. (Len(old) - 1) : i + 1 \in 1 .. Len(old)
    BY <1>1
  <1>5. ASSUME Ends(old) PROVE Head(old) \in Outcome \/ Ends(Tail(old))
    BY <1>1, <1>2, <1>3, <1>5 DEF Ends
  <1>6. ASSUME Ends(Tail(old)) PROVE Ends(old)
    BY <1>1, <1>4, <1>6 DEF Ends
  <1>7. ASSUME Head(old) \in Outcome PROVE Ends(old)
    BY <1>1, <1>7 DEF Ends
  <1> QED
    BY <1>5, <1>6, <1>7

LEMMA TableKeepsPresent ==
    ASSUME HubTypeOK, TableStep
    PROVE  \A q \in QueryId : status[q] # "absent" => status'[q] # "absent"
  <1> USE DEF HubTypeOK, Outcome
  <1>1. CASE \E q \in QueryId : CreateQuery(q)
    BY <1>1 DEF CreateQuery, Submit
  <1>2. CASE \E q \in QueryId, w \in Worker : ClaimQuery(q, w)
    BY <1>2 DEF ClaimQuery, Place
  <1>3. CASE \E S \in SUBSET QueryId : ReturnLost(S)
    BY <1>3 DEF ReturnLost, Return
  <1>4. CASE \E h \in Handler, q \in QueryId : RevertQuery(h, q) \/ EndQueryAgain(h, q)
    BY <1>4 DEF RevertQuery, EndQueryAgain, Return, table
  <1>5. CASE \E h \in Handler, q \in QueryId, outcome \in Outcome : EndQuery(h, q, outcome)
    BY <1>5 DEF EndQuery, Finish
  <1> QED
    BY <1>1, <1>2, <1>3, <1>4, <1>5 DEF TableStep

LEMMA StepPresent ==
    ASSUME HubTypeOK, Present, [HubNext]_hubVars
    PROVE  Present'
  <1> USE DEF Present, HubTypeOK
  <1>1. CASE TableStep
    <2>1. UNCHANGED <<phase, watched, row>>
      BY <1>1, TableStepFrame DEF stream
    <2>2. \A p \in Page : phase[p] # "idle" => watched[p] \in QueryId
      OBVIOUS
    <2> QED
      BY <1>1, <2>1, <2>2, TableKeepsPresent
  <1>2. CASE \/ UNCHANGED hubVars \/ Listen \/ ListenerBreaks
             \/ \E h \in Handler : Notify(h)
             \/ \E q \in QueryId : Deliver(q)
    <2>1. UNCHANGED <<status, phase, watched, row>>
      BY <1>2 DEF hubVars, table, stream, Listen, ListenerBreaks, Notify, Deliver
    <2> QED
      BY <2>1
  <1>3. CASE CoordinatorRestarts \/ \E p \in Page : ConnectionBreaks(p)
    <2>1. UNCHANGED <<status, watched, row>>
      BY <1>3 DEF CoordinatorRestarts, ConnectionBreaks, Break, StreamOnly, table
    <2>2. \A p \in Page : phase'[p] \in {phase[p], "lost"} /\ (phase'[p] = "lost" => phase[p] # "idle")
      BY <1>3 DEF CoordinatorRestarts, ConnectionBreaks, Break, Streaming
    <2> QED
      BY <2>1, <2>2
  <1>4. ASSUME NEW p \in Page, NEW q \in QueryId, WatchQuery(p, q)
        PROVE  Present'
    BY <1>4 DEF WatchQuery, StreamOnly, table
  <1>5. ASSUME NEW p \in Page, StreamStep(p)
        PROVE  Present'
    <2>1. UNCHANGED <<status, watched>> /\ phase[p] # "idle"
      BY <1>5 DEF StreamStep, ReadRow, Subscribe, SendEvent, AskOnce, StreamOnly, table
    <2>2. \A o \in Page : o # p => phase'[o] = phase[o] /\ row'[o] = row[o]
      BY <1>5 DEF StreamStep, ReadRow, Subscribe, SendEvent, AskOnce, Show
    <2>3. phase'[p] = "read" => row'[p] = status[watched[p]]
      BY <1>5 DEF StreamStep, ReadRow, Subscribe, SendEvent, AskOnce, Show
    <2> QED
      BY <2>1, <2>2, <2>3
  <1> QED
    BY <1>1, <1>2, <1>3, <1>4, <1>5 DEF HubNext

\* Whoever ends a query has its notification to send.
LEMMA TableStepTold ==
    ASSUME HubTypeOK, TableStep, NEW p \in Page, Untold(p)'
    PROVE  Untold(p)
  <1> PICK q : q = watched[p]
    OBVIOUS
  <1>1. UNCHANGED <<listener, phase, watched, queue>> /\ phase[p] = "open" /\ q \in QueryId
    BY TableStepFrame DEF stream, Untold, HubTypeOK
  <1>2. \A h \in Handler : unsent[h].status \in Outcome => unsent'[h] = unsent[h]
    <2>1. \A h \in Handler : unsent[h] = Nothing => unsent[h].status \notin Outcome
      BY DEF Nothing, Outcome
    <2> QED
      BY <2>1 DEF TableStep, CreateQuery, ClaimQuery, ReturnLost, RevertQuery, EndQueryAgain, EndQuery,
                  ThenNotify, HubTypeOK
  <1>3. Ends(wire[q]) => Ends(wire'[q])
    <2>1. wire[q] \in Seq(Waiting \cup Outcome) /\ {"pending", "running"} \subseteq Waiting \cup Outcome
      BY <1>1 DEF HubTypeOK, Waiting
    <2>2. \/ wire'[q] = wire[q]
          \/ \E s \in Waiting \cup Outcome : wire'[q] = Append(wire[q], s)
      BY <1>1, <2>1 DEF TableStep, CreateQuery, ClaimQuery, ReturnLost, RevertQuery, EndQueryAgain, EndQuery,
                        ThenNotify, Send
    <2> QED
      BY <2>1, <2>2, AppendEnds
  <1>4. ~EndUnderWay(p)
    BY <1>1, <1>2, <1>3 DEF Untold, EndUnderWay, Ends
  <1>5. status'[q] \in Outcome /\ \A h \in Handler : ~(unsent'[h].query = q /\ unsent'[h].status \in Outcome)
    BY <1>1 DEF Untold, EndUnderWay
  <1>6. status[q] \in Outcome
    <2> SUFFICES ASSUME status[q] \notin Outcome PROVE FALSE
      OBVIOUS
    <2> USE <1>1, <1>5 DEF HubTypeOK
    <2>1. ~\E d \in QueryId : CreateQuery(d)
      BY DEF CreateQuery, Submit, Outcome
    <2>2. ~\E d \in QueryId, w \in Worker : ClaimQuery(d, w)
      BY DEF ClaimQuery, Place, Outcome
    <2>3. ~\E S \in SUBSET QueryId : ReturnLost(S)
      BY DEF ReturnLost, Return, Outcome
    <2>4. ~\E h \in Handler, d \in QueryId : RevertQuery(h, d) \/ EndQueryAgain(h, d)
      BY DEF RevertQuery, EndQueryAgain, Return, Outcome, table
    <2>5. ASSUME NEW h \in Handler, NEW d \in QueryId, NEW outcome \in Outcome, EndQuery(h, d, outcome)
          PROVE  FALSE
      <3>1. d = q /\ unsent'[h] = [query |-> d, status |-> outcome]
        BY <2>5 DEF EndQuery, Finish, ThenNotify
      <3>2. unsent'[h].query = q /\ unsent'[h].status = outcome
        BY <3>1
      <3> QED
        BY <3>2
    <2> QED
      BY <2>1, <2>2, <2>3, <2>4, <2>5 DEF TableStep
  <1> QED
    BY <1>1, <1>4, <1>6 DEF Untold

\* What a handler notifies is on the wire while somebody listens.
LEMMA NotifyTold ==
    ASSUME HubTypeOK, NEW h \in Handler, Notify(h), listener = "listening", NEW p \in Page, Untold(p)'
    PROVE  Untold(p)
  <1> PICK q : q = watched[p]
    OBVIOUS
  <1>1. UNCHANGED <<status, phase, watched, queue>> /\ phase[p] = "open" /\ q \in QueryId
    BY DEF Notify, table, stream, Untold, HubTypeOK
  <1>2. /\ unsent[h] \in Notice
        /\ unsent' = [unsent EXCEPT ![h] = Nothing]
    BY DEF Notify, HubTypeOK
  <1>3. unsent[h].query = q => wire'[q] = Append(wire[q], unsent[h].status)
    BY <1>1 DEF Notify, Send
  <1>4. unsent[h].query # q => wire'[q] = wire[q]
    BY <1>1 DEF Notify, Send
  <1>5. wire[q] \in Seq(Waiting \cup Outcome) /\ unsent[h].status \in Waiting \cup Outcome
    BY <1>1, <1>2 DEF HubTypeOK, Notice
  <1>6. Ends(wire'[q]) <=> Ends(wire[q]) \/ (unsent[h].query = q /\ unsent[h].status \in Outcome)
    BY <1>3, <1>4, <1>5, AppendEnds
  <1>7. \A g \in Handler : g # h => unsent'[g] = unsent[g]
    BY <1>2 DEF HubTypeOK
  <1>8. ~EndUnderWay(p)
    <2>1. ~Ends(wire'[q]) /\ ~Ends(queue[p])
      BY <1>1 DEF Untold, EndUnderWay, Ends
    <2>2. \A g \in Handler : ~(unsent[g].query = q /\ unsent[g].status \in Outcome)
      BY <1>1, <1>6, <1>7, <2>1 DEF Untold, EndUnderWay
    <2> QED
      BY <1>6, <2>1, <2>2 DEF EndUnderWay, Ends
  <1> QED
    BY <1>1, <1>8 DEF Untold

\* What is delivered is in the queue of every open stream.
LEMMA DeliverTold ==
    ASSUME HubTypeOK, NEW d \in QueryId, Deliver(d), NEW p \in Page, Untold(p)'
    PROVE  Untold(p)
  <1> PICK q : q = watched[p]
    OBVIOUS
  <1>1. UNCHANGED <<status, phase, watched, unsent>> /\ phase[p] = "open" /\ q \in QueryId
    BY DEF Deliver, table, stream, Untold, HubTypeOK
  <1>2. /\ wire[q] \in Seq(Waiting \cup Outcome) /\ queue[p] \in Seq(Waiting \cup Outcome)
        /\ ~Ends(wire'[q]) /\ ~Ends(queue'[p])
    BY <1>1 DEF HubTypeOK, Untold, EndUnderWay, Ends
  <1>3. ~Ends(wire[q]) /\ ~Ends(queue[p])
    <2>1. CASE d = q
      <3>1. /\ wire[q] # <<>> /\ wire'[q] = Tail(wire[q])
            /\ queue'[p] = Append(queue[p], Head(wire[q]))
        BY <1>1, <2>1 DEF Deliver, Dispatch, Subscribers, HubTypeOK
      <3>2. Head(wire[q]) \in Waiting \cup Outcome
        BY <1>2, <3>1
      <3>3. ~Ends(queue[p]) /\ Head(wire[q]) \notin Outcome
        BY <1>2, <3>1, <3>2, AppendEnds
      <3> QED
        BY <1>2, <3>1, <3>3, TailEnds
    <2>2. CASE d # q
      <3>1. wire'[q] = wire[q] /\ queue'[p] = queue[p]
        BY <1>1, <2>2 DEF Deliver, Dispatch, Subscribers, HubTypeOK
      <3> QED
        BY <1>2, <3>1
    <2> QED
      BY <2>1, <2>2
  <1> QED
    BY <1>1, <1>3 DEF Untold, EndUnderWay, Ends

LEMMA SameTold ==
    ASSUME NEW p \in Page, Untold(p)', UNCHANGED <<status, unsent, wire>>,
           phase'[p] = phase[p], watched'[p] = watched[p], queue'[p] = queue[p]
    PROVE  Untold(p)
  BY DEF Untold, EndUnderWay

\* A page is told the end that its queue holds, and reads as final what is.
LEMMA PageTold ==
    ASSUME HubTypeOK, Present, NEW o \in Page,
           StreamStep(o) \/ ConnectionBreaks(o) \/ \E q \in QueryId : WatchQuery(o, q),
           NEW p \in Page, Untold(p)', ~(Subscribe(p) /\ row[p] \in Waiting)
    PROVE  Untold(p)
  <1>1. UNCHANGED <<status, unsent, wire>>
    BY DEF StreamStep, ReadRow, Subscribe, SendEvent, AskOnce, ConnectionBreaks, WatchQuery,
           StreamOnly, table
  <1>2. phase'[p] = "open"
    BY DEF Untold
  <1>3. CASE o # p
    <2>1. phase'[p] = phase[p] /\ watched'[p] = watched[p] /\ queue'[p] = queue[p]
      BY <1>3 DEF HubTypeOK, StreamStep, ReadRow, Subscribe, SendEvent, AskOnce, ConnectionBreaks,
                  Break, WatchQuery, Show
    <2> QED
      BY <1>1, <2>1, SameTold
  <1>4. CASE o = p
    <2>1. SendEvent(p)
      <3>1. ~(ReadRow(p) \/ AskOnce(p) \/ \E q \in QueryId : WatchQuery(p, q))
        BY <1>2 DEF ReadRow, AskOnce, WatchQuery, HubTypeOK
      <3>2. ~ConnectionBreaks(p)
        BY <1>2 DEF ConnectionBreaks, Break, HubTypeOK
      <3>3. ~Subscribe(p)
        <4> SUFFICES ASSUME Subscribe(p) PROVE row[p] \in Waiting
          OBVIOUS
        <4>1. row[p] \notin Outcome
          BY <1>2 DEF Subscribe, Show, HubTypeOK
        <4>2. row[p] # "absent"
          BY DEF Subscribe, Present
        <4> QED
          BY <4>1, <4>2 DEF HubTypeOK
      <3> QED
        BY <1>4, <3>1, <3>2, <3>3 DEF StreamStep
    <2>2. /\ phase[p] = "open" /\ queue[p] # <<>> /\ queue'[p] = Tail(queue[p])
          /\ watched'[p] = watched[p] /\ Head(queue[p]) \notin Outcome
          /\ queue[p] \in Seq(Waiting \cup Outcome)
      BY <1>2, <2>1 DEF SendEvent, Show, HubTypeOK
    <2>3. ~Ends(queue[p])
      <3>1. ~Ends(queue'[p])
        BY DEF Untold, EndUnderWay, Ends
      <3> QED
        BY <2>2, <3>1, TailEnds
    <2> QED
      BY <1>1, <2>2, <2>3 DEF Untold, EndUnderWay, Ends
  <1> QED
    BY <1>3, <1>4

LEMMA StepTold ==
    ASSUME HubTypeOK, Present, [HubNext]_hubVars, NEW p \in Page, Untold(p)', ~Untold(p)
    PROVE  \/ Subscribe(p) /\ row[p] \in Waiting
           \/ ListenerBreaks
           \/ listener # "listening" /\ \E h \in Handler : Notify(h)
  <1>1. ~TableStep
    BY TableStepTold
  <1>2. ~\E q \in QueryId : Deliver(q)
    BY DeliverTold
  <1>3. ~(UNCHANGED hubVars \/ Listen)
    BY SameTold DEF hubVars, table, stream, Listen
  <1>4. ~CoordinatorRestarts
    BY DEF CoordinatorRestarts, Break, Streaming, Untold
  <1>5. ASSUME NEW h \in Handler, Notify(h)
        PROVE  listener # "listening"
    BY <1>5, NotifyTold
  <1>6. ASSUME NEW o \in Page,
               StreamStep(o) \/ ConnectionBreaks(o) \/ \E q \in QueryId : WatchQuery(o, q)
        PROVE  Subscribe(p) /\ row[p] \in Waiting
    BY <1>6, PageTold
  <1> QED
    BY <1>1, <1>2, <1>3, <1>4, <1>5, <1>6 DEF HubNext

(***************************************************************************)
(* Results.                                                                 *)
(***************************************************************************)

\* Notifications, queues and pages stay well formed.
THEOREM HubTypeCorrect == HubSpec => []HubTypeOK
  BY HubInvariant, PTL DEF HubInv

\* Whatever is delayed, lost, repeated or overtaken, a page that shows an
\* outcome shows the outcome of its query, and only then has it stopped
\* watching for good.
THEOREM ShownFinality == HubSpec => []ShownIsFinal
  BY HubInvariant, PTL DEF HubInv

\* An open stream misses the end of its query in the three ways only: that
\* handlers commit before they notify, and that notifications and rows overtake
\* each other, loses nothing, with any number of handlers, pages and queries.
THEOREM EndsAreMissedInThreeWays == HubSpec => ThreeWaysToMissTheEnd
  <1>1. HubInit => Present
    BY DEF HubInit, Present
  <1>2. HubInv /\ Present /\ [HubNext]_hubVars => Present'
    BY StepPresent DEF HubInv
  <1>3. HubInv /\ Present /\ [HubNext]_hubVars =>
          [\A p \in Page : Untold(p)' /\ ~Untold(p) =>
              \/ Subscribe(p) /\ row[p] \in Waiting
              \/ ListenerBreaks
              \/ listener # "listening" /\ \E h \in Handler : Notify(h)]_hubVars
    BY StepTold DEF HubInv
  <1> QED
    BY <1>1, <1>2, <1>3, HubInvariant, PTL DEF HubSpec, ThreeWaysToMissTheEnd

\* The hub's table moves along the abstract life cycle, which the system's
\* tables implement, and in no other way.
THEOREM HubFollowsLifecycle == HubSpec => Spec
  <1>1. HubInit => Init
    BY DEF HubInit
  <1>2. ASSUME TableStep PROVE Next \/ UNCHANGED vars
    <2>1. CASE \E q \in QueryId : CreateQuery(q)
      BY <2>1 DEF CreateQuery, Next
    <2>2. CASE \E q \in QueryId, w \in Worker : ClaimQuery(q, w)
      BY <2>2 DEF ClaimQuery, Next
    <2>3. CASE \E S \in SUBSET QueryId : ReturnLost(S)
      BY <2>3 DEF ReturnLost, Next
    <2>4. CASE \E h \in Handler, q \in QueryId : RevertQuery(h, q) \/ EndQueryAgain(h, q)
      <3>1. CASE \E h \in Handler, q \in QueryId : RevertQuery(h, q)
        <4> PICK q \in QueryId : Return({q})
          BY <3>1 DEF RevertQuery
        <4> QED
          BY DEF Next
      <3>2. CASE \E h \in Handler, q \in QueryId : EndQueryAgain(h, q)
        BY <3>2 DEF EndQueryAgain, table, vars
      <3> QED
        BY <2>4, <3>1, <3>2
    <2>5. CASE \E h \in Handler, q \in QueryId, outcome \in Outcome : EndQuery(h, q, outcome)
      BY <2>5 DEF EndQuery, Next
    <2> QED
      BY <1>2, <2>1, <2>2, <2>3, <2>4, <2>5 DEF TableStep
  <1>3. [HubNext]_hubVars => [Next]_vars
    <2> SUFFICES ASSUME [HubNext]_hubVars, ~TableStep PROVE UNCHANGED vars
      BY <1>2
    <2> QED
      BY DEF HubNext, hubVars, table, vars, Notify, Deliver, WatchQuery, StreamStep, ReadRow, Subscribe,
             SendEvent, AskOnce, ConnectionBreaks, StreamOnly, Listen, ListenerBreaks,
             CoordinatorRestarts
  <1> QED
    BY <1>1, <1>3, PTL DEF HubSpec, Spec
=============================================================================
