------------------------------ MODULE EventHub ------------------------------
(***************************************************************************)
(* How a page learns what becomes of its query: the coordinator's handlers  *)
(* change the row and call pg_notify, one LISTEN connection hands every     *)
(* notification to QueryEventHub, the hub copies it to the queues of the    *)
(* open event streams, and each stream sends its queue to one page.         *)
(*                                                                         *)
(* The table is the abstract one of QueryLifecycle, which QueryStore        *)
(* implements. A claim, a sweep and mark_worker_unreachable notify inside   *)
(* their transaction, so change and notification commit together; the       *)
(* others notify in a statement of their own after the change was           *)
(* committed. PostgreSQL delivers notifications in commit order, and only   *)
(* to connections that listen at that moment. Their order is kept for each  *)
(* query: nothing depends on the order between queries.                     *)
(***************************************************************************)
EXTENDS QueryLifecycle, Naturals, Sequences

CONSTANTS
    Handler,    \* coordinator coroutines that change rows by one statement
    Page,       \* browser pages, each watching one query
    Faults,     \* the kinds of fault that may happen
    MaxFaults,  \* bound on the faults of a behaviour
    MaxNotices  \* bound on placements, returns and repeated completions

ASSUME HubAssumption ==
    /\ Faults \subseteq {"coordinator", "listener", "connection"}
    /\ MaxFaults \in Nat
    /\ MaxNotices \in Nat
    /\ None \notin QueryId

VARIABLES
    unsent,     \* unsent[h]: the notification that h has yet to send, or Nothing
    wire,       \* wire[q]: statuses of q notified but not yet delivered
    listener,   \* the LISTEN connection: connecting, listening or broken
    phase,      \* phase[p]: where the watching of page p is
    watched,    \* watched[p]: the query page p watches
    row,        \* row[p]: the status its stream handler has read
    queue,      \* queue[p]: the asyncio.Queue of its stream
    shown,      \* shown[p]: the status on the page
    faults,     \* faults so far
    notices     \* placements, returns and repeated completions so far

table == <<status, assigned>>
stream == <<phase, watched, row, queue, shown>>
hubVars == <<table, unsent, wire, listener, stream, faults, notices>>

Waiting == {"pending", "running"}
Notice == [query : QueryId, status : Waiting \cup Outcome]
Nothing == [query |-> None, status |-> "absent"]

HubInit ==
    /\ Init
    /\ unsent = [h \in Handler |-> Nothing]
    /\ wire = [q \in QueryId |-> <<>>]
    /\ listener = "connecting"
    /\ phase = [p \in Page |-> "idle"]
    /\ watched = [p \in Page |-> None]
    /\ row = [p \in Page |-> "absent"]
    /\ queue = [p \in Page |-> <<>>]
    /\ shown = [p \in Page |-> "absent"]
    /\ faults = 0
    /\ notices = 0

Fault(kind) == kind \in Faults /\ faults < MaxFaults /\ faults' = faults + 1
-----------------------------------------------------------------------------
(* Changing the row and notifying *)

\* PostgreSQL drops a notification that nobody listens to.
Send(S, s) ==
    wire' = [q \in QueryId |->
                IF q \in S /\ listener = "listening" THEN Append(wire[q], s) ELSE wire[q]]

Counted == notices < MaxNotices /\ notices' = notices + 1

CreateQuery(q) ==
    /\ Submit(q)
    /\ UNCHANGED <<unsent, wire, listener, stream, faults, notices>>

\* _claim_query: the notification commits with the placement.
ClaimQuery(q, w) ==
    /\ Counted
    /\ Place(q, w)
    /\ Send({q}, "running")
    /\ UNCHANGED <<unsent, listener, stream, faults>>

\* mark_worker_unreachable and sweep_stale_workers.
ReturnLost(S) ==
    /\ S # {} /\ Counted
    /\ Return(S)
    /\ Send(S, "pending")
    /\ UNCHANGED <<unsent, listener, stream, faults>>

\* The handler goes on to notify, but not in the same transaction.
ThenNotify(h, q, s) ==
    /\ unsent[h] = Nothing
    /\ unsent' = [unsent EXCEPT ![h] = [query |-> q, status |-> s]]
    /\ UNCHANGED <<wire, listener, stream, faults>>

RevertQuery(h, q) ==
    /\ Counted
    /\ Return({q})
    /\ ThenNotify(h, q, "pending")

\* complete_query and mark_query_cancelled.
EndQuery(h, q, outcome) ==
    /\ Finish(q, outcome)
    /\ ThenNotify(h, q, outcome)
    /\ UNCHANGED notices

\* Mutant: the row is not compared with what was reported.
NotifyAnyRow(h, q) ==
    /\ Counted
    /\ ThenNotify(h, q, status[q])
    /\ UNCHANGED table

\* A completion that repeats the outcome of the row is notified once more.
EndQueryAgain(h, q) ==
    /\ Counted
    /\ status[q] \in Outcome
    /\ ThenNotify(h, q, status[q])
    /\ UNCHANGED table

Notify(h) ==
    /\ unsent[h] # Nothing
    /\ Send({unsent[h].query}, unsent[h].status)
    /\ unsent' = [unsent EXCEPT ![h] = Nothing]
    /\ UNCHANGED <<table, listener, stream, faults, notices>>
-----------------------------------------------------------------------------
(* The hub and the streams *)

Subscribers(q) == {p \in Page : phase[p] = "open" /\ watched[p] = q}

\* Mutant: only one subscriber gets the notification.
DispatchToOne(q, s) ==
    IF Subscribers(q) = {} THEN UNCHANGED queue
    ELSE queue' = [queue EXCEPT ![CHOOSE p \in Subscribers(q) : TRUE] = Append(@, s)]

\* QueryEventHub.dispatch.
Dispatch(q, s) ==
    queue' = [p \in Page |-> IF p \in Subscribers(q) THEN Append(queue[p], s) ELSE queue[p]]

\* on_notify
Deliver(q) ==
    /\ wire[q] # <<>>
    /\ wire' = [wire EXCEPT ![q] = Tail(@)]
    /\ Dispatch(q, Head(wire[q]))
    /\ UNCHANGED <<table, unsent, listener, phase, watched, row, shown, faults, notices>>

StreamOnly == UNCHANGED <<table, unsent, wire, listener, notices>>

\* watchQuery opens an EventSource for a query that the history called
\* unfinished, or that was just submitted and may even have ended.
WatchQuery(p, q) ==
    /\ phase[p] = "idle" /\ status[q] # "absent"
    /\ phase' = [phase EXCEPT ![p] = "asked"]
    /\ watched' = [watched EXCEPT ![p] = q]
    /\ \E s \in Waiting \cup {status[q]} : shown' = [shown EXCEPT ![p] = s]
    /\ StreamOnly /\ UNCHANGED <<row, queue, faults>>

\* query_events reads the row.
ReadRow(p) ==
    /\ phase[p] = "asked"
    /\ phase' = [phase EXCEPT ![p] = "read"]
    /\ row' = [row EXCEPT ![p] = status[watched[p]]]
    /\ StreamOnly /\ UNCHANGED <<watched, queue, shown, faults>>

\* The page shows s; a final status ends the stream and the watching.
Show(p, s) ==
    /\ shown' = [shown EXCEPT ![p] = s]
    /\ phase' = [phase EXCEPT ![p] = IF s \in Outcome THEN "ended" ELSE "open"]

\* Mutant: a row that is final already opens no stream.
SubscribeUnfinished(p) ==
    /\ phase[p] = "read" /\ row[p] \in Waiting
    /\ Show(p, row[p])
    /\ StreamOnly /\ UNCHANGED <<watched, row, queue, faults>>

\* Only then does event_stream subscribe; it sends the row as it was read.
Subscribe(p) ==
    /\ phase[p] = "read"
    /\ Show(p, row[p])
    /\ StreamOnly /\ UNCHANGED <<watched, row, queue, faults>>

\* Mutant: any event ends the stream.
SendEventAndEnd(p) ==
    /\ phase[p] = "open" /\ queue[p] # <<>>
    /\ shown' = [shown EXCEPT ![p] = Head(queue[p])]
    /\ phase' = [phase EXCEPT ![p] = "ended"]
    /\ queue' = [queue EXCEPT ![p] = Tail(@)]
    /\ StreamOnly /\ UNCHANGED <<watched, row, faults>>

SendEvent(p) ==
    /\ phase[p] = "open" /\ queue[p] # <<>>
    /\ Show(p, Head(queue[p]))
    /\ queue' = [queue EXCEPT ![p] = Tail(@)]
    /\ StreamOnly /\ UNCHANGED <<watched, row, faults>>

Streaming == {"asked", "read", "open"}

\* The streams of P end and their queues with them.
Break(P) ==
    /\ phase' = [p \in Page |-> IF p \in P /\ phase[p] \in Streaming THEN "lost" ELSE phase[p]]
    /\ queue' = [p \in Page |-> IF p \in P /\ phase[p] \in Streaming THEN <<>> ELSE queue[p]]
    /\ UNCHANGED <<watched, row, shown>>

ConnectionBreaks(p) ==
    /\ Fault("connection")
    /\ phase[p] \in Streaming
    /\ Break({p})
    /\ StreamOnly

\* source.onerror asks for the row once and does not watch again: an
\* unfinished query stays on the page as it is. The question may fail, or be
\* left out after a cancellation that failed.
AskOnce(p) ==
    /\ phase[p] = "lost"
    /\ \/ /\ shown' = [shown EXCEPT ![p] = status[watched[p]]]
          /\ phase' = [phase EXCEPT ![p] =
                 IF status[watched[p]] \in Outcome THEN "ended" ELSE "silent"]
       \/ phase' = [phase EXCEPT ![p] = "failed"] /\ UNCHANGED shown
    /\ StreamOnly /\ UNCHANGED <<watched, row, queue, faults>>

\* The listen task connects while the coordinator already serves.
Listen ==
    /\ listener = "connecting"
    /\ listener' = "listening"
    /\ UNCHANGED <<table, unsent, wire, stream, faults, notices>>

\* The LISTEN connection breaks; postgres_listen_loop waits for stop_event
\* and notices nothing.
ListenerBreaks ==
    /\ Fault("listener")
    /\ listener = "listening"
    /\ listener' = "broken"
    /\ wire' = [q \in QueryId |-> <<>>]
    /\ UNCHANGED <<table, unsent, stream, notices>>

\* A new coordinator listens to what is notified from some time on.
CoordinatorRestarts ==
    /\ Fault("coordinator")
    /\ unsent' = [h \in Handler |-> Nothing]
    /\ wire' = [q \in QueryId |-> <<>>]
    /\ listener' = "connecting"
    /\ Break(Page)
    /\ UNCHANGED <<table, notices>>
-----------------------------------------------------------------------------
TableStep ==
    \/ \E q \in QueryId : CreateQuery(q)
    \/ \E q \in QueryId, w \in Worker : ClaimQuery(q, w)
    \/ \E S \in SUBSET QueryId : ReturnLost(S)
    \/ \E h \in Handler, q \in QueryId : RevertQuery(h, q) \/ EndQueryAgain(h, q)
    \/ \E h \in Handler, q \in QueryId, outcome \in Outcome : EndQuery(h, q, outcome)

StreamStep(p) == ReadRow(p) \/ Subscribe(p) \/ SendEvent(p) \/ AskOnce(p)

HubNext ==
    \/ TableStep
    \/ \E h \in Handler : Notify(h)
    \/ \E q \in QueryId : Deliver(q)
    \/ \E p \in Page, q \in QueryId : WatchQuery(p, q)
    \/ \E p \in Page : StreamStep(p) \/ ConnectionBreaks(p)
    \/ Listen
    \/ ListenerBreaks
    \/ CoordinatorRestarts

HubSpec == HubInit /\ [][HubNext]_hubVars

\* The event loop runs what is ready: a handler that has changed a row goes on
\* to notify, and notifications and streams are served. Nobody has to submit,
\* place, finish or watch a query.
FairHubSpec ==
    /\ HubSpec
    /\ \A h \in Handler : WF_hubVars(Notify(h))
    /\ WF_hubVars(Listen)
    /\ \A q \in QueryId : WF_hubVars(Deliver(q))
    /\ \A p \in Page : WF_hubVars(StreamStep(p))
-----------------------------------------------------------------------------
(* Properties *)

\* Notifications, queues and pages hold what their code can put there.
HubTypeOK ==
    /\ status \in [QueryId -> {"absent"} \cup Waiting \cup Outcome]
    /\ assigned \in [QueryId -> Worker \cup {None}]
    /\ unsent \in [Handler -> Notice \cup {Nothing}]
    /\ wire \in [QueryId -> Seq(Waiting \cup Outcome)]
    /\ listener \in {"connecting", "listening", "broken"}
    /\ phase \in [Page -> {"idle", "asked", "read", "open", "ended", "lost", "silent", "failed"}]
    /\ watched \in [Page -> QueryId \cup {None}]
    /\ row \in [Page -> {"absent"} \cup Waiting \cup Outcome]
    /\ queue \in [Page -> Seq(Waiting \cup Outcome)]
    /\ shown \in [Page -> {"absent"} \cup Waiting \cup Outcome]
    /\ faults \in 0 .. MaxFaults
    /\ notices \in 0 .. MaxNotices
    /\ \A p \in Page : watched[p] = None <=> phase[p] = "idle"

\* A page shows an outcome only if it is the row's, and an open stream never
\* goes on after it; it ends for no other reason than an outcome: neither the
\* stale row it was sent first, nor notifications that were overtaken by a
\* later change, nor those of other queries mislead the page.
ShownIsFinal ==
    \A p \in Page :
        /\ phase[p] = "ended" => shown[p] \in Outcome
        /\ shown[p] \in Outcome =>
             /\ phase[p] \notin {"idle", "open", "silent"}
             /\ shown[p] = status[watched[p]]

\* The end of the query that p watches is still on its way to p.
EndUnderWay(p) ==
    LET q == watched[p]
    IN  \/ \E h \in Handler : unsent[h].query = q /\ unsent[h].status \in Outcome
        \/ \E i \in DOMAIN wire[q] : wire[q][i] \in Outcome
        \/ \E i \in DOMAIN queue[p] : queue[p][i] \in Outcome

\* The query is over, but the stream of p goes on and nothing will end it.
Untold(p) == phase[p] = "open" /\ status[watched[p]] \in Outcome /\ ~EndUnderWay(p)

\* An open stream misses the end of its query in three ways only: the end was
\* delivered after query_events had read the row and before event_stream
\* subscribed; the LISTEN connection broke; or the end was notified while
\* nobody listened. That most handlers commit first and notify later, and that
\* notifications overtake each other, loses nothing.
ThreeWaysToMissTheEnd ==
    [][\A p \in Page : Untold(p)' /\ ~Untold(p) =>
          \/ Subscribe(p) /\ row[p] \in Waiting
          \/ ListenerBreaks
          \/ listener # "listening" /\ \E h \in Handler : Notify(h)]_hubVars

QueryOver(p) == phase[p] # "idle" /\ status[watched[p]] \in Outcome

\* README.md:74 promises a stream of the query's status. Once the query is over
\* every page that watches it shows its end, or that it could not learn it,
\* unless its stream missed the end, or broke before the end: onerror asks for
\* the row once, and a page that is told 'running' then never asks again.
PageLearnsOrMissed ==
    \A p \in Page :
        QueryOver(p) ~> phase[p] \in {"ended", "failed", "silent"} \/ Untold(p)
=============================================================================
