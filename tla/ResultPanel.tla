---------------------------- MODULE ResultPanel ----------------------------
(***************************************************************************)
(* The part of static/index.html that runs queries, watches them and shows  *)
(* their results. The page has one current query, one page offset, one      *)
(* event stream and one button that says Run or Cancel; every handler that  *)
(* calls the coordinator becomes a job, which continues when its answer     *)
(* arrives, whatever the page shows by then.                                *)
(*                                                                         *)
(* Results come through the coordinator from the worker's ResultReader: a   *)
(* job that loads a page is a reader. Offsets are counted in pages. Of the  *)
(* query the table tells whether it has ended, and how (waiting and running *)
(* are the same to the page, and so are failed and cancelled).              *)
(***************************************************************************)
EXTENDS PageUser, ResultReader, FiniteSets

CONSTANTS
    Pages,      \* Pages[q]: how many pages the result of q has, 0 without one
    MaxJobs,    \* bound on the calls under way at a time
    MaxBreaks   \* bound on broken streams, lost calls and lost results

Slot == 1 .. MaxJobs

ASSUME PanelAssumption ==
    /\ Slot \subseteq Reader
    /\ Pages \in [QueryId -> Nat]
    /\ MaxJobs \in Nat
    /\ MaxBreaks \in Nat

VARIABLES
    status,     \* status[q]: absent, unfinished, completed or failed
    current,    \* currentQueryId
    offset,     \* resultOffset
    button,     \* what the button offers: run, cancel, or nothing (disabled)
    running,    \* queryRunning, which a disabled button leaves as it was
    source,     \* the query whose event stream is open, or None
    view,       \* the table or message in the panel
    jobs,       \* jobs[k]: the k-th handler that waits for an answer
    missed,     \* whether a page failed to load since a first page was shown
    breaks      \* faults so far

page == <<current, offset, button, running, source>>
panel == <<view, missed>>
panelVars == <<user, readerVars, status, page, panel, jobs, breaks>>

NoJob == [kind |-> "none", query |-> None, reply |-> "none"]
Job(kind, q) == [kind |-> kind, query |-> q, reply |-> "none"]

Message(q) == [kind |-> "message", of |-> q, columns |-> q, offset |-> 0, label |-> 0]

PanelInit ==
    /\ UserInit
    /\ ReaderInit
    /\ status = [q \in QueryId |-> "absent"]
    /\ current = None
    /\ offset = 0
    /\ button = "run"
    /\ running = FALSE
    /\ source = None
    /\ view = Message(None)
    /\ jobs = [k \in Slot |-> NoJob]
    /\ missed = FALSE
    /\ breaks = 0

Over(q) == status[q] \in {"completed", "failed"}
HasResult(q) == status[q] = "completed" /\ Pages[q] > 0

FreeSlots == {k \in Slot : jobs[k] = NoJob}
FreeSlot == CHOOSE k \in FreeSlots : TRUE

Put(k, job) == jobs' = [jobs EXCEPT ![k] = job]
End(k) == Put(k, NoJob)
Reply(k, r) == jobs' = [jobs EXCEPT ![k].reply = r]

\* Something a click led to is under way.
Busy == \E k \in Slot : jobs[k] # NoJob

Click == Input /\ SlipIf(Busy) /\ FreeSlots # {}

Break == breaks < MaxBreaks /\ breaks' = breaks + 1

\* setRunButtonMode
SetRunButtonMode(mode) ==
    /\ button' = mode
    /\ running' = IF mode = "disabled" THEN running ELSE mode = "cancel"

\* loadResultPage for q as the current query, at page o.
LoadResultPage(k, kind, q, o) ==
    /\ Put(k, Job(kind, q))
    /\ Ask(k, q, o)
-----------------------------------------------------------------------------
(* Clicks *)

\* There are as many queries as QueryId has room for.
RoomForQuery ==
    Cardinality({k \in Slot : jobs[k].kind = "submit" /\ jobs[k].query = None})
        < Cardinality({q \in QueryId : status[q] = "absent"})

\* runQuery, up to its call.
RunQuery ==
    /\ button = "run" /\ ~running /\ RoomForQuery
    /\ Click
    /\ source' = None
    /\ current' = None
    /\ view' = Message(None)
    /\ SetRunButtonMode("disabled")
    /\ Put(FreeSlot, Job("submit", None))
    /\ UNCHANGED <<readerVars, status, offset, missed, breaks>>

\* cancelQuery, up to its call.
CancelQuery ==
    /\ button = "cancel" /\ running /\ current # None
    /\ Click
    /\ SetRunButtonMode("disabled")
    /\ Put(FreeSlot, Job("cancel", current))
    /\ UNCHANGED <<readerVars, status, current, offset, source, panel, breaks>>

\* Mutant of OpenHistoryQuery: the stream of the query that was watched goes on.
OpenHistoryKeepingSource(q, s) ==
    /\ Click
    /\ current' = q
    /\ IF s = "unfinished"
       THEN /\ source' = q /\ view' = Message(q) /\ SetRunButtonMode("cancel")
            /\ UNCHANGED <<readerVars, offset, jobs>>
       ELSE /\ SetRunButtonMode("run")
            /\ IF s = "completed" /\ Pages[q] > 0
               THEN /\ offset' = 0 /\ LoadResultPage(FreeSlot, "history", q, 0)
                    /\ UNCHANGED view
               ELSE view' = Message(q) /\ UNCHANGED <<readerVars, offset, jobs>>
            /\ UNCHANGED source
    /\ UNCHANGED <<status, missed, breaks>>

\* openHistoryQuery: s is the status the query was listed with.
OpenHistoryQuery(q, s) ==
    /\ Click
    /\ current' = q
    /\ IF s = "unfinished"
       THEN /\ source' = q /\ view' = Message(q) /\ SetRunButtonMode("cancel")
            /\ UNCHANGED <<readerVars, offset, jobs>>
       ELSE /\ source' = None /\ SetRunButtonMode("run")
            /\ IF s = "completed" /\ Pages[q] > 0
               THEN /\ offset' = 0 /\ LoadResultPage(FreeSlot, "history", q, 0)
                    /\ UNCHANGED view
               ELSE view' = Message(q) /\ UNCHANGED <<readerVars, offset, jobs>>
    /\ UNCHANGED <<status, missed, breaks>>

\* The pager of the table that is shown, as it was set up with that table.
HasPrevious == view.kind = "table" /\ Pages[view.of] > 1 /\ view.label > 0
HasNext == view.kind = "table" /\ Pages[view.of] > 1 /\ view.label + 1 < Pages[view.of]

\* Mutant of TurnPage: the offset is not kept from falling below 0.
TurnPageBelow ==
    /\ Click
    /\ \/ HasPrevious /\ offset' = offset - 1
       \/ HasNext /\ offset' = offset + 1
    /\ \/ current # None /\ LoadResultPage(FreeSlot, "pager", current, offset')
       \/ current = None /\ UNCHANGED <<readerVars, jobs>>
    /\ UNCHANGED <<status, current, button, running, source, panel, breaks>>

TurnPage ==
    /\ Click
    /\ \/ HasPrevious /\ offset' = IF offset = 0 THEN 0 ELSE offset - 1
       \/ HasNext /\ offset' = offset + 1
    /\ \/ current # None /\ LoadResultPage(FreeSlot, "pager", current, offset')
       \/ current = None /\ UNCHANGED <<readerVars, jobs>>
    /\ UNCHANGED <<status, current, button, running, source, panel, breaks>>
-----------------------------------------------------------------------------
(* The coordinator and the worker *)

ServerOnly == UNCHANGED <<user, page, panel>>

EndQuery(q) ==
    /\ status[q] = "unfinished"
    /\ \E s \in {"completed", "failed"} : status' = [status EXCEPT ![q] = s]
    /\ UNCHANGED <<readerVars, jobs, breaks>> /\ ServerOnly

Calls(k, kind) == jobs[k].kind = kind /\ jobs[k].reply = "none"

CreateQuery(k) ==
    /\ Calls(k, "submit")
    /\ \E q \in QueryId :
         /\ status[q] = "absent" /\ \A p \in QueryId : status[p] = "absent" => q <= p
         /\ status' = [status EXCEPT ![q] = "unfinished"]
         /\ jobs' = [jobs EXCEPT ![k].query = q, ![k].reply = "ok"]
    /\ UNCHANGED <<readerVars, breaks>> /\ ServerOnly

\* A query that is over is no error, but one that ends meanwhile is (409);
\* otherwise it is cancelled by the time of the answer.
ServeCancel(k) ==
    LET q == jobs[k].query
    IN  /\ Calls(k, "cancel")
        /\ \/ Over(q) /\ (Reply(k, "ok") \/ Reply(k, "error")) /\ UNCHANGED status
           \/ ~Over(q) /\ Reply(k, "ok") /\ status' = [status EXCEPT ![q] = "failed"]
        /\ UNCHANGED <<readerVars, breaks>> /\ ServerOnly

ServeAsk(k) ==
    /\ Calls(k, "ask")
    /\ Reply(k, status[jobs[k].query])
    /\ UNCHANGED <<readerVars, status, breaks>> /\ ServerOnly

\* get_query_result asks the worker only for a completed query with rows.
ServePage(r) ==
    /\ \/ ReadStep(r) /\ (reading[r].of # Catalog => HasResult(reading[r].of))
       \/ reading[r].of \in QueryId /\ ~HasResult(reading[r].of) /\ ReadFails(r)
    /\ UNCHANGED <<status, jobs, breaks>> /\ ServerOnly

\* The result is gone, or the worker.
ResultLost(r) ==
    /\ Break
    /\ ReadFails(r)
    /\ UNCHANGED <<status, jobs>> /\ ServerOnly

\* Somebody looks at the catalog.
ReadCatalog(r) ==
    /\ \/ Introspect(r)
       \/ reading[r].of = Catalog /\ Use(r)
    /\ UNCHANGED <<status, jobs, breaks>> /\ ServerOnly

\* A call that is not a page's, or its answer, is lost.
CallLost(k) ==
    /\ jobs[k].kind \in {"submit", "cancel", "ask"} /\ jobs[k].reply # "error"
    /\ Break
    /\ Reply(k, "error")
    /\ UNCHANGED <<readerVars, status>> /\ ServerOnly
-----------------------------------------------------------------------------
(* Answers and events *)

\* watchQuery
Submitted(k) ==
    /\ jobs[k].kind = "submit" /\ jobs[k].reply = "ok"
    /\ current' = jobs[k].query
    /\ source' = jobs[k].query
    /\ SetRunButtonMode("cancel")
    /\ End(k)
    /\ UNCHANGED <<readerVars, offset, panel>>

\* Only the page that arrives knows which query it is of; the offset it is
\* labelled with is the one of this moment.
PageArrives(k) ==
    /\ reading[k].at = "read"
    /\ view' = [kind |-> "table", of |-> reading[k].rows, columns |-> reading[k].columns,
                offset |-> reading[k].offset, label |-> offset]
    /\ missed' = (missed /\ jobs[k].kind = "pager")
    /\ Use(k)
    /\ End(k)
    /\ UNCHANGED page

\* Only a page that was loaded because a query ended resets the button.
PageFails(k) ==
    /\ reading[k].at = "failed"
    /\ IF jobs[k].kind = "finish" THEN SetRunButtonMode("run") ELSE UNCHANGED <<button, running>>
    /\ missed' = TRUE
    /\ Use(k)
    /\ End(k)
    /\ UNCHANGED <<current, offset, source, view>>

CancelAccepted(k) ==
    /\ jobs[k].kind = "cancel" /\ jobs[k].reply = "ok"
    /\ End(k)
    /\ UNCHANGED <<readerVars, page, panel>>

\* Mutant of CallFails: the error is only shown.
CallFailsSilently(k) ==
    /\ jobs[k].reply = "error"
    /\ End(k)
    /\ UNCHANGED <<readerVars, page, panel>>

CallFails(k) ==
    /\ jobs[k].reply = "error"
    /\ SetRunButtonMode("run")
    /\ End(k)
    /\ UNCHANGED <<readerVars, current, offset, source, panel>>

\* Mutant of FinishQuery: the offset of the last result is kept.
FinishAtOffset(k, q, s) ==
    /\ source' = None
    /\ SetRunButtonMode("run")
    /\ IF s = "completed" /\ Pages[q] > 0
       THEN /\ \/ current # None /\ LoadResultPage(k, "finish", current, offset)
               \/ current = None /\ End(k) /\ UNCHANGED readerVars
            /\ UNCHANGED view
       ELSE view' = Message(q) /\ End(k) /\ UNCHANGED readerVars
    /\ UNCHANGED <<current, offset, missed>>

\* finishQuery for q, whose page is loaded by slot k; what is loaded is a page
\* of the current query.
FinishQuery(k, q, s) ==
    /\ source' = None
    /\ SetRunButtonMode("run")
    /\ IF s = "completed" /\ Pages[q] > 0
       THEN /\ offset' = 0
            /\ \/ current # None /\ LoadResultPage(k, "finish", current, 0)
               \/ current = None /\ End(k) /\ UNCHANGED readerVars
            /\ UNCHANGED view
       ELSE view' = Message(q) /\ End(k) /\ UNCHANGED <<readerVars, offset>>
    /\ UNCHANGED <<current, missed>>

\* handleQueryEvent for the row that was asked for.
AskAnswered(k) ==
    /\ jobs[k].kind = "ask" /\ jobs[k].reply \notin {"none", "error"}
    /\ \/ /\ jobs[k].reply = "unfinished"
          /\ SetRunButtonMode("cancel")
          /\ End(k)
          /\ UNCHANGED <<readerVars, current, offset, source, panel>>
       \/ jobs[k].reply # "unfinished" /\ FinishQuery(k, jobs[k].query, jobs[k].reply)

\* An event says that the query still waits or runs.
QueryGoesOn ==
    /\ source # None
    /\ SetRunButtonMode("cancel")
    /\ UNCHANGED <<user, readerVars, status, current, offset, source, panel, jobs, breaks>>

QueryEnds ==
    /\ source # None /\ Over(source) /\ FreeSlots # {}
    /\ FinishQuery(FreeSlot, source, status[source])
    /\ UNCHANGED <<user, status, breaks>>

\* source.onerror
StreamBreaks ==
    /\ source # None /\ FreeSlots # {}
    /\ Break
    /\ source' = None
    /\ jobs' = IF running THEN [jobs EXCEPT ![FreeSlot] = Job("ask", source)] ELSE jobs
    /\ UNCHANGED <<user, readerVars, status, current, offset, button, running, panel>>
-----------------------------------------------------------------------------
Person ==
    \/ RunQuery
    \/ CancelQuery
    \/ \E q \in QueryId : status[q] # "absent" /\
         \E s \in {"unfinished", status[q]} : OpenHistoryQuery(q, s)
    \/ TurnPage

Serve(k) == CreateQuery(k) \/ ServeCancel(k) \/ ServeAsk(k)

GoOn(k) ==
    /\ \/ Submitted(k)
       \/ PageArrives(k)
       \/ PageFails(k)
       \/ CancelAccepted(k)
       \/ CallFails(k)
       \/ AskAnswered(k)
    /\ UNCHANGED <<user, status, breaks>>

PanelNext ==
    \/ Person
    \/ \E q \in QueryId : EndQuery(q)
    \/ \E k \in Slot : Serve(k) \/ CallLost(k) \/ GoOn(k)
    \/ \E r \in Reader : ServePage(r) \/ ResultLost(r)
    \/ \E r \in Reader \ Slot : ReadCatalog(r)
    \/ QueryGoesOn
    \/ QueryEnds
    \/ StreamBreaks

PanelSpec == PanelInit /\ [][PanelNext]_panelVars

\* The coordinator and the worker serve what they are asked, a thread that
\* waits for _admin_lock gets it in the end, answers reach the page, and a stream
\* that is open brings the end of its query (PageLearnsOrMissed of EventHub tells
\* when it does not: such a stream has to break). Nobody has to click.
PanelFairness ==
    /\ \A k \in Slot : WF_panelVars(Serve(k)) /\ WF_panelVars(GoOn(k))
    /\ \A r \in Reader : SF_panelVars(ServePage(r))
    /\ SF_panelVars(QueryEnds)

FairPanelSpec == PanelSpec /\ PanelFairness
-----------------------------------------------------------------------------
(* Properties *)

PageKind == {"history", "pager", "finish"}
JobType == [kind : {"none", "submit", "cancel", "ask"} \cup PageKind,
            query : QueryId \cup {None},
            reply : {"none", "ok", "error", "absent", "unfinished", "completed", "failed"}]

\* The page, its calls and the readers hold what their code can put there, and
\* exactly the jobs that load a page have a reader.
PanelTypeOK ==
    /\ ReaderTypeOK
    /\ status \in [QueryId -> {"absent", "unfinished", "completed", "failed"}]
    /\ current \in QueryId \cup {None}
    /\ offset \in 0 .. MaxInputs
    /\ button \in {"run", "cancel", "disabled"}
    /\ running \in BOOLEAN
    /\ button # "disabled" => (running <=> button = "cancel")
    /\ source \in QueryId \cup {None}
    /\ view \in [kind : {"message", "table"}, of : QueryId \cup {None},
                 columns : QueryId \cup {None}, offset : Nat, label : Nat]
    /\ jobs \in [Slot -> JobType]
    /\ \A k \in Slot : jobs[k].kind \in PageKind <=> reading[k] # NotReading
    /\ missed \in BOOLEAN
    /\ breaks \in 0 .. MaxBreaks

\* However clicks, answers and broken streams meet, the page listens to no
\* query but its current one, and unless a stream broke it never waits for the
\* end of a query that it does not listen to. (After a break onerror asks once,
\* and a page that is told 'running' is deaf from then on.)
Deaf == running /\ source = None /\ ~Busy
WatchesCurrent == source \in {None, current} /\ (Deaf => breaks > 0)

\* The page of a person who lets every click take effect shows a table of its
\* current query, labelled with the offset of its rows, within the result, unless
\* a page failed to load: then the old table stays, and the offset has moved, so
\* that the next click skips a page or leaves the result.
TableFits ==
    view.kind = "table" /\ ~Busy /\ slips = 0 /\ ~missed =>
        /\ view.of = view.columns /\ view.of = current
        /\ view.label = view.offset /\ view.offset < Pages[view.of]

\* Every click takes effect in the end: the calls it led to end, whatever else is
\* read over the admin connection and whatever fails; and the button that it
\* disabled is a button again, unless the page has become deaf.
ClicksTakeEffect ==
    /\ \A k \in Slot : jobs[k] # NoJob ~> jobs[k] = NoJob
    /\ button = "disabled" ~> button # "disabled" \/ Deaf
=============================================================================
