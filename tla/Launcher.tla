------------------------------ MODULE Launcher ------------------------------
(***************************************************************************)
(* DuckLauncher as a whole: the tables of QueryStore, the coordinator's     *)
(* coroutines that claim queries and dispatch them over HTTP, the worker    *)
(* processes that execute them and report back, and the users who submit    *)
(* and cancel. Every step performs at most one operation of QueryStore.     *)
(*                                                                         *)
(* A claimer is a coroutine of the coordinator that claims a query and then *)
(* dispatches it: the scheduler loop, a schedule triggered by a readiness   *)
(* or completion callback, or the request that submitted the query.         *)
(*                                                                         *)
(* What may go wrong is chosen by Faults, and happens at most MaxFaults     *)
(* times in a behaviour:                                                    *)
(*   stop        a worker gets SIGTERM                                      *)
(*   crash       a worker process dies                                      *)
(*   coordinator the coordinator process dies                               *)
(*   timeout     a dispatch is given up although it may arrive              *)
(*   loss        a completion report is lost                                *)
(*   delay       heartbeats of a live worker stay away for worker_stale_sec *)
(*   late        the last heartbeat arrives after the worker's end          *)
(***************************************************************************)
EXTENDS QueryStore

CONSTANTS
    Scheduler,      \* the claimer that is the background scheduler loop
    Cancellable,    \* the queries users may cancel
    Faults,         \* the kinds of fault that may happen
    MaxFaults       \* bound on the faults of a behaviour

ASSUME LauncherAssumption ==
    /\ Scheduler \in Claimer
    /\ Cancellable \subseteq QueryId
    /\ Faults \subseteq {"stop", "crash", "coordinator", "timeout", "loss", "delay", "late"}
    /\ MaxFaults \in Nat
    /\ None \notin Claimer

VARIABLES
    submitted,  \* queries whose submit request has yet to try its own claim
    dispatch,   \* dispatch[c]: the POST /query coroutine c waits for
    posted,     \* POST /query requests on the wire
    proc,       \* proc[w]: where worker process w is in its lifespan
    executing,  \* executing[w][q]: tasks of w executing q
    listed,     \* listed[w]: the keys of query_tasks, the tasks w counts
    interrupted,\* interrupted[w]: queries whose connection was interrupted
    results,    \* results[w]: queries with a result file on w's disk
    late,       \* ended workers whose last heartbeat is still on the wire
    reports,    \* POST /queries/{id}/complete requests on the wire
    cancel,     \* cancel[q]: where the cancel request for q is
    faults      \* faults so far

coordinatorVars == <<submitted, dispatch, cancel>>
workerVars == <<proc, executing, listed, interrupted, results>>
netVars == <<posted, reports, late>>
launcherVars == <<vars, coordinatorVars, workerVars, netVars, faults>>

NoDispatch == [query |-> None, worker |-> None, reply |-> "none"]
NoCancel == [stage |-> "none", worker |-> None]

LauncherInit ==
    /\ Init
    /\ submitted = {}
    /\ dispatch = [c \in Claimer |-> NoDispatch]
    /\ posted = {}
    /\ proc = [w \in Worker |-> "down"]
    /\ executing = [w \in Worker |-> [q \in QueryId |-> 0]]
    /\ listed = [w \in Worker |-> {}]
    /\ interrupted = [w \in Worker |-> {}]
    /\ results = [w \in Worker |-> {}]
    /\ reports = {}
    /\ late = {}
    /\ cancel = [q \in QueryId |-> NoCancel]
    /\ faults = 0

Fault(kind) == kind \in Faults /\ faults < MaxFaults /\ faults' = faults + 1
-----------------------------------------------------------------------------
(* Coordinator: submitting, claiming and dispatching *)

SubmitQuery(q) ==
    /\ CreateQuery(q)
    /\ submitted' = submitted \cup {q}
    /\ UNCHANGED <<dispatch, cancel, workerVars, netVars, faults>>

\* Mutant: the next claim does not wait for the dispatch of the last one.
FreeToClaim(c) == claim[c].phase = "idle"

Free(c) == dispatch[c] = NoDispatch /\ claim[c].phase = "idle"

\* The submit request tries once to claim its own query; the row may be locked
\* or no longer pending by then.
SubmitClaims(c, q) ==
    /\ Free(c) /\ c # Scheduler /\ q \in submitted
    /\ \/ ClaimQueryById(c, q)
       \/ q \notin Claimable /\ UNCHANGED vars
    /\ submitted' = submitted \ {q}
    /\ UNCHANGED <<dispatch, cancel, workerVars, netVars, faults>>

\* One turn of schedule_pending_queries.
ScheduleNext(c) ==
    /\ Free(c)
    /\ ClaimPendingQuery(c)
    /\ UNCHANGED <<coordinatorVars, workerVars, netVars, faults>>

\* scheduler_loop sweeps between its own batches.
Sweep ==
    /\ Free(Scheduler)
    /\ SweepStaleWorkers
    /\ UNCHANGED <<coordinatorVars, workerVars, netVars, faults>>

ChooseWorker(c) ==
    /\ (\E w \in Worker : PickWorker(c, w)) \/ PickNone(c)
    /\ UNCHANGED <<coordinatorVars, workerVars, netVars, faults>>

\* The claim commits and dispatch_query posts the query to the chosen worker.
PostQuery(c) ==
    /\ CommitClaim(c)
    /\ dispatch' = [dispatch EXCEPT ![c] =
           [query |-> claim[c].query, worker |-> claim[c].worker, reply |-> "none"]]
    /\ posted' = posted \cup
           {[query |-> claim[c].query, worker |-> claim[c].worker, from |-> c]}
    /\ UNCHANGED <<submitted, cancel, workerVars, reports, late, faults>>

EndDispatch(c) ==
    /\ dispatch' = [dispatch EXCEPT ![c] = NoDispatch]
    /\ UNCHANGED <<submitted, cancel, workerVars, reports, late>>

DispatchAccepted(c) ==
    /\ dispatch[c].reply = "accepted"
    /\ EndDispatch(c)
    /\ UNCHANGED <<vars, posted, faults>>

\* Mutant: the query goes back to pending whatever became of it.
DispatchRejectedAlways(c) ==
    LET q == dispatch[c].query
    IN  /\ dispatch[c].reply = "busy"
        /\ EndDispatch(c)
        /\ status' = [status EXCEPT ![q] = "pending"]
        /\ assigned' = [assigned EXCEPT ![q] = None]
        /\ UNCHANGED <<error, workerTable, claim, posted, faults>>

\* 429: revert_query_to_pending tests the status only, not the worker.
DispatchRejected(c) ==
    /\ dispatch[c].reply = "busy"
    /\ EndDispatch(c)
    /\ \/ RevertQueryToPending(dispatch[c].query)
       \/ status[dispatch[c].query] # "running" /\ UNCHANGED vars
    /\ UNCHANGED <<posted, faults>>

\* Mutant: a failed dispatch leaves worker and query as they are.
LeaveWorker(w) == w \in Worker /\ UNCHANGED vars

MarkOrLeave(w) ==
    \/ MarkWorkerUnreachable(w)
    \/ wstatus[w] \notin {"running", "shutting_down"} /\ UNCHANGED vars

\* The senders C wait no longer. A request that has reached a listening process
\* may still be read there; one that found nobody listening is gone.
Abandon(C) ==
    posted' = {[m EXCEPT !.from = IF @ \in C THEN None ELSE @] :
                  m \in {n \in posted : n.from \in C => proc[n.worker] = "up"}}

\* 502, 503 or a transport error, the expiry of dispatch_timeout_sec among them.
DispatchFailed(c) ==
    /\ dispatch[c] # NoDispatch
    /\ \/ dispatch[c].reply = "refused" /\ UNCHANGED faults
       \/ dispatch[c].reply # "refused" /\ Fault("timeout")
    /\ EndDispatch(c)
    /\ MarkOrLeave(dispatch[c].worker)
    /\ Abandon({c})
-----------------------------------------------------------------------------
(* Worker processes *)

\* Reply r reaches the coroutine that sent m, if it still waits.
Answer(m, r) ==
    dispatch' = [c \in Claimer |->
        IF c = m.from THEN [dispatch[c] EXCEPT !.reply = r] ELSE dispatch[c]]

\* Mutant: the limit is compared with <=.
AcceptsOneMore(w) == proc[w] = "up" /\ Cardinality(listed[w]) <= MaxConcurrent[w]

Accepts(w) == proc[w] = "up" /\ Cardinality(listed[w]) < MaxConcurrent[w]

\* run_query: query_tasks is keyed by query, so a second task of the same
\* query replaces the entry of the first.
AcceptQuery(m) ==
    /\ Accepts(m.worker)
    /\ executing' = [executing EXCEPT ![m.worker][m.query] = @ + 1]
    /\ listed' = [listed EXCEPT ![m.worker] = @ \cup {m.query}]
    /\ Answer(m, "accepted")
    /\ UNCHANGED <<proc, interrupted, results>>

RejectQuery(m) ==
    /\ proc[m.worker] = "up" /\ ~Accepts(m.worker)
    /\ Answer(m, "busy")
    /\ UNCHANGED workerVars

\* 503 while shutting down, connection refused while nothing listens.
RefuseQuery(m) ==
    /\ proc[m.worker] # "up"
    /\ Answer(m, "refused")
    /\ UNCHANGED workerVars

RequestArrives(m) ==
    /\ posted' = posted \ {m}
    /\ AcceptQuery(m) \/ RejectQuery(m) \/ RefuseQuery(m)
    /\ UNCHANGED <<vars, submitted, cancel, reports, late, faults>>

\* The executor finishes: a failed or cancelled task deletes the result file,
\* and the outcome goes to the coordinator.
TaskEnds(w, q, outcome) ==
    LET report == [worker |-> w, query |-> q, outcome |-> outcome]
    IN  /\ executing[w][q] > 0
        /\ outcome = "cancelled" => q \in interrupted[w]
        /\ report \notin reports
        /\ executing' = [executing EXCEPT ![w][q] = @ - 1]
        /\ interrupted' = [interrupted EXCEPT ![w] = @ \ {q}]
        /\ results' = [results EXCEPT ![w] =
               IF outcome = "completed" THEN @ \cup {q} ELSE @ \ {q}]
        /\ reports' = reports \cup {report}
        /\ UNCHANGED <<vars, coordinatorVars, proc, listed, posted, late, faults>>

\* The task leaves query_tasks when its report is through, or given up.
EndReport(r) ==
    /\ reports' = reports \ {r}
    /\ listed' = [listed EXCEPT ![r.worker] = @ \ {r.query}]
    /\ UNCHANGED <<coordinatorVars, proc, executing, interrupted, results, posted, late>>

ReportArrives(r) ==
    /\ \/ CompleteQuery(r.query, r.outcome)
       \/ ~Active(r.query) /\ UNCHANGED vars
    /\ EndReport(r)
    /\ UNCHANGED faults

ReportLost(r) ==
    /\ Fault("loss")
    /\ EndReport(r)
    /\ UNCHANGED vars

WorkerOnly == UNCHANGED <<coordinatorVars, netVars, executing, listed, interrupted, results>>

Register(w) ==
    /\ proc[w] = "down"
    /\ RegisterWorker(w)
    /\ proc' = [proc EXCEPT ![w] = "starting"]
    /\ WorkerOnly /\ UNCHANGED faults

\* notify_ready comes before the HTTP server listens; a refusal ends startup.
NotifyReady(w) ==
    /\ proc[w] = "starting"
    /\ \/ ReadyWorker(w) /\ proc' = [proc EXCEPT ![w] = "ready"]
       \/ /\ wstatus[w] # "initializing" /\ UNCHANGED vars
          /\ proc' = [proc EXCEPT ![w] = "down"]
    /\ WorkerOnly /\ UNCHANGED faults

Listen(w) ==
    /\ proc[w] = "ready"
    /\ proc' = [proc EXCEPT ![w] = "up"]
    /\ WorkerOnly /\ UNCHANGED <<vars, faults>>

Heartbeat(w) ==
    /\ proc[w] \in {"ready", "up"}
    /\ HeartbeatWorker(w, "running")
    /\ WorkerOnly /\ UNCHANGED <<proc, faults>>

LateHeartbeat(w) ==
    /\ w \in late
    /\ Fault("late")
    /\ HeartbeatWorker(w, "running")
    /\ late' = late \ {w}
    /\ UNCHANGED <<coordinatorVars, workerVars, posted, reports>>

MissHeartbeats(w) ==
    /\ IF proc[w] \in {"ready", "up"} THEN Fault("delay") ELSE UNCHANGED faults
    /\ HeartbeatExpires(w)
    /\ WorkerOnly /\ UNCHANGED proc

\* SIGTERM: the worker refuses queries from here on.
BeginShutdown(w) ==
    /\ Fault("stop")
    /\ proc[w] = "up"
    /\ proc' = [proc EXCEPT ![w] = "stopping"]
    /\ WorkerOnly /\ UNCHANGED vars

\* notify_shutdown, then cancel_all interrupts what is executing, unless
\* shutdown_cancel_queries is off and the tasks are waited for.
NotifyShutdown(w) ==
    /\ proc[w] = "stopping"
    /\ ShutdownWorker(w) \/ (wstatus[w] # "running" /\ UNCHANGED vars)
    /\ proc' = [proc EXCEPT ![w] = "draining"]
    /\ \/ interrupted' = [interrupted EXCEPT ![w] = {q \in QueryId : executing[w][q] > 0}]
       \/ UNCHANGED interrupted
    /\ UNCHANGED <<coordinatorVars, netVars, executing, listed, results, faults>>

\* Mutant: result files live in a directory that ends with the process.
DownWiping(w) ==
    /\ proc' = [proc EXCEPT ![w] = "down"]
    /\ executing' = [executing EXCEPT ![w] = [q \in QueryId |-> 0]]
    /\ listed' = [listed EXCEPT ![w] = {}]
    /\ interrupted' = [interrupted EXCEPT ![w] = {}]
    /\ results' = [results EXCEPT ![w] = {}]
    /\ reports' = {r \in reports : r.worker # w}
    /\ late' = late \cup {w}
    /\ posted' = {m \in posted : m.worker # w}
    /\ UNCHANGED <<vars, coordinatorVars>>

\* The process of w is gone, and its connections with it.
Down(w) ==
    /\ proc' = [proc EXCEPT ![w] = "down"]
    /\ executing' = [executing EXCEPT ![w] = [q \in QueryId |-> 0]]
    /\ listed' = [listed EXCEPT ![w] = {}]
    /\ interrupted' = [interrupted EXCEPT ![w] = {}]
    /\ reports' = {r \in reports : r.worker # w}
    /\ late' = IF "late" \in Faults /\ proc[w] # "starting" THEN late \cup {w} ELSE late
    /\ posted' = {m \in posted : m.worker # w}
    /\ dispatch' = [c \in Claimer |->
           IF \E m \in posted : m.worker = w /\ m.from = c
           THEN [dispatch[c] EXCEPT !.reply = "refused"] ELSE dispatch[c]]
    /\ UNCHANGED <<vars, submitted, cancel, results>>

Exit(w) ==
    /\ proc[w] = "draining"
    /\ \A q \in QueryId : executing[w][q] = 0
    /\ \A r \in reports : r.worker # w
    /\ Down(w) /\ UNCHANGED faults

\* Also a shutdown that gives up, 30 or 120 s after SIGTERM, on what it still executes:
\* the process ends although Exit would wait.
WorkerCrash(w) ==
    /\ Fault("crash")
    /\ proc[w] # "down"
    /\ Down(w)
-----------------------------------------------------------------------------
(* Coordinator: cancelling, and its own end *)

SetCancel(q, stage, w) ==
    /\ cancel' = [cancel EXCEPT ![q] = [stage |-> stage, worker |-> w]]
    /\ UNCHANGED <<submitted, dispatch, netVars, faults>>

\* cancel_query reads the row and acts on what it read.
CancelRequested(q) ==
    /\ q \in Cancellable /\ cancel[q] = NoCancel
    /\ \/ status[q] = "pending" /\ SetCancel(q, "mark", None)
       \/ status[q] = "running" /\ SetCancel(q, "post", assigned[q])
    /\ UNCHANGED <<vars, workerVars>>

\* Mutant: only a row that is still pending is marked.
CancelMarksPending(q) ==
    /\ cancel[q].stage \in {"mark", "poll"}
    /\ \/ status[q] = "pending" /\ MarkQueryCancelled(q)
       \/ status[q] # "pending" /\ UNCHANGED vars
    /\ SetCancel(q, "none", None)
    /\ UNCHANGED workerVars

\* Before dispatch, or after 20 polls, the row is marked; 409 if it is too late.
CancelMarks(q) ==
    /\ cancel[q].stage \in {"mark", "poll"}
    /\ MarkQueryCancelled(q) \/ (~Active(q) /\ UNCHANGED vars)
    /\ SetCancel(q, "none", None)
    /\ UNCHANGED workerVars

\* POST /query/cancel at the worker: interrupt, "no_active_query", or 502.
CancelReachesWorker(q) ==
    LET w == cancel[q].worker
    IN  /\ cancel[q].stage = "post"
        /\ \/ /\ proc[w] = "up"
              /\ interrupted' = [interrupted EXCEPT ![w] =
                     IF executing[w][q] > 0 THEN @ \cup {q} ELSE @]
              /\ SetCancel(q, "poll", None)
           \/ /\ proc[w] # "up"
              /\ SetCancel(q, "none", None)
              /\ UNCHANGED interrupted
        /\ UNCHANGED <<vars, proc, executing, listed, results>>

CancelObserved(q) ==
    /\ cancel[q].stage = "poll" /\ status[q] = "cancelled"
    /\ SetCancel(q, "none", None)
    /\ UNCHANGED <<vars, workerVars>>

\* Every coroutine ends and open claims are rolled back.
CoordinatorCrash ==
    LET open == {c \in Claimer : claim[c].phase # "idle"}
    IN  /\ Fault("coordinator")
        /\ Rollback(open) \/ (open = {} /\ UNCHANGED vars)
        /\ submitted' = {}
        /\ dispatch' = [c \in Claimer |-> NoDispatch]
        /\ cancel' = [q \in QueryId |-> NoCancel]
        /\ Abandon(Claimer)
        /\ UNCHANGED <<workerVars, reports, late>>
-----------------------------------------------------------------------------
Schedule(c) ==
    \/ ScheduleNext(c)
    \/ ChooseWorker(c)
    \/ PostQuery(c)
    \/ DispatchAccepted(c)
    \/ DispatchRejected(c)
    \/ DispatchFailed(c)

Lifespan(w) ==
    \/ Register(w)
    \/ NotifyReady(w)
    \/ Listen(w)
    \/ Heartbeat(w)
    \/ LateHeartbeat(w)
    \/ MissHeartbeats(w)
    \/ BeginShutdown(w)
    \/ NotifyShutdown(w)
    \/ Exit(w)
    \/ WorkerCrash(w)

CancelStep(q) ==
    \/ CancelRequested(q)
    \/ CancelMarks(q)
    \/ CancelReachesWorker(q)
    \/ CancelObserved(q)

LauncherNext ==
    \/ \E q \in QueryId : SubmitQuery(q) \/ CancelStep(q)
    \/ \E c \in Claimer, q \in QueryId : SubmitClaims(c, q)
    \/ \E c \in Claimer : Schedule(c)
    \/ Sweep
    \/ \E m \in posted : RequestArrives(m)
    \/ \E w \in Worker, q \in QueryId, outcome \in Outcome : TaskEnds(w, q, outcome)
    \/ \E r \in reports : ReportArrives(r) \/ ReportLost(r)
    \/ \E w \in Worker : Lifespan(w)
    \/ CoordinatorCrash

LauncherSpec == LauncherInit /\ [][LauncherNext]_launcherVars

(***************************************************************************)
(* Fairness. Coroutines run on one event loop and finish what they started; *)
(* the scheduler loop never ends; DuckDB statements end; requests that are  *)
(* not lost arrive; a completion that waits for a row lock gets it when the *)
(* claim ends, before a SKIP LOCKED reader can (hence SF); time passes and  *)
(* worker processes are started again. Users owe nothing. (It is enough     *)
(* that some task ends as long as there are any, and some report arrives.)  *)
(***************************************************************************)
Fairness ==
    /\ WF_launcherVars(ScheduleNext(Scheduler))
    /\ WF_launcherVars(Sweep)
    /\ \A c \in Claimer :
         /\ WF_launcherVars(ChooseWorker(c) \/ PostQuery(c))
         /\ WF_launcherVars(DispatchAccepted(c) \/ DispatchRejected(c)
                              \/ (dispatch[c].reply = "refused" /\ DispatchFailed(c)))
    /\ \A w \in Worker :
         /\ WF_launcherVars(Register(w) \/ NotifyReady(w) \/ Listen(w))
         /\ WF_launcherVars(Heartbeat(w))
         /\ WF_launcherVars(MissHeartbeats(w))
         /\ WF_launcherVars(NotifyShutdown(w) \/ Exit(w))
    /\ \A q \in QueryId, w \in Worker :
         WF_launcherVars(\E m \in posted : m.query = q /\ m.worker = w /\ RequestArrives(m))
    /\ WF_launcherVars(\E w \in Worker, q \in QueryId, outcome \in Outcome :
                           TaskEnds(w, q, outcome))
    /\ SF_launcherVars(\E r \in reports : ReportArrives(r))

FairSpec == LauncherSpec /\ Fairness
-----------------------------------------------------------------------------
(* Properties *)

Reply == {"none", "accepted", "busy", "refused"}
Waiting == [query : QueryId, worker : Worker, reply : Reply]
Stage == {"none", "mark", "post", "poll"}
Lifetime == {"down", "starting", "ready", "up", "stopping", "draining"}

\* The coroutines, processes and messages hold what their code can put there;
\* a waiting coroutine has no claim open at the same time.
LauncherTypeOK ==
    /\ TypeOK
    /\ submitted \subseteq QueryId
    /\ dispatch \in [Claimer -> {NoDispatch} \cup Waiting]
    /\ \A c \in Claimer : dispatch[c] # NoDispatch => claim[c] = NoClaim
    /\ posted \subseteq [query : QueryId, worker : Worker, from : Claimer \cup {None}]
    /\ proc \in [Worker -> Lifetime]
    /\ executing \in [Worker -> [QueryId -> Nat]]
    /\ listed \in [Worker -> SUBSET QueryId]
    /\ interrupted \in [Worker -> SUBSET QueryId]
    /\ results \in [Worker -> SUBSET QueryId]
    /\ reports \subseteq [worker : Worker, query : QueryId, outcome : Outcome]
    /\ late \subseteq Worker
    /\ cancel \in [QueryId -> [stage : Stage, worker : Worker \cup {None}]]
    /\ \A q \in QueryId : cancel[q].stage = "post" => cancel[q].worker \in Worker
    /\ faults \in 0 .. MaxFaults

\* Every step of the system is at most one operation on the tables, so all
\* that is proved of QueryStore holds of the system.
ImplementsStore == Spec

\* A coroutine will still do something about q on w, unless it is accepted.
Dispatching(q, w) ==
    \E c \in Claimer : /\ dispatch[c].query = q /\ dispatch[c].worker = w
                       /\ dispatch[c].reply # "accepted"
Reporting(q, w) == \E r \in reports : r.query = q /\ r.worker = w

\* Somebody will see to a row that says 'running on w': a coroutine dispatches
\* it to w, w executes it, w's report is on its way, or w is gone in a state
\* the sweep will find.
Backed(q) ==
    LET w == assigned[q]
    IN  \/ Dispatching(q, w) \/ executing[w][q] > 0 \/ Reporting(q, w)
        \/ proc[w] = "down" /\ wstatus[w] \in {"running", "shutting_down", "unreachable"}

\* Nobody will: such a row stays as it is while w is healthy, and counts
\* against its limits.
Stranded(q) == status[q] = "running" /\ ~Backed(q)

MayStrand(q) ==
    \/ assigned[q] \in Worker /\ Register(assigned[q])
    \/ \E c \in Claimer : /\ dispatch[c].query = q /\ DispatchFailed(c)
                         /\ wstatus[assigned[q]] \notin {"running", "shutting_down"}
    \/ wstatus[assigned[q]] = "stopped" /\ WorkerCrash(assigned[q])
    \/ \E r \in reports : r.query = q /\ ReportLost(r)
    \/ Dispatching(q, assigned[q]) /\ CoordinatorCrash

\* A running row is stranded in five ways only. register_worker leaves the rows
\* of the last life alone, so rows that were left to the sweep are lost when the
\* worker registers before it; a dispatch that fails while the worker is neither
\* running nor shutting down returns nothing, for mark_worker_unreachable passes
\* such a worker over (it came back, or a claim chose it before the sweep and
\* committed after it); a worker whose heartbeats stay out is swept although it
\* lives, accepts a query of a claim that had chosen it before, and crashes before
\* its next heartbeat, when its row says 'stopped' and no sweep looks at it; a
\* completion is reported once, and the report may be lost; and the coordinator may
\* go down between the commit and the worker's answer. No other stop, crash,
\* timeout, delay, rejection, sweep or late message strands a row, in whatever
\* order they meet.
FiveWaysToStrand ==
    [][\A q \in QueryId : Stranded(q)' /\ ~Stranded(q) => MayStrand(q)]_launcherVars

Alike(a, b) == a.query = b.query /\ a.worker = b.worker

\* A worker that serves has each query in hand at most once: as a request it will
\* accept, a task that executes it or a report of its end. Neither query_tasks nor
\* the result file, which are both keyed by the query, can stand a second one. (It
\* needs dispatches one at a time, none of them given up early, and no sweep of a
\* live worker: a refused one returns queries that execute, and another may place
\* them there again.)
OnceInHand ==
    /\ \A w \in Worker, q \in QueryId :
         executing[w][q] + (IF Reporting(q, w) THEN 1 ELSE 0) <= 1
    /\ \A r, s \in reports : Alike(r, s) => r = s
    /\ \A m \in posted : proc[m.worker] = "up" =>
         /\ executing[m.worker][m.query] = 0 /\ ~Reporting(m.query, m.worker)
         /\ \A n \in posted : Alike(m, n) => m = n

\* max_concurrent_queries bounds what a worker executes, although its own
\* count is the number of keys of query_tasks and a key is dropped whenever
\* any task of that query ends. (It needs OnceInHand.)
ParallelLimit ==
    \A w \in Worker :
        SumFunctionOnSet(executing[w], QueryId) <= MaxConcurrent[w]

\* The result of a completed query exists on some worker: no later task of
\* the same query deletes it. (It needs OnceInHand.)
CompletedIsStored ==
    \A q \in QueryId : status[q] = "completed" => \E w \in Worker : q \in results[w]

\* A user who saw a cancellation through (not refused with 502) leaves a
\* finished query behind, even when the query was claimed in the meantime.
CancelSettles ==
    [][\A q \in QueryId :
          (cancel[q].stage \in {"mark", "poll"} /\ cancel'[q] = NoCancel /\ ~CoordinatorCrash)
             => status'[q] \in Outcome]_launcherVars

\* Every submitted query gets an outcome.
AllFinish == \A q \in QueryId : status[q] = "pending" ~> status[q] \in Outcome

\* Stranded rows count against max_concurrent_queries: they may take all slots.
Crowded ==
    \A w \in Worker :
        Cardinality({q \in RunningOn(w) : Stranded(q)}) >= MaxConcurrent[w]

\* With one claimer, every submitted query gets an outcome, is stranded itself,
\* or finds every slot of every worker taken by stranded rows.
FinishOrStranded ==
    \A q \in QueryId :
        status[q] = "pending" ~> status[q] \in Outcome \/ Stranded(q) \/ Crowded

\* A worker process that goes down serves again, whatever it left in its row:
\* a heartbeat of its last life that arrives after it registered makes the
\* coordinator refuse its readiness, but not for ever.
WorkersReturn == \A w \in Worker : proc[w] = "down" ~> proc[w] = "up"
=============================================================================
