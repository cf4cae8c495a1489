--------------------------- MODULE LauncherProofs ---------------------------
(***************************************************************************)
(* Launcher implements QueryStore: whatever coroutines, workers, users and  *)
(* faults do, the tables change by one operation of QueryStore at a time,   *)
(* so what is proved of the tables holds of the whole system.               *)
(***************************************************************************)
EXTENDS Launcher, QueryStoreProofs

\* A request whose sender still waits is the request the sender waits for.
Awaited ==
    \A m \in posted : m.from \in Claimer =>
        dispatch[m.from] = [query |-> m.query, worker |-> m.worker, reply |-> "none"]

LauncherInv == LauncherTypeOK /\ RowInv /\ Awaited

(***************************************************************************)
(* Every step is a step of the tables.                                      *)
(***************************************************************************)
LEMMA DispatchFacts ==
    ASSUME LauncherTypeOK, NEW c \in Claimer, dispatch[c].reply # "none" \/ dispatch[c] # NoDispatch
    PROVE  dispatch[c] \in Waiting /\ dispatch[c].query \in QueryId /\ dispatch[c].worker \in Worker
  BY DEF LauncherTypeOK, NoDispatch, Waiting

LEMMA ScheduleMaps ==
    ASSUME LauncherTypeOK, NEW c \in Claimer, Schedule(c)
    PROVE  Next \/ UNCHANGED vars
  <1>1. CASE ScheduleNext(c)
    BY <1>1 DEF ScheduleNext, Next, ClaimStep
  <1>2. CASE ChooseWorker(c)
    BY <1>2 DEF ChooseWorker, Next, ClaimStep
  <1>3. CASE PostQuery(c)
    BY <1>3 DEF PostQuery, Next, ClaimStep
  <1>4. CASE DispatchAccepted(c)
    BY <1>4 DEF DispatchAccepted
  <1>5. CASE DispatchRejected(c)
    <2>1. dispatch[c].query \in QueryId
      BY <1>5, DispatchFacts DEF DispatchRejected
    <2> QED
      BY <1>5, <2>1 DEF DispatchRejected, Next, QueryStep
  <1>6. CASE DispatchFailed(c)
    <2>1. dispatch[c].worker \in Worker
      BY <1>6, DispatchFacts DEF DispatchFailed
    <2> QED
      BY <1>6, <2>1 DEF DispatchFailed, MarkOrLeave, Next, WorkerStep
  <1> QED
    BY <1>1, <1>2, <1>3, <1>4, <1>5, <1>6 DEF Schedule

LEMMA LifespanMaps ==
    ASSUME NEW w \in Worker, Lifespan(w)
    PROVE  Next \/ UNCHANGED vars
  <1>1. CASE Register(w)
    BY <1>1 DEF Register, Next, WorkerStep
  <1>2. CASE NotifyReady(w)
    BY <1>2 DEF NotifyReady, Next, WorkerStep
  <1>3. CASE Heartbeat(w) \/ LateHeartbeat(w)
    BY <1>3 DEF Heartbeat, LateHeartbeat, Next, WorkerStep
  <1>4. CASE MissHeartbeats(w)
    BY <1>4 DEF MissHeartbeats, Next, WorkerStep
  <1>5. CASE NotifyShutdown(w)
    BY <1>5 DEF NotifyShutdown, Next, WorkerStep
  <1>6. CASE Listen(w) \/ BeginShutdown(w) \/ Exit(w) \/ WorkerCrash(w)
    BY <1>6 DEF Listen, BeginShutdown, Exit, WorkerCrash, Down
  <1> QED
    BY <1>1, <1>2, <1>3, <1>4, <1>5, <1>6 DEF Lifespan

LEMMA QueryMaps ==
    ASSUME NEW q \in QueryId, SubmitQuery(q) \/ CancelStep(q)
    PROVE  Next \/ UNCHANGED vars
  <1>1. CASE SubmitQuery(q)
    BY <1>1 DEF SubmitQuery, Next, QueryStep
  <1>2. CASE CancelMarks(q)
    BY <1>2 DEF CancelMarks, Next, QueryStep
  <1>3. CASE CancelRequested(q) \/ CancelReachesWorker(q) \/ CancelObserved(q)
    BY <1>3 DEF CancelRequested, CancelReachesWorker, CancelObserved
  <1> QED
    BY <1>1, <1>2, <1>3 DEF CancelStep

LEMMA LauncherStepMaps ==
    ASSUME LauncherTypeOK, [LauncherNext]_launcherVars
    PROVE  [Next]_vars
  <1>1. CASE UNCHANGED launcherVars
    BY <1>1 DEF launcherVars
  <1>2. CASE \E q \in QueryId : SubmitQuery(q) \/ CancelStep(q)
    BY <1>2, QueryMaps
  <1>3. CASE \E c \in Claimer, q \in QueryId : SubmitClaims(c, q)
    BY <1>3 DEF SubmitClaims, Next, ClaimStep
  <1>4. CASE \E c \in Claimer : Schedule(c)
    BY <1>4, ScheduleMaps
  <1>5. CASE Sweep
    BY <1>5 DEF Sweep, Next
  <1>6. CASE \E m \in posted : RequestArrives(m)
    BY <1>6 DEF RequestArrives
  <1>7. CASE \E w \in Worker, q \in QueryId, outcome \in Outcome : TaskEnds(w, q, outcome)
    BY <1>7 DEF TaskEnds
  <1>8. CASE \E r \in reports : ReportArrives(r) \/ ReportLost(r)
    <2> PICK r \in reports : ReportArrives(r) \/ ReportLost(r)
      BY <1>8
    <2>1. r.query \in QueryId /\ r.outcome \in Outcome
      BY DEF LauncherTypeOK
    <2> QED
      BY <2>1 DEF ReportArrives, ReportLost, Next, QueryStep
  <1>9. CASE \E w \in Worker : Lifespan(w)
    BY <1>9, LifespanMaps
  <1>10. CASE CoordinatorCrash
    BY <1>10 DEF CoordinatorCrash, Next
  <1> QED
    BY <1>1, <1>2, <1>3, <1>4, <1>5, <1>6, <1>7, <1>8, <1>9, <1>10 DEF LauncherNext

(***************************************************************************)
(* The coroutines, processes and messages stay well formed.                 *)
(***************************************************************************)
LEMMA LauncherInitInv == LauncherInit => LauncherInv
  <1> SUFFICES ASSUME LauncherInit PROVE LauncherInv
    OBVIOUS
  <1>1. RowInv
    BY InitRowInv DEF LauncherInit
  <1>2. LauncherTypeOK
    BY <1>1, LauncherAssumption
       DEF LauncherInit, LauncherTypeOK, RowInv, NoDispatch, Waiting, NoCancel, Stage, Lifetime
  <1> QED
    BY <1>1, <1>2 DEF LauncherInit, LauncherInv, Awaited

\* The part of the invariant that is about the coordinator and its requests.
Coordinated ==
    /\ submitted \subseteq QueryId
    /\ dispatch \in [Claimer -> {NoDispatch} \cup Waiting]
    /\ \A c \in Claimer : dispatch[c] # NoDispatch => claim[c] = NoClaim
    /\ posted \subseteq [query : QueryId, worker : Worker, from : Claimer \cup {None}]
    /\ cancel \in [QueryId -> [stage : Stage, worker : Worker \cup {None}]]
    /\ \A q \in QueryId : cancel[q].stage = "post" => cancel[q].worker \in Worker
    /\ Awaited

\* The part that is about the worker processes and their reports.
Processes ==
    /\ proc \in [Worker -> Lifetime]
    /\ executing \in [Worker -> [QueryId -> Nat]]
    /\ listed \in [Worker -> SUBSET QueryId]
    /\ interrupted \in [Worker -> SUBSET QueryId]
    /\ results \in [Worker -> SUBSET QueryId]
    /\ reports \subseteq [worker : Worker, query : QueryId, outcome : Outcome]
    /\ late \subseteq Worker

LEMMA InvParts ==
    LauncherInv <=> RowInv /\ Coordinated /\ Processes /\ faults \in 0 .. MaxFaults
  BY DEF LauncherInv, LauncherTypeOK, Coordinated, Processes, RowInv

CountsFault == UNCHANGED faults \/ (faults < MaxFaults /\ faults' = faults + 1)

LEMMA FaultsBounded ==
    ASSUME faults \in 0 .. MaxFaults, CountsFault
    PROVE  faults' \in 0 .. MaxFaults
  BY LauncherAssumption DEF CountsFault

LEMMA EveryStepCountsFaults ==
    ASSUME [LauncherNext]_launcherVars
    PROVE  CountsFault
  <1> USE DEF CountsFault, Fault
  <1>1. CASE UNCHANGED launcherVars
    BY <1>1 DEF launcherVars
  <1>2. CASE \E q \in QueryId : SubmitQuery(q) \/ CancelStep(q)
    BY <1>2 DEF SubmitQuery, CancelStep, CancelRequested, CancelMarks, CancelReachesWorker,
                CancelObserved, SetCancel
  <1>3. CASE \E c \in Claimer, q \in QueryId : SubmitClaims(c, q)
    BY <1>3 DEF SubmitClaims
  <1>4. CASE \E c \in Claimer : Schedule(c)
    <2> PICK c \in Claimer : Schedule(c)
      BY <1>4
    <2>1. CASE DispatchFailed(c)
      BY <2>1 DEF DispatchFailed
    <2>2. CASE ~DispatchFailed(c)
      BY <2>2 DEF Schedule, ScheduleNext, ChooseWorker, PostQuery, DispatchAccepted,
                  DispatchRejected
    <2> QED
      BY <2>1, <2>2
  <1>5. CASE Sweep
    BY <1>5 DEF Sweep
  <1>6. CASE \E m \in posted : RequestArrives(m)
    BY <1>6 DEF RequestArrives
  <1>7. CASE \E w \in Worker, q \in QueryId, outcome \in Outcome : TaskEnds(w, q, outcome)
    BY <1>7 DEF TaskEnds
  <1>8. CASE \E r \in reports : ReportArrives(r) \/ ReportLost(r)
    BY <1>8 DEF ReportArrives, ReportLost
  <1>9. CASE \E w \in Worker : Lifespan(w)
    BY <1>9 DEF Lifespan, Register, NotifyReady, Listen, Heartbeat, LateHeartbeat,
                MissHeartbeats, BeginShutdown, NotifyShutdown, Exit, WorkerCrash
  <1>10. CASE CoordinatorCrash
    BY <1>10 DEF CoordinatorCrash
  <1> QED
    BY <1>1, <1>2, <1>3, <1>4, <1>5, <1>6, <1>7, <1>8, <1>9, <1>10 DEF LauncherNext

(***************************************************************************)
(* Processes.                                                               *)
(***************************************************************************)
LEMMA LifespanProcesses ==
    ASSUME Processes, NEW w \in Worker, Lifespan(w)
    PROVE  Processes'
  <1> USE DEF Processes, Lifetime, WorkerOnly, netVars, workerVars
  <1>1. CASE Register(w) \/ NotifyReady(w) \/ Listen(w) \/ BeginShutdown(w)
    BY <1>1 DEF Register, NotifyReady, Listen, BeginShutdown
  <1>2. CASE Heartbeat(w) \/ MissHeartbeats(w)
    BY <1>2 DEF Heartbeat, MissHeartbeats
  <1>3. CASE LateHeartbeat(w)
    BY <1>3 DEF LateHeartbeat
  <1>4. CASE NotifyShutdown(w)
    BY <1>4 DEF NotifyShutdown
  <1>5. CASE Exit(w) \/ WorkerCrash(w)
    <2>1. Down(w)
      BY <1>5 DEF Exit, WorkerCrash
    <2>2. [q \in QueryId |-> 0] \in [QueryId -> Nat]
      OBVIOUS
    <2>3. executing' \in [Worker -> [QueryId -> Nat]]
      BY <2>1, <2>2 DEF Down
    <2>4. late' \subseteq Worker /\ reports' \subseteq reports
      BY <2>1 DEF Down
    <2> QED
      BY <2>1, <2>3, <2>4 DEF Down
  <1> QED
    BY <1>1, <1>2, <1>3, <1>4, <1>5 DEF Lifespan

LEMMA TaskProcesses ==
    ASSUME Processes, NEW w \in Worker, NEW q \in QueryId, NEW outcome \in Outcome,
           TaskEnds(w, q, outcome)
    PROVE  Processes'
  <1>1. executing[w][q] \in Nat /\ executing[w][q] > 0
    BY DEF Processes, TaskEnds
  <1>2. executing[w][q] - 1 \in Nat
    BY <1>1
  <1> QED
    BY <1>2 DEF Processes, TaskEnds

LEMMA RequestProcesses ==
    ASSUME Processes, Coordinated, NEW m \in posted, RequestArrives(m)
    PROVE  Processes'
  <1>1. m.query \in QueryId /\ m.worker \in Worker
    BY DEF Coordinated
  <1>2. CASE AcceptQuery(m)
    <2>1. executing[m.worker][m.query] + 1 \in Nat
      BY <1>1 DEF Processes
    <2> QED
      BY <1>1, <1>2, <2>1 DEF Processes, RequestArrives, AcceptQuery
  <1>3. CASE RejectQuery(m) \/ RefuseQuery(m)
    BY <1>3 DEF Processes, RequestArrives, RejectQuery, RefuseQuery, workerVars
  <1> QED
    BY <1>2, <1>3 DEF RequestArrives

LEMMA ReportProcesses ==
    ASSUME Processes, NEW r \in reports, ReportArrives(r) \/ ReportLost(r)
    PROVE  Processes'
  BY DEF Processes, ReportArrives, ReportLost, EndReport

LEMMA CoordinatorProcesses ==
    ASSUME Processes,
           \/ \E q \in QueryId : SubmitQuery(q) \/ CancelStep(q)
           \/ \E c \in Claimer, q \in QueryId : SubmitClaims(c, q)
           \/ \E c \in Claimer : Schedule(c)
           \/ Sweep
           \/ CoordinatorCrash
    PROVE  Processes'
  <1> USE DEF Processes, workerVars, netVars
  <1>1. CASE \E q \in QueryId : SubmitQuery(q)
    BY <1>1 DEF SubmitQuery
  <1>2. CASE \E q \in QueryId : CancelStep(q)
    <2> PICK q \in QueryId : CancelStep(q)
      BY <1>2
    <2>1. CASE CancelReachesWorker(q)
      BY <2>1 DEF CancelReachesWorker, SetCancel
    <2>2. CASE CancelRequested(q) \/ CancelMarks(q) \/ CancelObserved(q)
      BY <2>2 DEF CancelRequested, CancelMarks, CancelObserved, SetCancel
    <2> QED
      BY <2>1, <2>2 DEF CancelStep
  <1>3. CASE \E c \in Claimer, q \in QueryId : SubmitClaims(c, q)
    BY <1>3 DEF SubmitClaims
  <1>4. CASE \E c \in Claimer : Schedule(c)
    BY <1>4 DEF Schedule, ScheduleNext, ChooseWorker, PostQuery, DispatchAccepted,
                DispatchRejected, DispatchFailed, EndDispatch
  <1>5. CASE Sweep \/ CoordinatorCrash
    BY <1>5 DEF Sweep, CoordinatorCrash
  <1> QED
    BY <1>1, <1>2, <1>3, <1>4, <1>5

(***************************************************************************)
(* The coordinator's coroutines and requests.                               *)
(***************************************************************************)
LEMMA AwaitedFacts ==
    ASSUME Coordinated, NEW m \in posted, NEW c \in Claimer, m.from = c
    PROVE  dispatch[c].query \in QueryId /\ dispatch[c].reply = "none"
  <1>1. dispatch[c] = [query |-> m.query, worker |-> m.worker, reply |-> "none"]
    BY DEF Coordinated, Awaited
  <1>2. m.query \in QueryId
    BY DEF Coordinated
  <1> QED
    BY <1>1, <1>2

LEMMA Undisturbed ==
    ASSUME Coordinated, UNCHANGED <<dispatch, posted, cancel>>, submitted' \subseteq QueryId,
           \A c \in Claimer : dispatch[c] # NoDispatch => claim'[c] = claim[c]
    PROVE  Coordinated'
  BY DEF Coordinated, Awaited

LEMMA LockUndisturbed ==
    ASSUME RowInv, Coordinated, NEW c \in Claimer, Free(c), NEW q, LockRow(c, q),
           UNCHANGED <<dispatch, posted, cancel>>, submitted' \subseteq QueryId
    PROVE  Coordinated'
  <1>1. \A d \in Claimer : dispatch[d] # NoDispatch => claim'[d] = claim[d]
    BY DEF Free, LockRow, RowInv, TypeOK
  <1> QED
    BY <1>1, Undisturbed

LEMMA ChooseCoordinated ==
    ASSUME RowInv, Coordinated, NEW c \in Claimer, ChooseWorker(c)
    PROVE  Coordinated'
  <1>1. claim[c].phase = "locked"
    BY DEF ChooseWorker, PickWorker, PickNone
  <1>2. dispatch[c] = NoDispatch
    BY <1>1 DEF Coordinated, NoClaim
  <1>3. \A d \in Claimer \ {c} : claim'[d] = claim[d]
    BY DEF ChooseWorker, PickWorker, PickNone, RowInv, TypeOK
  <1>4. \A d \in Claimer : dispatch[d] # NoDispatch => claim'[d] = claim[d]
    BY <1>2, <1>3
  <1> QED
    BY <1>4, Undisturbed DEF ChooseWorker, coordinatorVars, netVars, Coordinated

LEMMA PostCoordinated ==
    ASSUME RowInv, Coordinated, NEW c \in Claimer, PostQuery(c)
    PROVE  Coordinated'
  <1> DEFINE q == claim[c].query
             w == claim[c].worker
             request == [query |-> q, worker |-> w, from |-> c]
             wait == [query |-> q, worker |-> w, reply |-> "none"]
  <1>1. claim[c].phase = "picked"
    BY DEF PostQuery, CommitClaim
  <1>2. q \in QueryId /\ w \in Worker
    BY <1>1, ClaimStateFacts DEF RowInv
  <1>3. dispatch[c] = NoDispatch
    BY <1>1 DEF Coordinated, NoClaim
  <1>4. dispatch' = [dispatch EXCEPT ![c] = wait] /\ posted' = posted \cup {request}
    BY DEF PostQuery
  <1>5. claim' = [claim EXCEPT ![c] = NoClaim]
    BY DEF PostQuery, CommitClaim
  <1>6. \A m \in posted : m.from # c
    BY <1>3, AwaitedFacts, StoreAssumption DEF NoDispatch
  <1>7. Awaited'
    BY <1>4, <1>6 DEF Coordinated, Awaited
  <1>8. /\ dispatch' \in [Claimer -> {NoDispatch} \cup Waiting]
        /\ posted' \subseteq [query : QueryId, worker : Worker, from : Claimer \cup {None}]
    BY <1>2, <1>4 DEF Coordinated, Waiting, Reply
  <1>9. \A d \in Claimer : dispatch'[d] # NoDispatch => claim'[d] = NoClaim
    BY <1>4, <1>5 DEF Coordinated, RowInv, TypeOK
  <1> QED
    BY <1>7, <1>8, <1>9 DEF PostQuery, Coordinated

\* A dispatch ends only when no request of its coroutine is awaited any more.
LEMMA EndDispatchCoordinated ==
    ASSUME Coordinated, NEW c \in Claimer, EndDispatch(c), UNCHANGED claim,
           posted' \subseteq [query : QueryId, worker : Worker, from : Claimer \cup {None}],
           \A m \in posted' : m.from # None => m.from # c /\ m \in posted
    PROVE  Coordinated'
  <1>1. \A d \in Claimer : dispatch'[d] = IF d = c THEN NoDispatch ELSE dispatch[d]
    BY DEF EndDispatch, Coordinated
  <1>2. Awaited'
    BY <1>1, LauncherAssumption DEF Coordinated, Awaited
  <1> QED
    BY <1>1, <1>2 DEF EndDispatch, Coordinated

LEMMA AbandonFacts ==
    ASSUME Coordinated, NEW C \in SUBSET Claimer, Abandon(C)
    PROVE  /\ posted' \subseteq [query : QueryId, worker : Worker, from : Claimer \cup {None}]
           /\ \A m \in posted' : m.from # None => m.from \notin C /\ m \in posted
  <1> SUFFICES ASSUME NEW m \in posted'
               PROVE  /\ m \in [query : QueryId, worker : Worker, from : Claimer \cup {None}]
                      /\ m.from # None => m.from \notin C /\ m \in posted
    OBVIOUS
  <1> PICK n \in posted : m = [n EXCEPT !.from = IF @ \in C THEN None ELSE @]
    BY DEF Abandon
  <1>1. n \in [query : QueryId, worker : Worker, from : Claimer \cup {None}]
    BY DEF Coordinated
  <1> QED
    BY <1>1

LEMMA DispatchCoordinated ==
    ASSUME RowInv, Coordinated, NEW c \in Claimer,
           DispatchAccepted(c) \/ DispatchRejected(c) \/ DispatchFailed(c)
    PROVE  Coordinated'
  <1>1. UNCHANGED claim
    BY DEF DispatchAccepted, DispatchRejected, DispatchFailed, MarkOrLeave, vars,
           RevertQueryToPending, MarkWorkerUnreachable
  <1>2. CASE DispatchAccepted(c) \/ DispatchRejected(c)
    <2>1. dispatch[c].reply # "none"
      BY <1>2 DEF DispatchAccepted, DispatchRejected
    <2>2. \A m \in posted : m.from # c
      BY <2>1, AwaitedFacts
    <2>3. UNCHANGED posted /\ EndDispatch(c)
      BY <1>2 DEF DispatchAccepted, DispatchRejected
    <2> QED
      BY <1>1, <2>2, <2>3, EndDispatchCoordinated DEF Coordinated
  <1>3. CASE DispatchFailed(c)
    BY <1>1, <1>3, AbandonFacts, EndDispatchCoordinated DEF DispatchFailed
  <1> QED
    BY <1>2, <1>3

LEMMA RequestCoordinated ==
    ASSUME Coordinated, NEW m \in posted, RequestArrives(m)
    PROVE  Coordinated'
  <1>1. PICK r \in Reply : Answer(m, r)
    BY DEF RequestArrives, AcceptQuery, RejectQuery, RefuseQuery, Reply
  <1>2. m \in [query : QueryId, worker : Worker, from : Claimer \cup {None}]
    BY DEF Coordinated
  <1>3. \A c \in Claimer : m.from = c =>
          dispatch[c] = [query |-> m.query, worker |-> m.worker, reply |-> "none"]
    BY DEF Coordinated, Awaited
  <1>4. \A c \in Claimer : dispatch'[c] =
          IF c = m.from THEN [query |-> m.query, worker |-> m.worker, reply |-> r]
                        ELSE dispatch[c]
    BY <1>1, <1>3 DEF Answer
  <1>5. dispatch' \in [Claimer -> {NoDispatch} \cup Waiting]
    <2>1. dispatch' = [c \in Claimer |-> dispatch'[c]]
      BY <1>1 DEF Answer
    <2>2. \A c \in Claimer : dispatch'[c] \in {NoDispatch} \cup Waiting
      BY <1>2, <1>4 DEF Coordinated, Waiting
    <2> QED
      BY <2>1, <2>2
  <1>6. \A n \in posted : n.from = m.from /\ n.from \in Claimer => n = m
    <2> SUFFICES ASSUME NEW n \in posted, n.from = m.from, n.from \in Claimer PROVE n = m
      OBVIOUS
    <2>1. n \in [query : QueryId, worker : Worker, from : Claimer \cup {None}]
      BY DEF Coordinated
    <2>2. dispatch[n.from] = [query |-> n.query, worker |-> n.worker, reply |-> "none"]
      BY DEF Coordinated, Awaited
    <2>3. n.query = m.query /\ n.worker = m.worker
      BY <1>3, <2>2
    <2> QED
      BY <1>2, <2>1, <2>3
  <1>7. Awaited'
    <2> SUFFICES ASSUME NEW n \in posted, n # m, n.from \in Claimer
                 PROVE  dispatch'[n.from] =
                          [query |-> n.query, worker |-> n.worker, reply |-> "none"]
      BY DEF Awaited, RequestArrives
    <2>1. n.from # m.from
      BY <1>6
    <2> QED
      BY <1>4, <2>1 DEF Coordinated, Awaited
  <1>8. \A c \in Claimer : dispatch'[c] # NoDispatch => claim'[c] = NoClaim
    BY <1>3, <1>4, AwaitedFacts, StoreAssumption DEF RequestArrives, vars, Coordinated, NoDispatch
  <1> QED
    BY <1>5, <1>7, <1>8 DEF RequestArrives, Coordinated

LEMMA DownCoordinated ==
    ASSUME Coordinated, NEW w \in Worker, Down(w)
    PROVE  Coordinated'
  <1> DEFINE Cut(c) == \E m \in posted : m.worker = w /\ m.from = c
  <1>1. \A c \in Claimer : dispatch'[c] =
          IF Cut(c) THEN [dispatch[c] EXCEPT !.reply = "refused"] ELSE dispatch[c]
    BY DEF Down
  <1>2. \A c \in Claimer : Cut(c) => dispatch[c] \in Waiting
    <2> SUFFICES ASSUME NEW c \in Claimer, Cut(c) PROVE dispatch[c] \in Waiting
      OBVIOUS
    <2>1. dispatch[c].query \in QueryId
      BY AwaitedFacts
    <2>2. dispatch[c] # NoDispatch
      BY <2>1, StoreAssumption DEF NoDispatch
    <2> QED
      BY <2>2 DEF Coordinated
  <1>3. dispatch' \in [Claimer -> {NoDispatch} \cup Waiting]
    <2>1. dispatch' = [c \in Claimer |-> dispatch'[c]]
      BY DEF Down
    <2>2. ASSUME NEW c \in Claimer PROVE dispatch'[c] \in {NoDispatch} \cup Waiting
      <3>1. CASE Cut(c)
        BY <1>1, <1>2, <3>1 DEF Waiting, Reply
      <3>2. CASE ~Cut(c)
        BY <1>1, <3>2 DEF Coordinated
      <3> QED
        BY <3>1, <3>2
    <2> QED
      BY <2>1, <2>2
  <1>4. \A m \in posted' : m \in posted /\ m.worker # w
    BY DEF Down
  <1>5. Awaited'
    <2> SUFFICES ASSUME NEW m \in posted', m.from \in Claimer
                 PROVE  dispatch'[m.from] =
                          [query |-> m.query, worker |-> m.worker, reply |-> "none"]
      BY DEF Awaited
    <2>1. dispatch[m.from] = [query |-> m.query, worker |-> m.worker, reply |-> "none"]
      BY <1>4 DEF Coordinated, Awaited
    <2>2. ~Cut(m.from)
      <3> SUFFICES ASSUME NEW n \in posted, n.worker = w, n.from = m.from PROVE FALSE
        OBVIOUS
      <3>1. dispatch[m.from] = [query |-> n.query, worker |-> n.worker, reply |-> "none"]
        BY DEF Coordinated, Awaited
      <3> QED
        BY <1>4, <2>1, <3>1
    <2> QED
      BY <1>1, <2>1, <2>2
  <1>6. \A c \in Claimer : dispatch'[c] # NoDispatch => claim'[c] = NoClaim
    BY <1>1, <1>2, StoreAssumption DEF Coordinated, Down, vars, NoDispatch, Waiting
  <1> QED
    BY <1>3, <1>4, <1>5, <1>6 DEF Down, Coordinated

LEMMA LifespanCoordinated ==
    ASSUME Coordinated, NEW w \in Worker, Lifespan(w)
    PROVE  Coordinated'
  <1>1. CASE Exit(w) \/ WorkerCrash(w)
    BY <1>1, DownCoordinated DEF Exit, WorkerCrash
  <1>2. CASE ~(Exit(w) \/ WorkerCrash(w))
    <2>1. UNCHANGED <<coordinatorVars, posted>>
      BY <1>2 DEF Lifespan, Register, NotifyReady, Listen, Heartbeat, LateHeartbeat,
                  MissHeartbeats, BeginShutdown, NotifyShutdown, WorkerOnly, netVars
    <2>2. UNCHANGED claim
      <3>1. CASE Register(w) \/ NotifyReady(w) \/ Listen(w) \/ BeginShutdown(w) \/ NotifyShutdown(w)
        BY <3>1 DEF Register, RegisterWorker, NotifyReady, ReadyWorker, Listen, BeginShutdown,
                    NotifyShutdown, ShutdownWorker, vars
      <3>2. CASE Heartbeat(w) \/ LateHeartbeat(w) \/ MissHeartbeats(w)
        BY <3>2 DEF Heartbeat, LateHeartbeat, HeartbeatWorker, MissHeartbeats, HeartbeatExpires
      <3> QED
        BY <1>2, <3>1, <3>2 DEF Lifespan
    <2> QED
      BY <2>1, <2>2, Undisturbed DEF coordinatorVars, Coordinated
  <1> QED
    BY <1>1, <1>2

LEMMA QueryCoordinated ==
    ASSUME RowInv, Processes, Coordinated, NEW q \in QueryId, SubmitQuery(q) \/ CancelStep(q)
    PROVE  Coordinated'
  <1>1. CASE SubmitQuery(q)
    BY <1>1, Undisturbed DEF SubmitQuery, CreateQuery, netVars, Coordinated
  <1>2. CASE CancelStep(q)
    <2>1. PICK stage \in Stage, w \in Worker \cup {None} :
            SetCancel(q, stage, w) /\ (stage = "post" => w \in Worker)
      <3>1. status[q] = "running" => assigned[q] \in Worker
        BY DEF RowInv, WorkerIffRunning
      <3> QED
        BY <1>2, <3>1 DEF CancelStep, CancelRequested, CancelMarks, CancelReachesWorker,
                          CancelObserved, Stage
    <2>2. UNCHANGED claim
      BY <1>2 DEF CancelStep, CancelRequested, CancelMarks, CancelReachesWorker, CancelObserved,
                  MarkQueryCancelled, vars
    <2>3. /\ cancel' \in [QueryId -> [stage : Stage, worker : Worker \cup {None}]]
          /\ \A p \in QueryId : cancel'[p].stage = "post" => cancel'[p].worker \in Worker
      BY <2>1 DEF SetCancel, Coordinated
    <2> QED
      BY <2>1, <2>2, <2>3 DEF SetCancel, netVars, Coordinated, Awaited
  <1> QED
    BY <1>1, <1>2

LEMMA CrashCoordinated ==
    ASSUME RowInv, Coordinated, CoordinatorCrash
    PROVE  Coordinated'
  <1>1. Abandon(Claimer) /\ dispatch' = [c \in Claimer |-> NoDispatch]
    BY DEF CoordinatorCrash
  <1>2. /\ posted' \subseteq [query : QueryId, worker : Worker, from : Claimer \cup {None}]
        /\ \A m \in posted' : m.from \notin Claimer
    BY <1>1, AbandonFacts, LauncherAssumption
  <1>3. cancel' \in [QueryId -> [stage : Stage, worker : Worker \cup {None}]]
        /\ \A q \in QueryId : cancel'[q].stage # "post"
    BY DEF CoordinatorCrash, NoCancel, Stage
  <1> QED
    BY <1>1, <1>2, <1>3 DEF CoordinatorCrash, Coordinated, Awaited

LEMMA StepCoordinated ==
    ASSUME RowInv, Processes, Coordinated, [LauncherNext]_launcherVars
    PROVE  Coordinated'
  <1>1. CASE UNCHANGED launcherVars
    BY <1>1, Undisturbed DEF launcherVars, vars, coordinatorVars, netVars, Coordinated
  <1>2. CASE \E q \in QueryId : SubmitQuery(q) \/ CancelStep(q)
    BY <1>2, QueryCoordinated
  <1>3. CASE \E c \in Claimer, q \in QueryId : SubmitClaims(c, q)
    <2> PICK c \in Claimer, q \in QueryId : SubmitClaims(c, q)
      BY <1>3
    <2>1. CASE ClaimQueryById(c, q)
      BY <2>1, LockUndisturbed DEF SubmitClaims, ClaimQueryById, netVars, Coordinated
    <2>2. CASE UNCHANGED vars
      BY <2>2, Undisturbed DEF SubmitClaims, vars, netVars, Coordinated
    <2> QED
      BY <2>1, <2>2 DEF SubmitClaims
  <1>4. CASE \E c \in Claimer : Schedule(c)
    <2> PICK c \in Claimer : Schedule(c)
      BY <1>4
    <2>1. CASE ScheduleNext(c)
      BY <2>1, LockUndisturbed
         DEF ScheduleNext, ClaimPendingQuery, coordinatorVars, netVars, Coordinated
    <2> QED
      BY <2>1, ChooseCoordinated, PostCoordinated, DispatchCoordinated DEF Schedule
  <1>5. CASE Sweep
    BY <1>5, Undisturbed DEF Sweep, SweepStaleWorkers, coordinatorVars, netVars, Coordinated
  <1>6. CASE \E m \in posted : RequestArrives(m)
    BY <1>6, RequestCoordinated
  <1>7. CASE \E w \in Worker, q \in QueryId, outcome \in Outcome : TaskEnds(w, q, outcome)
    BY <1>7, Undisturbed DEF TaskEnds, vars, coordinatorVars, Coordinated
  <1>8. CASE \E r \in reports : ReportArrives(r) \/ ReportLost(r)
    BY <1>8, Undisturbed
       DEF ReportArrives, ReportLost, EndReport, CompleteQuery, vars, coordinatorVars, Coordinated
  <1>9. CASE \E w \in Worker : Lifespan(w)
    BY <1>9, LifespanCoordinated
  <1>10. CASE CoordinatorCrash
    BY <1>10, CrashCoordinated
  <1> QED
    BY <1>1, <1>2, <1>3, <1>4, <1>5, <1>6, <1>7, <1>8, <1>9, <1>10 DEF LauncherNext

LEMMA StepProcesses ==
    ASSUME Processes, Coordinated, [LauncherNext]_launcherVars
    PROVE  Processes'
  <1>1. CASE UNCHANGED launcherVars
    BY <1>1 DEF launcherVars, workerVars, netVars, Processes
  <1>2. CASE \E m \in posted : RequestArrives(m)
    BY <1>2, RequestProcesses
  <1>3. CASE \E w \in Worker, q \in QueryId, outcome \in Outcome : TaskEnds(w, q, outcome)
    BY <1>3, TaskProcesses
  <1>4. CASE \E r \in reports : ReportArrives(r) \/ ReportLost(r)
    BY <1>4, ReportProcesses
  <1>5. CASE \E w \in Worker : Lifespan(w)
    BY <1>5, LifespanProcesses
  <1> QED
    BY <1>1, <1>2, <1>3, <1>4, <1>5, CoordinatorProcesses DEF LauncherNext

LEMMA LauncherStepInv == LauncherInv /\ [LauncherNext]_launcherVars => LauncherInv'
  <1> SUFFICES ASSUME LauncherInv, [LauncherNext]_launcherVars PROVE LauncherInv'
    OBVIOUS
  <1>1. RowInv'
    BY LauncherStepMaps, NextRowInv DEF LauncherInv
  <1>2. Coordinated' /\ Processes'
    BY InvParts, StepCoordinated, StepProcesses
  <1>3. faults' \in 0 .. MaxFaults
    BY InvParts, EveryStepCountsFaults, FaultsBounded
  <1> QED
    BY <1>1, <1>2, <1>3 DEF LauncherInv, LauncherTypeOK, Coordinated, Processes, RowInv

(***************************************************************************)
(* How a running row may be stranded.                                       *)
(***************************************************************************)

\* A worker's row is behind its process in known ways only, and a process that
\* does not serve yet, or not any more, has neither tasks nor reports.
Lively ==
    \A w \in Worker :
        /\ proc[w] \in {"ready", "up", "stopping", "draining"} =>
             wstatus[w] \in {"running", "shutting_down", "unreachable", "stopped"}
        /\ proc[w] \in {"down", "starting", "ready"} =>
             /\ \A q \in QueryId : executing[w][q] = 0
             /\ \A r \in reports : r.worker # w

LEMMA WorkerRowOnly ==
    ASSUME RowInv, NEW w \in Worker,
           \/ RegisterWorker(w) \/ ReadyWorker(w) \/ HeartbeatWorker(w, "running")
           \/ ShutdownWorker(w) \/ HeartbeatExpires(w)
    PROVE  /\ UNCHANGED <<queryTable, claim>>
           /\ \A v \in Worker : v # w => wstatus'[v] = wstatus[v]
           /\ RegisterWorker(w) \/ wstatus'[w] \in {wstatus[w], "running", "shutting_down"}
  BY DEF RegisterWorker, ReadyWorker, HeartbeatWorker, ShutdownWorker, HeartbeatExpires,
         RowInv, TypeOK

LEMMA LifespanLively ==
    ASSUME RowInv, Processes, Lively, NEW w \in Worker, Lifespan(w)
    PROVE  Lively'
  <1> USE DEF Lively, Processes
  <1>1. CASE Register(w)
    BY <1>1, WorkerRowOnly DEF Register, WorkerOnly, netVars
  <1>2. CASE NotifyReady(w)
    <2>1. CASE ReadyWorker(w) /\ proc' = [proc EXCEPT ![w] = "ready"]
      <3>1. wstatus' = [wstatus EXCEPT ![w] = "running"]
        BY <2>1 DEF ReadyWorker
      <3> QED
        BY <1>2, <2>1, <3>1 DEF NotifyReady, WorkerOnly, netVars, RowInv, TypeOK
    <2>2. CASE UNCHANGED vars /\ proc' = [proc EXCEPT ![w] = "down"]
      BY <1>2, <2>2 DEF NotifyReady, WorkerOnly, netVars, vars, workerTable
    <2> QED
      BY <1>2, <2>1, <2>2 DEF NotifyReady
  <1>3. CASE Listen(w) \/ BeginShutdown(w)
    BY <1>3 DEF Listen, BeginShutdown, WorkerOnly, netVars, vars, workerTable
  <1>4. CASE Heartbeat(w)
    <2>1. wstatus' = [wstatus EXCEPT ![w] = "running"]
      BY <1>4 DEF Heartbeat, HeartbeatWorker
    <2> QED
      BY <1>4, <2>1 DEF Heartbeat, WorkerOnly, netVars, RowInv, TypeOK
  <1>5. CASE LateHeartbeat(w)
    <2>1. wstatus' = [wstatus EXCEPT ![w] = "running"]
      BY <1>5 DEF LateHeartbeat, HeartbeatWorker
    <2> QED
      BY <1>5, <2>1 DEF LateHeartbeat, workerVars, RowInv, TypeOK
  <1>6. CASE MissHeartbeats(w)
    BY <1>6 DEF MissHeartbeats, HeartbeatExpires, WorkerOnly, netVars
  <1>7. CASE NotifyShutdown(w)
    <2>1. /\ wstatus' = wstatus \/ wstatus' = [wstatus EXCEPT ![w] = "shutting_down"]
          /\ proc' = [proc EXCEPT ![w] = "draining"]
          /\ UNCHANGED <<executing, reports>>
      BY <1>7 DEF NotifyShutdown, ShutdownWorker, vars, workerTable, netVars
    <2> QED
      BY <1>7, <2>1 DEF NotifyShutdown, RowInv, TypeOK
  <1>8. CASE Exit(w) \/ WorkerCrash(w)
    BY <1>8 DEF Exit, WorkerCrash, Down, vars, workerTable
  <1> QED
    BY <1>1, <1>2, <1>3, <1>4, <1>5, <1>6, <1>7, <1>8 DEF Lifespan

LEMMA ScheduleLively ==
    ASSUME RowInv, Coordinated, Lively, NEW c \in Claimer, Schedule(c)
    PROVE  Lively'
  <1>1. UNCHANGED <<proc, executing, reports>>
    BY DEF Schedule, ScheduleNext, ChooseWorker, PostQuery, DispatchAccepted, DispatchRejected,
           DispatchFailed, EndDispatch, workerVars, netVars
  <1>2. \A w \in Worker : wstatus'[w] \in {wstatus[w], "unreachable"}
    <2>1. CASE DispatchFailed(c)
      BY <2>1 DEF DispatchFailed, MarkOrLeave, MarkWorkerUnreachable, vars, workerTable, RowInv, TypeOK
    <2>2. CASE ScheduleNext(c) \/ ChooseWorker(c) \/ PostQuery(c)
      BY <2>2 DEF ScheduleNext, ClaimPendingQuery, LockRow, ChooseWorker, PickWorker, PickNone,
                  PostQuery, CommitClaim, workerTable
    <2>3. CASE DispatchAccepted(c) \/ DispatchRejected(c)
      BY <2>3 DEF DispatchAccepted, DispatchRejected, RevertQueryToPending, vars, workerTable
    <2> QED
      BY <2>1, <2>2, <2>3 DEF Schedule
  <1> QED
    BY <1>1, <1>2 DEF Lively

LEMMA StepLively ==
    ASSUME RowInv, Coordinated, Processes, Lively, [LauncherNext]_launcherVars
    PROVE  Lively'
  <1> USE DEF workerTable, queryTable
  <1>1. CASE UNCHANGED launcherVars
    BY <1>1 DEF launcherVars, vars, workerVars, netVars, Lively
  <1>2. CASE \E q \in QueryId : SubmitQuery(q) \/ CancelStep(q)
    <2>1. UNCHANGED <<wstatus, proc, executing, reports>>
      BY <1>2 DEF SubmitQuery, CreateQuery, CancelStep, CancelRequested, CancelMarks,
                  MarkQueryCancelled, CancelReachesWorker, CancelObserved, SetCancel,
                  vars, workerVars, netVars
    <2> QED
      BY <2>1 DEF Lively
  <1>3. CASE \E c \in Claimer, q \in QueryId : SubmitClaims(c, q)
    BY <1>3 DEF SubmitClaims, ClaimQueryById, LockRow, vars, workerVars, netVars, Lively
  <1>4. CASE \E c \in Claimer : Schedule(c)
    BY <1>4, ScheduleLively
  <1>5. CASE Sweep
    BY <1>5 DEF Sweep, SweepStaleWorkers, StaleWorkers, workerVars, netVars, Lively
  <1>6. CASE \E m \in posted : RequestArrives(m)
    <2> PICK m \in posted : RequestArrives(m)
      BY <1>6
    <2>1. m.worker \in Worker /\ m.query \in QueryId
      BY DEF Coordinated
    <2>2. CASE AcceptQuery(m)
      BY <2>1, <2>2 DEF RequestArrives, AcceptQuery, Accepts, vars, Processes, Lively
    <2>3. CASE RejectQuery(m) \/ RefuseQuery(m)
      BY <2>3 DEF RequestArrives, RejectQuery, RefuseQuery, vars, workerVars, Lively
    <2> QED
      BY <2>2, <2>3 DEF RequestArrives
  <1>7. CASE \E w \in Worker, q \in QueryId, outcome \in Outcome : TaskEnds(w, q, outcome)
    <2> PICK w \in Worker, q \in QueryId, outcome \in Outcome : TaskEnds(w, q, outcome)
      BY <1>7
    <2>1. executing[w][q] # 0
      BY DEF TaskEnds, Processes
    <2>2. proc[w] \notin {"down", "starting", "ready"}
      BY <2>1 DEF Lively
    <2> QED
      BY <2>2 DEF TaskEnds, vars, Processes, Lively
  <1>8. CASE \E r \in reports : ReportArrives(r) \/ ReportLost(r)
    BY <1>8 DEF ReportArrives, ReportLost, EndReport, CompleteQuery, vars, Lively
  <1>9. CASE \E w \in Worker : Lifespan(w)
    BY <1>9, LifespanLively
  <1>10. CASE CoordinatorCrash
    BY <1>10 DEF CoordinatorCrash, Rollback, vars, workerVars, Lively
  <1> QED
    BY <1>1, <1>2, <1>3, <1>4, <1>5, <1>6, <1>7, <1>8, <1>9, <1>10 DEF LauncherNext

Swept(w) == proc[w] = "down" /\ wstatus[w] \in {"running", "shutting_down", "unreachable"}

Supported(q, w) == Dispatching(q, w) \/ executing[w][q] > 0 \/ Reporting(q, w) \/ Swept(w)

\* A step that keeps what a running row is backed by does not strand it.
LEMMA KeptBacked ==
    ASSUME RowInv, NEW q \in QueryId,
           status'[q] = "running" => status[q] = "running" /\ assigned'[q] = assigned[q],
           \A w \in Worker : assigned[q] = w /\ Supported(q, w) => Supported(q, w)'
    PROVE  ~(Stranded(q)' /\ ~Stranded(q))
  <1> SUFFICES ASSUME status'[q] = "running", Backed(q) PROVE Backed(q)'
    BY DEF Stranded
  <1> PICK w \in Worker : w = assigned[q]
    BY DEF RowInv, WorkerIffRunning
  <1>1. Supported(q, w)'
    BY DEF Backed, Supported, Swept
  <1> QED
    BY <1>1 DEF Backed, Supported, Swept

\* Rows and their backing stay, and only workers that the sweep would not find change.
LEMMA SameBacking ==
    ASSUME NEW q \in QueryId, UNCHANGED <<dispatch, executing, reports>>,
           \A w \in Worker : Swept(w) => Swept(w)'
    PROVE  \A w \in Worker : Supported(q, w) => Supported(q, w)'
  BY DEF Supported, Dispatching, Reporting

LEMMA LifespanStrands ==
    ASSUME RowInv, Processes, Coordinated, Lively, NEW w \in Worker, Lifespan(w),
           NEW q \in QueryId, Stranded(q)', ~Stranded(q)
    PROVE  MayStrand(q)
  <1>1. UNCHANGED queryTable
    <2>1. CASE Register(w) \/ NotifyReady(w) \/ NotifyShutdown(w)
      BY <2>1 DEF Register, RegisterWorker, NotifyReady, ReadyWorker, NotifyShutdown,
                  ShutdownWorker, vars, queryTable
    <2>2. CASE Heartbeat(w) \/ LateHeartbeat(w) \/ MissHeartbeats(w)
      BY <2>2 DEF Heartbeat, LateHeartbeat, HeartbeatWorker, MissHeartbeats, HeartbeatExpires
    <2>3. CASE Listen(w) \/ BeginShutdown(w) \/ Exit(w) \/ WorkerCrash(w)
      BY <2>3 DEF Listen, BeginShutdown, Exit, WorkerCrash, Down, vars, queryTable
    <2> QED
      BY <2>1, <2>2, <2>3 DEF Lifespan
  <1>2. status'[q] = status[q] /\ assigned'[q] = assigned[q]
    BY <1>1 DEF queryTable
  <1>3. PICK v \in Worker : assigned[q] = v /\ Supported(q, v) /\ ~Supported(q, v)'
    BY <1>2, KeptBacked
  <1>4. CASE Register(w)
    <2>1. UNCHANGED <<dispatch, executing, reports>>
      BY <1>4 DEF Register, WorkerOnly, coordinatorVars, netVars
    <2>2. Swept(v) => v = w \/ Swept(v)'
      BY <1>4 DEF Register, RegisterWorker, Swept, Processes, RowInv, TypeOK
    <2>3. v = w
      BY <1>3, <2>1, <2>2 DEF Supported, Dispatching, Reporting
    <2> QED
      BY <1>3, <1>4, <2>3 DEF MayStrand
  <1>5. CASE Exit(w) \/ WorkerCrash(w)
    <2> USE DEF Supported
    <2>1. Down(w) /\ (Exit(w) => /\ \A p \in QueryId : executing[w][p] = 0
                                 /\ \A r \in reports : r.worker # w)
      BY <1>5 DEF Exit, WorkerCrash
    <2>2. Dispatching(q, v) => Dispatching(q, v)'
      <3> SUFFICES ASSUME NEW c \in Claimer, dispatch[c].query = q, dispatch[c].worker = v,
                          dispatch[c].reply # "accepted"
                   PROVE  /\ dispatch'[c].query = q /\ dispatch'[c].worker = v
                          /\ dispatch'[c].reply # "accepted"
        BY DEF Dispatching
      <3>1. dispatch[c] \in Waiting
        BY StoreAssumption DEF Coordinated, NoDispatch
      <3> QED
        BY <2>1, <3>1 DEF Down, Waiting
    <2>3. executing[v][q] > 0 => v = w \/ executing'[v][q] > 0
      BY <2>1 DEF Down, Processes
    <2>4. Reporting(q, v) => v = w \/ Reporting(q, v)'
      BY <2>1 DEF Down, Reporting
    <2>5. Swept(v) => Swept(v)'
      BY <2>1 DEF Down, Swept, Processes, vars, workerTable
    <2>6. v = w /\ (executing[w][q] > 0 \/ Reporting(q, w))
      BY <1>3, <2>2, <2>3, <2>4, <2>5
    <2>7. WorkerCrash(w)
      BY <1>5, <2>1, <2>6 DEF Reporting
    <2>8. proc[w] \in {"up", "stopping", "draining"}
      BY <2>6 DEF Lively, Reporting, Processes, Lifetime
    <2>9. wstatus[w] \in {"running", "shutting_down", "unreachable", "stopped"}
      BY <2>8 DEF Lively
    <2>10. proc'[w] = "down" /\ wstatus'[w] = wstatus[w]
      BY <2>1 DEF Down, Processes, vars, workerTable
    <2>11. wstatus[w] = "stopped"
      BY <1>3, <2>6, <2>9, <2>10 DEF Swept
    <2> QED
      BY <1>3, <2>6, <2>7, <2>11 DEF MayStrand
  <1>6. CASE ~(Register(w) \/ Exit(w) \/ WorkerCrash(w))
    <2>1. UNCHANGED <<dispatch, executing, reports>>
      BY <1>6 DEF Lifespan, NotifyReady, Listen, Heartbeat, LateHeartbeat, MissHeartbeats,
                  BeginShutdown, NotifyShutdown, WorkerOnly, coordinatorVars, workerVars, netVars
    <2>2. Swept(v) => Swept(v)'
      <3> USE DEF Swept, Processes, RowInv, TypeOK, vars, workerTable
      <3>1. CASE NotifyReady(w) \/ Listen(w) \/ BeginShutdown(w) \/ NotifyShutdown(w)
        BY <3>1 DEF NotifyReady, ReadyWorker, Listen, BeginShutdown, NotifyShutdown, ShutdownWorker
      <3>2. CASE Heartbeat(w) \/ LateHeartbeat(w) \/ MissHeartbeats(w)
        BY <3>2 DEF Heartbeat, LateHeartbeat, HeartbeatWorker, MissHeartbeats, HeartbeatExpires,
                    workerVars
      <3> QED
        BY <1>6, <3>1, <3>2 DEF Lifespan
    <2> QED
      BY <1>3, <2>1, <2>2 DEF Supported, Dispatching, Reporting
  <1> QED
    BY <1>4, <1>5, <1>6

\* The end of a dispatch strands a query only if its worker is passed over.
LEMMA DispatchStrands ==
    ASSUME RowInv, Coordinated, NEW c \in Claimer,
           DispatchAccepted(c) \/ DispatchRejected(c) \/ DispatchFailed(c),
           NEW q \in QueryId, Stranded(q)', ~Stranded(q)
    PROVE  MayStrand(q)
  <1> DEFINE w == dispatch[c].worker
  <1>1. /\ dispatch' = [dispatch EXCEPT ![c] = NoDispatch]
        /\ UNCHANGED <<executing, reports, proc>>
    BY DEF DispatchAccepted, DispatchRejected, DispatchFailed, EndDispatch, workerVars
  <1>2. \A v : Dispatching(q, v) =>
          Dispatching(q, v)' \/ (dispatch[c].query = q /\ w = v /\ dispatch[c].reply # "accepted")
    BY <1>1 DEF Dispatching, Coordinated
  <1>3. CASE DispatchAccepted(c)
    <2>1. UNCHANGED vars /\ dispatch[c].reply = "accepted"
      BY <1>3 DEF DispatchAccepted
    <2>2. \A v \in Worker : Supported(q, v) => Supported(q, v)'
      BY <1>1, <1>2, <2>1 DEF Supported, Reporting, Swept, vars, workerTable
    <2> QED
      BY <2>1, <2>2, KeptBacked DEF vars, queryTable
  <1>4. CASE DispatchRejected(c)
    <2>1. UNCHANGED wstatus
      BY <1>4 DEF DispatchRejected, RevertQueryToPending, vars, workerTable
    <2>2. /\ status'[q] = "running" => status[q] = "running" /\ assigned'[q] = assigned[q]
          /\ status'[q] = "running" => dispatch[c].query # q
      BY <1>4, DispatchFacts
         DEF DispatchRejected, RevertQueryToPending, vars, queryTable, RowInv, TypeOK, Coordinated
    <2>3. status'[q] = "running"
      BY DEF Stranded
    <2>4. \A v \in Worker : Supported(q, v) => Supported(q, v)'
      BY <1>1, <1>2, <2>1, <2>2, <2>3 DEF Supported, Reporting, Swept
    <2> QED
      BY <2>2, <2>4, KeptBacked
  <1>5. CASE DispatchFailed(c)
    <2>1. MarkOrLeave(w) /\ status'[q] = "running"
      BY <1>5 DEF DispatchFailed, Stranded
    <2>2. /\ status[q] = "running" /\ assigned'[q] = assigned[q]
          /\ wstatus[w] \in {"running", "shutting_down"} => assigned[q] # w
          /\ \A v \in Worker : wstatus'[v] \in {wstatus[v], "unreachable"}
      BY <2>1 DEF MarkOrLeave, MarkWorkerUnreachable, ReturnQueriesOf, vars, queryTable,
                  workerTable, RowInv, TypeOK
    <2>3. PICK v \in Worker : assigned[q] = v /\ Supported(q, v) /\ ~Supported(q, v)'
      BY <2>2, KeptBacked
    <2>4. Swept(v) => Swept(v)'
      BY <1>1, <2>2 DEF Swept
    <2>5. dispatch[c].query = q /\ w = v
      BY <1>1, <1>2, <2>3, <2>4 DEF Supported, Reporting
    <2> QED
      BY <1>5, <2>2, <2>3, <2>5 DEF MayStrand
  <1> QED
    BY <1>3, <1>4, <1>5

LEMMA RequestStrands ==
    ASSUME RowInv, Processes, Coordinated, NEW m \in posted, RequestArrives(m),
           NEW q \in QueryId
    PROVE  ~(Stranded(q)' /\ ~Stranded(q))
  <1>1. UNCHANGED <<vars, reports, proc>>
    BY DEF RequestArrives, AcceptQuery, RejectQuery, RefuseQuery, workerVars
  <1>2. m.worker \in Worker /\ m.query \in QueryId
    BY DEF Coordinated
  <1>3. \A c \in Claimer : m.from = c => dispatch[c].query = m.query /\ dispatch[c].worker = m.worker
    <2>1. \A c \in Claimer : m.from = c =>
            dispatch[c] = [query |-> m.query, worker |-> m.worker, reply |-> "none"]
      BY DEF Coordinated, Awaited
    <2> QED
      BY <2>1
  <1>4. CASE AcceptQuery(m)
    <2>1. \A w \in Worker : executing[w][q] > 0 => executing'[w][q] > 0
      BY <1>2, <1>4 DEF AcceptQuery, Processes
    <2>2. executing'[m.worker][m.query] > 0
      BY <1>2, <1>4 DEF AcceptQuery, Processes
    <2>3. \A w \in Worker : Dispatching(q, w) =>
            Dispatching(q, w)' \/ (m.query = q /\ m.worker = w)
      BY <1>3, <1>4 DEF AcceptQuery, Answer, Dispatching
    <2>4. \A w \in Worker : Supported(q, w) => Supported(q, w)'
      BY <1>1, <2>1, <2>2, <2>3 DEF Supported, Reporting, Swept, vars, workerTable
    <2> QED
      BY <1>1, <2>4, KeptBacked DEF vars, queryTable
  <1>5. CASE RejectQuery(m) \/ RefuseQuery(m)
    <2>1. PICK r \in {"busy", "refused"} : Answer(m, r)
      BY <1>5 DEF RejectQuery, RefuseQuery
    <2>2. \A w \in Worker : Dispatching(q, w) => Dispatching(q, w)'
      <3> SUFFICES ASSUME NEW w \in Worker, NEW c \in Claimer, dispatch[c].query = q,
                          dispatch[c].worker = w, dispatch[c].reply # "accepted"
                   PROVE  /\ dispatch'[c].query = q /\ dispatch'[c].worker = w
                          /\ dispatch'[c].reply # "accepted"
        BY DEF Dispatching
      <3>1. dispatch[c] \in Waiting
        BY StoreAssumption DEF Coordinated, NoDispatch
      <3> QED
        BY <2>1, <3>1 DEF Answer, Waiting
    <2>3. UNCHANGED executing
      BY <1>5 DEF RejectQuery, RefuseQuery, workerVars
    <2>4. \A w \in Worker : Supported(q, w) => Supported(q, w)'
      BY <1>1, <2>2, <2>3 DEF Supported, Reporting, Swept, vars, workerTable
    <2> QED
      BY <1>1, <2>4, KeptBacked DEF vars, queryTable
  <1> QED
    BY <1>4, <1>5 DEF RequestArrives

LEMMA TaskStrands ==
    ASSUME RowInv, Processes, NEW w \in Worker, NEW p \in QueryId, NEW outcome \in Outcome,
           TaskEnds(w, p, outcome), NEW q \in QueryId
    PROVE  ~(Stranded(q)' /\ ~Stranded(q))
  <1>1. UNCHANGED <<vars, dispatch, proc>> /\ reports \subseteq reports'
    BY DEF TaskEnds, coordinatorVars
  <1>2. Reporting(p, w)'
    BY DEF TaskEnds, Reporting
  <1>3. \A v \in Worker : executing[v][q] > 0 => executing'[v][q] > 0 \/ (q = p /\ v = w)
    BY DEF TaskEnds, Processes
  <1>4. \A v \in Worker : Supported(q, v) => Supported(q, v)'
    BY <1>1, <1>2, <1>3 DEF Supported, Dispatching, Reporting, Swept, vars, workerTable
  <1> QED
    BY <1>1, <1>4, KeptBacked DEF vars, queryTable

LEMMA ReportStrands ==
    ASSUME RowInv, Processes, NEW r \in reports, ReportArrives(r) \/ ReportLost(r),
           NEW q \in QueryId, Stranded(q)', ~Stranded(q)
    PROVE  MayStrand(q)
  <1>1. /\ UNCHANGED <<dispatch, proc, executing, wstatus>>
        /\ reports' = reports \ {r}
    BY DEF ReportArrives, ReportLost, EndReport, CompleteQuery, vars, workerTable, coordinatorVars
  <1>2. \A w : Reporting(q, w) => Reporting(q, w)' \/ r.query = q
    BY <1>1 DEF Reporting
  <1>3. status'[q] = "running"
    BY DEF Stranded
  <1>4. r.query \in QueryId /\ r.outcome \in Outcome
    BY DEF Processes
  <1>5. status[q] = "running" /\ assigned'[q] = assigned[q]
    BY <1>3, <1>4 DEF ReportArrives, ReportLost, CompleteQuery, vars, queryTable, Outcome,
                      RowInv, TypeOK
  <1>6. CASE ReportArrives(r)
    <2>1. r.query # q
      BY <1>3, <1>4, <1>5, <1>6 DEF ReportArrives, CompleteQuery, Active, vars, queryTable,
                                    Outcome, RowInv, TypeOK
    <2>2. \A w \in Worker : Supported(q, w) => Supported(q, w)'
      BY <1>1, <1>2, <2>1 DEF Supported, Dispatching, Swept
    <2> QED
      BY <1>5, <2>2, KeptBacked
  <1>7. CASE ReportLost(r)
    <2>1. r.query = q
      <3> SUFFICES ASSUME r.query # q PROVE FALSE
        OBVIOUS
      <3>1. \A w \in Worker : Supported(q, w) => Supported(q, w)'
        BY <1>1, <1>2 DEF Supported, Dispatching, Swept
      <3> QED
        BY <1>5, <3>1, KeptBacked
    <2> QED
      BY <1>7, <2>1 DEF MayStrand
  <1> QED
    BY <1>6, <1>7

LEMMA StepStrands ==
    ASSUME RowInv, Processes, Coordinated, Lively, [LauncherNext]_launcherVars,
           NEW q \in QueryId, Stranded(q)', ~Stranded(q)
    PROVE  MayStrand(q)
  <1> USE DEF queryTable, workerTable
  <1>0. status'[q] = "running"
    BY DEF Stranded
  <1>1. CASE UNCHANGED launcherVars
    <2>1. Stranded(q)' <=> Stranded(q)
      BY <1>1 DEF launcherVars, vars, coordinatorVars, workerVars, netVars, Stranded, Backed,
                  Dispatching, Reporting
    <2> QED
      BY <2>1
  <1>2. CASE \E p \in QueryId : SubmitQuery(p) \/ CancelStep(p)
    <2> PICK p \in QueryId : SubmitQuery(p) \/ CancelStep(p)
      BY <1>2
    <2>1. UNCHANGED <<dispatch, executing, reports, proc, wstatus>>
      BY DEF SubmitQuery, CreateQuery, CancelStep, CancelRequested, CancelMarks,
             MarkQueryCancelled, CancelReachesWorker, CancelObserved, SetCancel, vars, workerVars,
             netVars
    <2>2. status[q] = "running" /\ assigned'[q] = assigned[q]
      BY <1>0 DEF SubmitQuery, CreateQuery, CancelStep, CancelRequested, CancelMarks,
                  MarkQueryCancelled, CancelReachesWorker, CancelObserved, vars, RowInv, TypeOK
    <2> QED
      BY <2>1, <2>2, SameBacking, KeptBacked DEF Swept
  <1>3. CASE \/ \E c \in Claimer, p \in QueryId : SubmitClaims(c, p)
             \/ \E c \in Claimer : ScheduleNext(c) \/ ChooseWorker(c)
    <2>1. UNCHANGED <<dispatch, executing, reports, proc, wstatus, status, assigned>>
      BY <1>3 DEF SubmitClaims, ClaimQueryById, ScheduleNext, ClaimPendingQuery, LockRow,
                  ChooseWorker, PickWorker, PickNone, vars, coordinatorVars, workerVars, netVars
    <2> QED
      BY <1>0, <2>1, SameBacking, KeptBacked DEF Swept
  <1>4. CASE \E c \in Claimer : PostQuery(c)
    <2> PICK c \in Claimer : PostQuery(c)
      BY <1>4
    <2>1. /\ claim[c].phase = "picked"
          /\ status' = [status EXCEPT ![claim[c].query] = "running"]
          /\ assigned' = [assigned EXCEPT ![claim[c].query] = claim[c].worker]
          /\ dispatch' = [dispatch EXCEPT ![c] =
               [query |-> claim[c].query, worker |-> claim[c].worker, reply |-> "none"]]
          /\ UNCHANGED <<executing, reports, proc, wstatus>>
      BY DEF PostQuery, CommitClaim, workerVars
    <2>2. dispatch[c] = NoDispatch
      BY <2>1 DEF Coordinated, NoClaim
    <2>3. claim[c].query \in QueryId
      BY <2>1, ClaimStateFacts DEF RowInv
    <2>4. CASE claim[c].query = q
      <3>1. /\ dispatch'[c].query = q /\ dispatch'[c].worker = assigned'[q]
            /\ dispatch'[c].reply # "accepted"
        BY <2>1, <2>4 DEF Coordinated, RowInv, TypeOK
      <3> QED
        BY <3>1 DEF Stranded, Backed, Dispatching
    <2>5. CASE claim[c].query # q
      <3>1. status[q] = "running" /\ assigned'[q] = assigned[q]
        BY <1>0, <2>1, <2>3, <2>5 DEF RowInv, TypeOK
      <3>2. \A w : Dispatching(q, w) => Dispatching(q, w)'
        BY <2>1, <2>2, StoreAssumption DEF Dispatching, NoDispatch, Coordinated
      <3>3. \A w \in Worker : Supported(q, w) => Supported(q, w)'
        BY <2>1, <3>2 DEF Supported, Reporting, Swept
      <3> QED
        BY <3>1, <3>3, KeptBacked
    <2> QED
      BY <2>4, <2>5
  <1>5. CASE \E c \in Claimer : DispatchAccepted(c) \/ DispatchRejected(c) \/ DispatchFailed(c)
    BY <1>5, DispatchStrands
  <1>6. CASE Sweep
    <2>1. UNCHANGED <<dispatch, executing, reports, proc>> /\ SweepStaleWorkers
      BY <1>6 DEF Sweep, coordinatorVars, workerVars, netVars
    <2>2. status[q] = "running" /\ assigned'[q] = assigned[q] /\ assigned[q] \notin StaleWorkers
      BY <1>0, <2>1 DEF SweepStaleWorkers, ReturnQueriesOf
    <2>3. \A w \in Worker : assigned[q] = w => wstatus'[w] = wstatus[w]
      BY <2>1, <2>2 DEF SweepStaleWorkers
    <2>4. \A w \in Worker : assigned[q] = w /\ Supported(q, w) => Supported(q, w)'
      BY <2>1, <2>3 DEF Supported, Dispatching, Reporting, Swept
    <2> QED
      BY <2>2, <2>4, KeptBacked
  <1>7. CASE \E m \in posted : RequestArrives(m)
    BY <1>7, RequestStrands
  <1>8. CASE \E w \in Worker, p \in QueryId, outcome \in Outcome : TaskEnds(w, p, outcome)
    BY <1>8, TaskStrands
  <1>9. CASE \E r \in reports : ReportArrives(r) \/ ReportLost(r)
    BY <1>9, ReportStrands
  <1>10. CASE \E w \in Worker : Lifespan(w)
    BY <1>10, LifespanStrands
  <1>11. CASE CoordinatorCrash
    <2>1. UNCHANGED <<executing, reports, proc, wstatus, status, assigned>>
      BY <1>11 DEF CoordinatorCrash, Rollback, vars, workerVars
    <2>2. PICK w \in Worker : assigned[q] = w /\ Supported(q, w) /\ ~Supported(q, w)'
      BY <2>1, KeptBacked
    <2>3. Dispatching(q, w)
      BY <2>1, <2>2 DEF Supported, Reporting, Swept
    <2> QED
      BY <1>11, <2>2, <2>3 DEF MayStrand
  <1> QED
    BY <1>1, <1>2, <1>3, <1>4, <1>5, <1>6, <1>7, <1>8, <1>9, <1>10, <1>11 DEF LauncherNext, Schedule

(***************************************************************************)
(* How a cancel request ends.                                               *)
(***************************************************************************)

\* Only a query that exists is cancelled, and no query ceases to exist.
Asked == \A q \in QueryId : cancel[q].stage # "none" => status[q] # "absent"

LEMMA QueriesStay ==
    ASSUME RowInv, [Next]_vars, NEW q \in QueryId, status[q] # "absent"
    PROVE  status'[q] # "absent"
  <1> USE DEF RowInv, TypeOK, queryTable, Outcome
  <1>1. CASE UNCHANGED vars
    BY <1>1 DEF vars
  <1>2. CASE \E w \in Worker : WorkerStep(w)
    BY <1>2 DEF WorkerStep, RegisterWorker, ReadyWorker, HeartbeatWorker, ShutdownWorker,
                HeartbeatExpires, MarkWorkerUnreachable, ReturnQueriesOf
  <1>3. CASE SweepStaleWorkers
    BY <1>3 DEF SweepStaleWorkers, ReturnQueriesOf
  <1>4. CASE \E p \in QueryId : QueryStep(p)
    BY <1>4 DEF QueryStep, CreateQuery, CompleteQuery, MarkQueryCancelled, RevertQueryToPending
  <1>5. CASE \E c \in Claimer : ClaimStep(c)
    BY <1>5 DEF ClaimStep, ClaimPendingQuery, ClaimQueryById, LockRow, PickWorker, PickNone,
                CommitClaim
  <1>6. CASE \E C \in SUBSET Claimer : Rollback(C)
    BY <1>6 DEF Rollback
  <1> QED
    BY <1>1, <1>2, <1>3, <1>4, <1>5, <1>6 DEF Next

LEMMA OnlyCancelSteps ==
    ASSUME [LauncherNext]_launcherVars, cancel' # cancel
    PROVE  CoordinatorCrash \/ \E q \in QueryId : CancelStep(q)
  <1>1. CASE \E p \in QueryId : SubmitQuery(p)
    BY <1>1 DEF SubmitQuery
  <1>2. CASE \E c \in Claimer, p \in QueryId : SubmitClaims(c, p)
    BY <1>2 DEF SubmitClaims
  <1>3. CASE \E c \in Claimer : Schedule(c)
    BY <1>3 DEF Schedule, ScheduleNext, ChooseWorker, PostQuery, DispatchAccepted,
                DispatchRejected, DispatchFailed, EndDispatch, coordinatorVars
  <1>4. CASE Sweep \/ UNCHANGED launcherVars
    BY <1>4 DEF Sweep, coordinatorVars, launcherVars
  <1>5. CASE \E m \in posted : RequestArrives(m)
    BY <1>5 DEF RequestArrives
  <1>6. CASE \E w \in Worker, p \in QueryId, outcome \in Outcome : TaskEnds(w, p, outcome)
    BY <1>6 DEF TaskEnds, coordinatorVars
  <1>7. CASE \E r \in reports : ReportArrives(r) \/ ReportLost(r)
    BY <1>7 DEF ReportArrives, ReportLost, EndReport, coordinatorVars
  <1>8. CASE \E w \in Worker : Lifespan(w)
    BY <1>8 DEF Lifespan, Register, NotifyReady, Listen, Heartbeat, LateHeartbeat,
                MissHeartbeats, BeginShutdown, NotifyShutdown, Exit, WorkerCrash, Down,
                WorkerOnly, coordinatorVars
  <1> QED
    BY <1>1, <1>2, <1>3, <1>4, <1>5, <1>6, <1>7, <1>8 DEF LauncherNext

LEMMA StepAsked ==
    ASSUME LauncherTypeOK, RowInv, Coordinated, Asked, [LauncherNext]_launcherVars
    PROVE  Asked'
  <1>1. \A q \in QueryId : status[q] # "absent" => status'[q] # "absent"
    BY LauncherStepMaps, QueriesStay
  <1>2. CASE UNCHANGED cancel
    BY <1>1, <1>2 DEF Asked
  <1>3. CASE CoordinatorCrash
    BY <1>3 DEF CoordinatorCrash, NoCancel, Asked
  <1>4. CASE \E q \in QueryId : CancelStep(q)
    <2> PICK q \in QueryId : CancelStep(q)
      BY <1>4
    <2>1. status[q] # "absent" \/ cancel'[q].stage = "none"
      BY DEF CancelStep, CancelRequested, CancelMarks, CancelReachesWorker, CancelObserved,
             SetCancel, Asked, Coordinated
    <2>2. \A p \in QueryId : p # q => cancel'[p] = cancel[p]
      BY DEF CancelStep, CancelRequested, CancelMarks, CancelReachesWorker, CancelObserved,
             SetCancel, Coordinated
    <2> QED
      BY <1>1, <2>1, <2>2 DEF Asked
  <1> QED
    BY <1>2, <1>3, <1>4, OnlyCancelSteps

LEMMA StepSettles ==
    ASSUME RowInv, Coordinated, Asked, [LauncherNext]_launcherVars, NEW q \in QueryId,
           cancel[q].stage \in {"mark", "poll"}, cancel'[q] = NoCancel, ~CoordinatorCrash
    PROVE  status'[q] \in Outcome
  <1>1. cancel[q] # NoCancel /\ cancel' # cancel
    BY DEF NoCancel
  <1>2. PICK p \in QueryId : CancelStep(p)
    BY <1>1, OnlyCancelSteps
  <1>3. p = q
    BY <1>1, <1>2 DEF CancelStep, CancelRequested, CancelMarks, CancelReachesWorker,
                      CancelObserved, SetCancel, Coordinated
  <1>4. CASE CancelMarks(q)
    <2>1. status[q] \in Outcome \/ Active(q)
      BY DEF Asked, RowInv, TypeOK, QueryStatus, Outcome, Active
    <2> QED
      BY <1>4, <2>1 DEF CancelMarks, MarkQueryCancelled, vars, queryTable, Outcome, RowInv, TypeOK
  <1>5. CASE CancelObserved(q)
    BY <1>5 DEF CancelObserved, vars, queryTable, Outcome
  <1>6. ~CancelRequested(q) /\ ~CancelReachesWorker(q)
    BY <1>1 DEF CancelRequested, CancelReachesWorker
  <1> QED
    BY <1>2, <1>3, <1>4, <1>5, <1>6 DEF CancelStep

(***************************************************************************)
(* What follows from a query being in hand at most once: the number of keys *)
(* of query_tasks is the number of tasks, and a result file is deleted only *)
(* by the task that wrote it.                                               *)
(***************************************************************************)
InHand(q, w) == executing[w][q] > 0 \/ Reporting(q, w)
Sent(q, w) == \E m \in posted : m.query = q /\ m.worker = w

\* OnceInHand without its arithmetic.
LEMMA OncePlain ==
    ASSUME Processes, OnceInHand, NEW w \in Worker, NEW q \in QueryId
    PROVE  /\ executing[w][q] \in {0, 1}
           /\ executing[w][q] > 0 <=> executing[w][q] = 1
           /\ Reporting(q, w) => executing[w][q] = 0
  <1>1. executing[w][q] \in Nat
    BY DEF Processes
  <1>2. executing[w][q] + (IF Reporting(q, w) THEN 1 ELSE 0) <= 1
    BY DEF OnceInHand
  <1> QED
    BY <1>1, <1>2

\* A result no task or request will touch again.
Kept(q, w) ==
    /\ q \in results[w] /\ executing[w][q] = 0
    /\ Sent(q, w) => proc[w] \in {"stopping", "draining"}

Filed ==
    /\ \A w \in Worker, q \in QueryId : InHand(q, w) => q \in listed[w]
    /\ \A w \in Worker : Cardinality(listed[w]) <= MaxConcurrent[w]
    /\ \A r \in reports : r.outcome = "completed" => r.query \in results[r.worker]
    /\ \A q \in QueryId : status[q] = "completed" => \E w \in Worker : Kept(q, w)

LEMMA ListedFinite ==
    ASSUME Processes, NEW w \in Worker
    PROVE  /\ IsFiniteSet(QueryId) /\ IsFiniteSet(listed[w]) /\ listed[w] \in SUBSET QueryId
           /\ Cardinality(listed[w]) \in Nat /\ MaxConcurrent[w] \in Nat
  <1>1. listed[w] \in SUBSET QueryId /\ MaxConcurrent[w] \in Nat
    BY StoreAssumption DEF Processes
  <1>2. IsFiniteSet(QueryId)
    BY StoreAssumption, FS_Interval DEF QueryId
  <1> QED
    BY <1>1, <1>2, FS_Subset, FS_CardinalityType

\* A step of the coordinator's: workers stay as they are, and nothing is sent
\* for a query that has completed.
LEMMA CoordinatorFiled ==
    ASSUME Filed, UNCHANGED <<executing, reports, listed, results, proc>>,
           \A q \in QueryId : status'[q] = "completed" => status[q] = "completed",
           \A q \in QueryId, w \in Worker :
              Sent(q, w)' => Sent(q, w) \/ status[q] # "completed"
    PROVE  Filed'
  <1>1. \A q \in QueryId, w \in Worker : status[q] = "completed" /\ Kept(q, w) => Kept(q, w)'
    BY DEF Kept
  <1> QED
    BY <1>1 DEF Filed, InHand, Reporting

LEMMA RequestFiled ==
    ASSUME Processes, Coordinated, Filed, OnceInHand, NEW m \in posted, RequestArrives(m)
    PROVE  Filed'
  <1>1. m.query \in QueryId /\ m.worker \in Worker
    BY DEF Coordinated
  <1>2. \A q, w : Sent(q, w)' => Sent(q, w)
    BY DEF RequestArrives, Sent
  <1>3. UNCHANGED <<status, reports, results, proc>>
    BY DEF RequestArrives, AcceptQuery, RejectQuery, RefuseQuery, workerVars, vars
  <1>4. CASE AcceptQuery(m)
    <2>1. /\ executing' = [executing EXCEPT ![m.worker][m.query] = @ + 1]
          /\ listed' = [listed EXCEPT ![m.worker] = @ \cup {m.query}]
          /\ proc[m.worker] = "up" /\ Cardinality(listed[m.worker]) < MaxConcurrent[m.worker]
      BY <1>4 DEF AcceptQuery, Accepts
    <2>2. \A w \in Worker, q \in QueryId : InHand(q, w)' => q \in listed'[w]
      BY <1>1, <1>3, <2>1 DEF Filed, InHand, Reporting, Processes
    <2>3. \A w \in Worker : Cardinality(listed'[w]) <= MaxConcurrent[w]
      <3> SUFFICES ASSUME NEW w \in Worker PROVE Cardinality(listed'[w]) <= MaxConcurrent[w]
        OBVIOUS
      <3>1. CASE w # m.worker
        BY <1>1, <2>1, <3>1 DEF Filed, Processes
      <3>2. CASE w = m.worker
        <4>1. listed'[w] = listed[w] \cup {m.query}
          BY <1>1, <2>1, <3>2 DEF Processes
        <4>2. Cardinality(listed'[w]) \in {Cardinality(listed[w]), Cardinality(listed[w]) + 1}
          BY <4>1, ListedFinite, FS_AddElement
        <4> QED
          BY <2>1, <3>2, <4>2, ListedFinite
      <3> QED
        BY <3>1, <3>2
    <2>4. ASSUME NEW q \in QueryId, NEW w \in Worker, Kept(q, w)
          PROVE  Kept(q, w)'
      <3>1. ~(m.query = q /\ m.worker = w)
        BY <2>1, <2>4 DEF Kept, Sent
      <3>2. executing'[w][q] = 0
        BY <1>1, <2>1, <2>4, <3>1 DEF Kept, Processes
      <3> QED
        BY <1>2, <1>3, <2>4, <3>2 DEF Kept
    <2> QED
      BY <1>3, <2>2, <2>3, <2>4 DEF Filed
  <1>5. CASE RejectQuery(m) \/ RefuseQuery(m)
    <2>1. UNCHANGED <<executing, listed>>
      BY <1>5 DEF RejectQuery, RefuseQuery, workerVars
    <2> QED
      BY <1>2, <1>3, <2>1, CoordinatorFiled
  <1> QED
    BY <1>4, <1>5 DEF RequestArrives

LEMMA TaskFiled ==
    ASSUME Processes, Filed, OnceInHand, NEW w \in Worker, NEW q \in QueryId,
           NEW outcome \in Outcome, TaskEnds(w, q, outcome)
    PROVE  Filed'
  <1> DEFINE report == [worker |-> w, query |-> q, outcome |-> outcome]
  <1>1. /\ executing[w][q] > 0
        /\ executing' = [executing EXCEPT ![w][q] = @ - 1]
        /\ results' = [results EXCEPT ![w] =
               IF outcome = "completed" THEN @ \cup {q} ELSE @ \ {q}]
        /\ reports' = reports \cup {report}
        /\ UNCHANGED <<status, proc, listed, posted>>
    BY DEF TaskEnds, vars
  <1>2. executing[w][q] = 1 /\ ~Reporting(q, w) /\ q \in listed[w]
    BY <1>1, OncePlain DEF Filed, InHand
  <1>3. \A v \in Worker, p \in QueryId : v # w \/ p # q =>
          /\ executing'[v][p] = executing[v][p]
          /\ p \in results'[v] <=> p \in results[v]
    BY <1>1 DEF Processes
  <1>4. \A v \in Worker, p \in QueryId : InHand(p, v)' => p \in listed'[v]
    <2> SUFFICES ASSUME NEW v \in Worker, NEW p \in QueryId, InHand(p, v)'
                 PROVE  p \in listed[v]
      BY <1>1
    <2>1. CASE v = w /\ p = q
      BY <1>2, <2>1
    <2>2. CASE v # w \/ p # q
      <3>1. InHand(p, v)
        BY <1>1, <1>3, <2>2 DEF InHand, Reporting
      <3> QED
        BY <3>1 DEF Filed
    <2> QED
      BY <2>1, <2>2
  <1>5. \A r \in reports' : r.outcome = "completed" => r.query \in results'[r.worker]
    <2> SUFFICES ASSUME NEW r \in reports', r.outcome = "completed"
                 PROVE  r.query \in results'[r.worker]
      OBVIOUS
    <2>1. CASE r = report
      BY <1>1, <2>1 DEF Processes
    <2>2. CASE r \in reports
      <3>1. r.query \in QueryId /\ r.worker \in Worker /\ r.query \in results[r.worker]
        BY <2>2 DEF Processes, Filed
      <3>2. r.worker # w \/ r.query # q
        BY <1>2, <2>2 DEF Reporting
      <3> QED
        BY <1>3, <3>1, <3>2
    <2> QED
      BY <1>1, <2>1, <2>2
  <1>6. ASSUME NEW p \in QueryId, NEW v \in Worker, Kept(p, v)
        PROVE  Kept(p, v)'
    <2>1. v # w \/ p # q
      BY <1>2, <1>6 DEF Kept
    <2> QED
      BY <1>1, <1>3, <1>6, <2>1 DEF Kept, Sent
  <1> QED
    BY <1>1, <1>4, <1>5, <1>6 DEF Filed

LEMMA ReportFiled ==
    ASSUME RowInv, Processes, Lively, Filed, OnceInHand, NEW r \in reports,
           ReportArrives(r) \/ ReportLost(r)
    PROVE  Filed'
  <1> PICK q \in QueryId, w \in Worker : r.query = q /\ r.worker = w
    BY DEF Processes
  <1>1. /\ reports' = reports \ {r}
        /\ listed' = [listed EXCEPT ![w] = @ \ {q}]
        /\ UNCHANGED <<proc, executing, results, posted>>
    BY DEF ReportArrives, ReportLost, EndReport
  <1>2. executing[w][q] = 0 /\ \A s \in reports' : s.query # q \/ s.worker # w
    BY <1>1, OncePlain DEF Reporting, OnceInHand, Alike
  <1>3. \A v \in Worker, p \in QueryId : InHand(p, v)' => p \in listed'[v]
    <2> SUFFICES ASSUME NEW v \in Worker, NEW p \in QueryId, InHand(p, v)'
                 PROVE  p \in listed'[v]
      OBVIOUS
    <2>1. InHand(p, v) /\ (p # q \/ v # w)
      BY <1>1, <1>2 DEF InHand, Reporting, Processes
    <2> QED
      BY <1>1, <2>1 DEF Filed, Processes
  <1>4. \A v \in Worker : Cardinality(listed'[v]) <= MaxConcurrent[v]
    <2> SUFFICES ASSUME NEW v \in Worker PROVE Cardinality(listed'[v]) <= MaxConcurrent[v]
      OBVIOUS
    <2>1. listed'[v] \in SUBSET listed[v]
      BY <1>1 DEF Processes
    <2>2. Cardinality(listed'[v]) <= Cardinality(listed[v]) /\ Cardinality(listed'[v]) \in Nat
      BY <2>1, ListedFinite, FS_Subset, FS_CardinalityType
    <2> QED
      BY <2>2, ListedFinite DEF Filed
  <1>5. \A v \in Worker, p \in QueryId : Kept(p, v) => Kept(p, v)'
    BY <1>1 DEF Kept, Sent
  \* The result of the query that completes now is there, and safe.
  <1>6. \A p \in QueryId : status'[p] = "completed" =>
          status[p] = "completed" \/ (p = q /\ r.outcome = "completed")
    BY DEF ReportArrives, ReportLost, CompleteQuery, vars, RowInv, TypeOK
  <1>7. r.outcome = "completed" => Kept(q, w)
    <2> SUFFICES ASSUME r.outcome = "completed", Sent(q, w)
                 PROVE  proc[w] \in {"stopping", "draining"}
      BY <1>2 DEF Kept, Filed
    <2>1. proc[w] \notin {"down", "starting", "ready"}
      BY DEF Lively
    <2>2. proc[w] # "up"
      BY DEF Sent, OnceInHand, Reporting
    <2> QED
      BY <2>1, <2>2 DEF Processes, Lifetime
  <1> QED
    BY <1>1, <1>3, <1>4, <1>5, <1>6, <1>7 DEF Filed

LEMMA LifespanFiled ==
    ASSUME Processes, Filed, NEW w \in Worker, Lifespan(w)
    PROVE  Filed'
  <1>1. CASE Exit(w) \/ WorkerCrash(w)
    <2>1. Down(w)
      BY <1>1 DEF Exit, WorkerCrash
    <2>2. /\ proc' = [proc EXCEPT ![w] = "down"]
          /\ executing' = [executing EXCEPT ![w] = [q \in QueryId |-> 0]]
          /\ listed' = [listed EXCEPT ![w] = {}]
          /\ reports' = {r \in reports : r.worker # w}
          /\ posted' = {m \in posted : m.worker # w}
          /\ UNCHANGED <<status, results>>
      BY <2>1 DEF Down, vars
    <2>3. \A v \in Worker, p \in QueryId : InHand(p, v)' => p \in listed'[v]
      BY <2>2 DEF Filed, InHand, Reporting, Processes
    <2>4. \A v \in Worker : Cardinality(listed'[v]) <= MaxConcurrent[v]
      <3>1. \A v \in Worker : listed'[v] = listed[v] \/ listed'[v] = {}
        BY <2>2 DEF Processes
      <3>2. Cardinality({}) = 0 /\ \A v \in Worker : MaxConcurrent[v] \in Nat
        BY FS_EmptySet, StoreAssumption
      <3> QED
        BY <3>1, <3>2 DEF Filed
    <2>5. \A v \in Worker, p \in QueryId : Kept(p, v) => Kept(p, v)'
      BY <2>2 DEF Kept, Sent, Processes
    <2> QED
      BY <2>2, <2>3, <2>4, <2>5 DEF Filed
  <1>2. CASE ~(Exit(w) \/ WorkerCrash(w))
    <2>1. UNCHANGED <<executing, reports, listed, results, posted>>
      BY <1>2 DEF Lifespan, Register, NotifyReady, Listen, Heartbeat, LateHeartbeat,
                  MissHeartbeats, BeginShutdown, NotifyShutdown, WorkerOnly, netVars, workerVars
    <2>2. UNCHANGED status
      <3>1. CASE Register(w) \/ NotifyReady(w) \/ Listen(w) \/ BeginShutdown(w) \/ NotifyShutdown(w)
        BY <3>1 DEF Register, RegisterWorker, NotifyReady, ReadyWorker, Listen, BeginShutdown,
                    NotifyShutdown, ShutdownWorker, vars, queryTable
      <3>2. CASE Heartbeat(w) \/ LateHeartbeat(w) \/ MissHeartbeats(w)
        BY <3>2 DEF Heartbeat, LateHeartbeat, HeartbeatWorker, MissHeartbeats, HeartbeatExpires,
                    queryTable
      <3> QED
        BY <1>2, <3>1, <3>2 DEF Lifespan
    <2>3. \A v \in Worker : proc[v] \in {"stopping", "draining"} =>
            proc'[v] \in {"stopping", "draining"}
      BY <1>2 DEF Lifespan, Register, NotifyReady, Listen, Heartbeat, LateHeartbeat,
                  MissHeartbeats, BeginShutdown, NotifyShutdown, workerVars, Processes
    <2>4. \A v \in Worker, p \in QueryId : Kept(p, v) => Kept(p, v)'
      BY <2>1, <2>3 DEF Kept, Sent
    <2> QED
      BY <2>1, <2>2, <2>4 DEF Filed, InHand, Reporting
  <1> QED
    BY <1>1, <1>2

LEMMA AbandonSends ==
    ASSUME Coordinated, NEW C, Abandon(C)
    PROVE  \A q, w : Sent(q, w)' => Sent(q, w)
  <1> SUFFICES ASSUME NEW m \in posted'
               PROVE  \E n \in posted : n.query = m.query /\ n.worker = m.worker
    BY DEF Sent
  <1> PICK n \in posted : m = [n EXCEPT !.from = IF @ \in C THEN None ELSE @]
    BY DEF Abandon
  <1>1. n \in [query : QueryId, worker : Worker, from : Claimer \cup {None}]
    BY DEF Coordinated
  <1> QED
    BY <1>1

\* What the coordinator sends belongs to a query that was pending.
LEMMA ScheduleFiled ==
    ASSUME RowInv, Coordinated, Filed, NEW c \in Claimer, Schedule(c)
    PROVE  Filed'
  <1>1. UNCHANGED <<executing, reports, listed, results, proc>>
    BY DEF Schedule, ScheduleNext, ChooseWorker, PostQuery, DispatchAccepted, DispatchRejected,
           DispatchFailed, EndDispatch, workerVars, netVars
  <1>2. \A q \in QueryId : status'[q] = "completed" => status[q] = "completed"
    <2>1. CASE DispatchFailed(c) \/ DispatchRejected(c)
      BY <2>1 DEF DispatchFailed, MarkOrLeave, MarkWorkerUnreachable, ReturnQueriesOf,
                  DispatchRejected, RevertQueryToPending, vars, RowInv, TypeOK
    <2>2. CASE PostQuery(c)
      BY <2>2 DEF PostQuery, CommitClaim, RowInv, TypeOK
    <2>3. CASE ScheduleNext(c) \/ ChooseWorker(c) \/ DispatchAccepted(c)
      BY <2>3 DEF ScheduleNext, ClaimPendingQuery, LockRow, ChooseWorker, PickWorker, PickNone,
                  DispatchAccepted, queryTable, vars
    <2> QED
      BY <2>1, <2>2, <2>3 DEF Schedule
  <1>3. \A q \in QueryId, w \in Worker : Sent(q, w)' => Sent(q, w) \/ status[q] # "completed"
    <2>1. CASE PostQuery(c)
      <3>1. /\ claim[c].phase = "picked"
            /\ posted' = posted \cup
                 {[query |-> claim[c].query, worker |-> claim[c].worker, from |-> c]}
        BY <2>1 DEF PostQuery, CommitClaim
      <3>2. status[claim[c].query] = "pending"
        BY <3>1 DEF RowInv, ClaimHoldsPendingRow
      <3> QED
        BY <3>1, <3>2 DEF Sent
    <2>2. CASE DispatchFailed(c)
      BY <2>2, AbandonSends DEF DispatchFailed
    <2>3. CASE ~PostQuery(c) /\ ~DispatchFailed(c)
      BY <2>3 DEF Schedule, ScheduleNext, ChooseWorker, DispatchAccepted, DispatchRejected,
                  netVars, Sent
    <2> QED
      BY <2>1, <2>2, <2>3
  <1> QED
    BY <1>1, <1>2, <1>3, CoordinatorFiled

LEMMA StepFiled ==
    ASSUME RowInv, Processes, Coordinated, Lively, Filed, OnceInHand,
           [LauncherNext]_launcherVars
    PROVE  Filed'
  <1>1. CASE UNCHANGED launcherVars
    BY <1>1, CoordinatorFiled DEF launcherVars, vars, workerVars, netVars, Sent
  <1>2. CASE \E q \in QueryId : SubmitQuery(q) \/ CancelStep(q)
    <2>1. UNCHANGED <<executing, reports, listed, results, proc, posted>>
      BY <1>2 DEF SubmitQuery, CancelStep, CancelRequested, CancelMarks, CancelReachesWorker,
                  CancelObserved, SetCancel, workerVars, netVars
    <2>2. \A q \in QueryId : status'[q] = "completed" => status[q] = "completed"
      BY <1>2 DEF SubmitQuery, CreateQuery, CancelStep, CancelRequested, CancelMarks,
                  MarkQueryCancelled, CancelReachesWorker, CancelObserved, vars, RowInv, TypeOK
    <2> QED
      BY <2>1, <2>2, CoordinatorFiled DEF Sent
  <1>3. CASE \E c \in Claimer, q \in QueryId : SubmitClaims(c, q)
    BY <1>3, CoordinatorFiled
       DEF SubmitClaims, ClaimQueryById, LockRow, vars, queryTable, workerVars, netVars, Sent
  <1>4. CASE \E c \in Claimer : Schedule(c)
    BY <1>4, ScheduleFiled
  <1>5. CASE Sweep
    BY <1>5, CoordinatorFiled DEF Sweep, SweepStaleWorkers, ReturnQueriesOf, workerVars, netVars, Sent
  <1>6. CASE \E m \in posted : RequestArrives(m)
    BY <1>6, RequestFiled
  <1>7. CASE \E w \in Worker, q \in QueryId, outcome \in Outcome : TaskEnds(w, q, outcome)
    BY <1>7, TaskFiled
  <1>8. CASE \E r \in reports : ReportArrives(r) \/ ReportLost(r)
    BY <1>8, ReportFiled
  <1>9. CASE \E w \in Worker : Lifespan(w)
    BY <1>9, LifespanFiled
  <1>10. CASE CoordinatorCrash
    <2>1. UNCHANGED <<executing, reports, listed, results, proc, status>> /\ Abandon(Claimer)
      BY <1>10 DEF CoordinatorCrash, Rollback, workerVars, vars, queryTable
    <2> QED
      BY <2>1, AbandonSends, CoordinatorFiled
  <1> QED
    BY <1>1, <1>2, <1>3, <1>4, <1>5, <1>6, <1>7, <1>8, <1>9, <1>10 DEF LauncherNext

LEMMA FiledSuffices ==
    ASSUME Processes, Filed, OnceInHand
    PROVE  ParallelLimit /\ CompletedIsStored
  <1>1. CompletedIsStored
    BY DEF Filed, Kept, CompletedIsStored
  <1>2. ASSUME NEW w \in Worker
        PROVE  SumFunctionOnSet(executing[w], QueryId) <= MaxConcurrent[w]
    <2>1. PICK f, L, R : f = executing[w] /\ L = listed[w] /\ R = QueryId \ L
      OBVIOUS
    <2>2. /\ L \in SUBSET QueryId /\ L \cup R = QueryId /\ L \cap R = {}
          /\ IsFiniteSet(L) /\ IsFiniteSet(R)
      BY <2>1, ListedFinite, FS_Subset
    <2>3. \A q \in QueryId : f[q] \in Nat /\ f[q] \in 0 .. 1
      BY <2>1, OncePlain
    <2>4. \A q \in R : f[q] \in 0 .. 0
      <3> SUFFICES ASSUME NEW q \in R PROVE f[q] = 0
        OBVIOUS
      <3>1. q \in QueryId /\ q \notin listed[w]
        BY <2>1
      <3>2. ~(executing[w][q] > 0) /\ executing[w][q] \in Nat
        BY <3>1 DEF Filed, InHand, Processes
      <3> QED
        BY <2>1, <3>2
    <2>5. SumFunctionOnSet(f, L) <= Cardinality(L) * 1
      BY <2>2, <2>3, SumBound
    <2>6. SumFunctionOnSet(f, R) <= Cardinality(R) * 0
      BY <2>2, <2>4, SumBound
    <2>7. SumFunctionOnSet(f, L) \in Nat /\ SumFunctionOnSet(f, R) \in Nat
      BY <2>2, <2>3, SumNat
    <2>8. SumFunctionOnSet(f, QueryId) = SumFunctionOnSet(f, L) + SumFunctionOnSet(f, R)
      <3>1. SumFunctionOnSet(f, L \cup R) = SumFunctionOnSet(f, L) + SumFunctionOnSet(f, R)
        BY <2>2, <2>3, SumUnion
      <3> QED
        BY <2>2, <3>1
    <2>9. Cardinality(L) \in Nat /\ Cardinality(L) <= MaxConcurrent[w] /\ MaxConcurrent[w] \in Nat
      BY <2>1, ListedFinite DEF Filed
    <2>10. Cardinality(R) \in Nat
      BY <2>2, FS_CardinalityType
    <2>11. SumFunctionOnSet(f, QueryId) <= MaxConcurrent[w]
      BY <2>5, <2>6, <2>7, <2>8, <2>9, <2>10
    <2> QED
      BY <2>1, <2>11
  <1> QED
    BY <1>1, <1>2 DEF ParallelLimit

(***************************************************************************)
(* When each query is in hand at most once: with a single claimer, whose    *)
(* dispatches wait for an answer, and workers whose heartbeats arrive while *)
(* they live. The row of a query that a serving worker has, or is sent,     *)
(* says so, or says that it has ended, so nobody claims it meanwhile.       *)
(***************************************************************************)
OneAtATime == Claimer = {Scheduler} /\ Faults \cap {"timeout", "delay"} = {}

\* What a serving worker has or is about to have.
Engaged(q, w) == proc[w] = "up" /\ (InHand(q, w) \/ Sent(q, w))

Owned(q, w) == status[q] \in Outcome \/ (status[q] = "running" /\ assigned[q] = w)

\* The rows of queries that serving workers have, and of the query under way.
RowsFit ==
    /\ \A q \in QueryId, w \in Worker : Engaged(q, w) => Owned(q, w)
    /\ \A m \in posted : m.from \in Claimer => Owned(m.query, m.worker)

\* A refusal that is yet to be acted on came from a worker that had nothing in
\* hand, or from one that will not serve again before it restarts; a rejection
\* leaves its query in nobody's hands.
RepliesFit ==
    \A c \in Claimer :
        /\ (dispatch[c].reply = "refused"
              /\ proc[dispatch[c].worker] \notin {"stopping", "draining"}) =>
             \A q \in QueryId : ~InHand(q, dispatch[c].worker) /\ ~Sent(q, dispatch[c].worker)
        /\ (dispatch[c].reply = "busy" /\ status[dispatch[c].query] = "running") =>
             \A w \in Worker : ~Engaged(dispatch[c].query, w)

\* Requests outlive their sender at a process that read them only, and a worker
\* that serves has sent its heartbeats.
OrphansFit == \A m \in posted : m.from = None => proc[m.worker] \in {"up", "stopping", "draining"}
Beating == \A w \in Worker : proc[w] \in {"ready", "up"} => fresh[w]

Sole == OnceInHand /\ RowsFit /\ RepliesFit /\ OrphansFit /\ Beating

LEMMA OneSender ==
    ASSUME OneAtATime, Coordinated, NEW m \in posted, NEW n \in posted,
           m.from \in Claimer, n.from \in Claimer
    PROVE  m = n
  <1>1. /\ m \in [query : QueryId, worker : Worker, from : Claimer \cup {None}]
        /\ n \in [query : QueryId, worker : Worker, from : Claimer \cup {None}]
    BY DEF Coordinated
  <1>2. m.from = n.from
    BY DEF OneAtATime
  <1>3. /\ dispatch[m.from] = [query |-> m.query, worker |-> m.worker, reply |-> "none"]
        /\ dispatch[m.from] = [query |-> n.query, worker |-> n.worker, reply |-> "none"]
    BY <1>2 DEF Coordinated, Awaited
  <1>4. m.query = n.query /\ m.worker = n.worker
    BY <1>3
  <1> QED
    BY <1>1, <1>2, <1>4

\* While its reply is being acted on, or none is expected, nobody's request is out.
LEMMA NoRequest ==
    ASSUME OneAtATime, Coordinated, NEW c \in Claimer,
           dispatch[c].reply # "none" \/ dispatch[c] = NoDispatch
    PROVE  \A m \in posted : m.from = None
  <1>1. \A m \in posted : m.from \in Claimer => m.from = c
    BY DEF OneAtATime
  <1>2. \A m \in posted : m.from # c
    BY AwaitedFacts, StoreAssumption DEF NoDispatch
  <1> QED
    BY <1>1, <1>2 DEF Coordinated

\* Nothing new comes into a worker's hands or under way, and rows of queries
\* that are there stay as they must be.
LEMMA NothingNew ==
    ASSUME Coordinated, RowsFit, RepliesFit, OrphansFit, UNCHANGED <<dispatch, proc>>,
           posted' \subseteq posted,
           \A q \in QueryId, w \in Worker : InHand(q, w)' => InHand(q, w),
           \A q \in QueryId : status'[q] = "running" => status[q] = "running",
           \A q \in QueryId, w \in Worker : Engaged(q, w) /\ Owned(q, w) => Owned(q, w)',
           \A m \in posted : m.from \in Claimer => Owned(m.query, m.worker)'
    PROVE  RowsFit' /\ RepliesFit' /\ OrphansFit'
  <1>1. \A q, w : Sent(q, w)' => Sent(q, w)
    BY DEF Sent
  <1>2. \A q \in QueryId, w \in Worker : Engaged(q, w)' => Engaged(q, w)
    BY <1>1 DEF Engaged
  <1>3. RowsFit'
    BY <1>2 DEF RowsFit
  <1>4. \A c \in Claimer : dispatch[c].reply \in {"refused", "busy"} =>
          dispatch[c].query \in QueryId /\ dispatch[c].worker \in Worker
    BY DEF Coordinated, NoDispatch, Waiting
  <1>5. RepliesFit'
    BY <1>1, <1>2, <1>4 DEF RepliesFit
  <1> QED
    BY <1>3, <1>5 DEF OrphansFit

LEMMA OnceUnlessMore ==
    ASSUME Processes, Coordinated, OnceInHand, UNCHANGED executing, reports' \subseteq reports,
           posted' \subseteq posted, \A w \in Worker : proc'[w] = "up" => proc[w] = "up"
    PROVE  OnceInHand'
  <1>1. \A q, w : Reporting(q, w)' => Reporting(q, w)
    BY DEF Reporting
  <1>2. \A w \in Worker, q \in QueryId :
          executing'[w][q] + (IF Reporting(q, w)' THEN 1 ELSE 0) <= 1
    BY <1>1, OncePlain
  <1>3. \A m \in posted' : proc'[m.worker] = "up" =>
          /\ executing'[m.worker][m.query] = 0 /\ ~Reporting(m.query, m.worker)'
          /\ \A n \in posted' : Alike(m, n) => m = n
    BY <1>1 DEF OnceInHand, Coordinated
  <1> QED
    BY <1>2, <1>3 DEF OnceInHand, Alike

\* Steps that only change rows, and perhaps end a report.
LEMMA RowsSole ==
    ASSUME Processes, Coordinated, Sole, UNCHANGED <<dispatch, proc, posted, executing, fresh>>,
           reports' \subseteq reports,
           \A q \in QueryId : status'[q] = "running" => status[q] = "running",
           \A q \in QueryId, w \in Worker : Engaged(q, w) /\ Owned(q, w) => Owned(q, w)',
           \A m \in posted : m.from \in Claimer => Owned(m.query, m.worker)'
    PROVE  Sole'
  <1>1. \A q, w : Reporting(q, w)' => Reporting(q, w)
    BY DEF Reporting
  <1>2. \A q \in QueryId, w \in Worker : InHand(q, w)' => InHand(q, w)
    BY <1>1 DEF InHand
  <1>3. OnceInHand'
    BY OnceUnlessMore DEF Sole
  <1>4. RowsFit' /\ RepliesFit' /\ OrphansFit'
    BY <1>2, NothingNew DEF Sole
  <1> QED
    BY <1>3, <1>4 DEF Sole, Beating

LEMMA QuerySole ==
    ASSUME RowInv, Processes, Coordinated, Sole, NEW q \in QueryId, SubmitQuery(q) \/ CancelStep(q)
    PROVE  Sole'
  <1>1. UNCHANGED <<dispatch, proc, posted, executing, fresh, reports>>
    BY DEF SubmitQuery, CreateQuery, CancelStep, CancelRequested, CancelMarks, MarkQueryCancelled,
           CancelReachesWorker, CancelObserved, SetCancel, vars, workerTable, workerVars, netVars
  <1>2. \A p \in QueryId : \/ status'[p] = status[p] /\ assigned'[p] = assigned[p]
                           \/ status[p] = "absent" /\ status'[p] = "pending"
                           \/ status'[p] = "cancelled"
    <2> SUFFICES ASSUME NEW p \in QueryId
                 PROVE  \/ status'[p] = status[p] /\ assigned'[p] = assigned[p]
                        \/ status[p] = "absent" /\ status'[p] = "pending"
                        \/ status'[p] = "cancelled"
      OBVIOUS
    <2>1. status \in [QueryId -> QueryStatus]
      BY DEF RowInv, TypeOK
    <2>2. CASE SubmitQuery(q)
      <3>1. /\ status[q] = "absent" /\ status' = [status EXCEPT ![q] = "pending"]
            /\ assigned' = assigned
        BY <2>2 DEF SubmitQuery, CreateQuery
      <3> QED
        BY <2>1, <3>1
    <2>3. CASE CancelMarks(q)
      <3>1. /\ assigned' = assigned
            /\ status' = [status EXCEPT ![q] = "cancelled"] \/ status' = status
        BY <2>3 DEF CancelMarks, MarkQueryCancelled, vars, queryTable
      <3> QED
        BY <2>1, <3>1
    <2>4. CASE CancelRequested(q) \/ CancelReachesWorker(q) \/ CancelObserved(q)
      BY <2>4 DEF CancelRequested, CancelReachesWorker, CancelObserved, vars, queryTable
    <2> QED
      BY <2>2, <2>3, <2>4 DEF CancelStep
  <1>3. \A p \in QueryId, w \in Worker : Owned(p, w) => Owned(p, w)'
    BY <1>2 DEF Owned, Outcome
  <1>4. \A p \in QueryId : status'[p] = "running" => status[p] = "running"
    BY <1>2
  <1>5. \A m \in posted : m.from \in Claimer => Owned(m.query, m.worker)'
    BY <1>3 DEF Sole, RowsFit, Coordinated
  <1> QED
    BY <1>1, <1>3, <1>4, <1>5, RowsSole

LEMMA ClaimSole ==
    ASSUME RowInv, Processes, Coordinated, Sole, NEW c \in Claimer, ScheduleNext(c) \/ ChooseWorker(c)
    PROVE  Sole'
  <1>1. UNCHANGED <<dispatch, proc, posted, executing, fresh, reports, status, assigned>>
    BY DEF ScheduleNext, ClaimPendingQuery, LockRow, ChooseWorker, PickWorker, PickNone,
           coordinatorVars, workerVars, netVars, queryTable, workerTable
  <1>2. \A p, w : Owned(p, w) => Owned(p, w)'
    BY <1>1 DEF Owned
  <1>3. \A m \in posted : m.from \in Claimer => Owned(m.query, m.worker)'
    BY <1>2 DEF Sole, RowsFit
  <1> QED
    BY <1>1, <1>2, <1>3, RowsSole

\* A sweep returns the rows of workers whose heartbeats stay out: none of them serves.
LEMMA SweepSole ==
    ASSUME OneAtATime, RowInv, Processes, Coordinated, Sole, Sweep
    PROVE  Sole'
  <1>1. UNCHANGED <<dispatch, proc, posted, executing, fresh, reports>> /\ Free(Scheduler)
    BY DEF Sweep, SweepStaleWorkers, coordinatorVars, workerVars, netVars
  <1>2. \A q \in QueryId :
          \/ status'[q] = status[q] /\ assigned'[q] = assigned[q]
          \/ status[q] = "running" /\ assigned[q] \in StaleWorkers /\ status'[q] = "pending"
    BY DEF Sweep, SweepStaleWorkers, ReturnQueriesOf
  <1>3. \A w \in StaleWorkers : proc[w] # "up"
    BY DEF Sole, Beating, StaleWorkers
  <1>4. \A q \in QueryId, w \in Worker : Engaged(q, w) /\ Owned(q, w) => Owned(q, w)'
    BY <1>2, <1>3 DEF Engaged, Owned, Outcome
  <1>5. \A m \in posted : m.from \notin Claimer
    BY <1>1, NoRequest, LauncherAssumption DEF Free
  <1>6. \A q \in QueryId : status'[q] = "running" => status[q] = "running"
    BY <1>2
  <1> QED
    BY <1>1, <1>4, <1>5, <1>6, RowsSole

LEMMA ReportSole ==
    ASSUME RowInv, Processes, Coordinated, Sole, NEW r \in reports, ReportArrives(r) \/ ReportLost(r)
    PROVE  Sole'
  <1>1. UNCHANGED <<dispatch, proc, posted, executing, fresh>> /\ reports' \subseteq reports
    BY DEF ReportArrives, ReportLost, EndReport, CompleteQuery, vars, workerTable, coordinatorVars
  <1>2. r.query \in QueryId /\ r.outcome \in Outcome
    BY DEF Processes
  <1>3. \A q \in QueryId : \/ status'[q] = status[q] /\ assigned'[q] = assigned[q]
                           \/ status'[q] \in Outcome
    BY <1>2 DEF ReportArrives, ReportLost, CompleteQuery, vars, queryTable, RowInv, TypeOK
  <1>4. \A p \in QueryId, w \in Worker : Owned(p, w) => Owned(p, w)'
    BY <1>3 DEF Owned, Outcome
  <1>5. \A p \in QueryId : status'[p] = "running" => status[p] = "running"
    BY <1>3 DEF Outcome
  <1>6. \A m \in posted : m.from \in Claimer => Owned(m.query, m.worker)'
    BY <1>4 DEF Sole, RowsFit, Coordinated
  <1> QED
    BY <1>1, <1>4, <1>5, <1>6, RowsSole

\* Only a pending query is posted, and what a serving worker has is not pending.
LEMMA PostSole ==
    ASSUME OneAtATime, RowInv, Processes, Coordinated, Sole, NEW c \in Claimer, PostQuery(c)
    PROVE  Sole'
  <1> PICK q, w, request : /\ q = claim[c].query /\ w = claim[c].worker
                           /\ request = [query |-> q, worker |-> w, from |-> c]
    OBVIOUS
  <1>1. /\ claim[c].phase = "picked" /\ posted' = posted \cup {request}
        /\ status' = [status EXCEPT ![q] = "running"] /\ assigned' = [assigned EXCEPT ![q] = w]
        /\ dispatch' = [dispatch EXCEPT ![c] = [query |-> q, worker |-> w, reply |-> "none"]]
        /\ UNCHANGED <<proc, executing, reports, fresh>>
    BY DEF PostQuery, CommitClaim, workerVars, workerTable
  <1>2. q \in QueryId /\ w \in Worker /\ status[q] = "pending"
    BY <1>1, ClaimStateFacts DEF RowInv, ClaimHoldsPendingRow
  <1>3. dispatch[c] = NoDispatch
    BY <1>1 DEF Coordinated, NoClaim
  <1>4. \A m \in posted : m.from = None
    BY <1>3, NoRequest
  <1>5. \A v \in Worker : ~Engaged(q, v)
    BY <1>2 DEF Sole, RowsFit, Owned, Outcome
  <1>6. request.query = q /\ request.worker = w /\ request.from = c /\ c # None
    BY LauncherAssumption
  <1>7. OnceInHand'
    <2>1. \A r, s \in reports' : Alike(r, s) => r = s
      BY <1>1 DEF Sole, OnceInHand
    <2>2. \A v \in Worker, p \in QueryId :
            executing'[v][p] + (IF Reporting(p, v)' THEN 1 ELSE 0) <= 1
      <3>1. \A v, p : Reporting(p, v)' <=> Reporting(p, v)
        BY <1>1 DEF Reporting
      <3> QED
        BY <1>1, <3>1 DEF Sole, OnceInHand
    <2>3. ASSUME NEW m \in posted', proc[m.worker] = "up"
          PROVE  /\ executing[m.worker][m.query] = 0 /\ ~Reporting(m.query, m.worker)
                 /\ \A n \in posted' : Alike(m, n) => m = n
      <3>1. CASE m = request
        <4>1. ~InHand(q, w) /\ ~Sent(q, w)
          BY <1>2, <1>5, <1>6, <2>3, <3>1 DEF Engaged
        <4>2. executing[w][q] \in Nat
          BY <1>2 DEF Processes
        <4> QED
          BY <1>1, <1>6, <3>1, <4>1, <4>2 DEF InHand, Sent, Alike
      <3>2. CASE m \in posted
        <4>1. ~Alike(m, request)
          <5> SUFFICES ASSUME m.query = q, m.worker = w PROVE FALSE
            BY <1>6 DEF Alike
          <5>1. Engaged(q, w)
            BY <2>3, <3>2 DEF Engaged, Sent
          <5> QED
            BY <1>2, <1>5, <5>1
        <4> QED
          BY <1>1, <2>3, <3>2, <4>1 DEF Sole, OnceInHand
      <3> QED
        BY <1>1, <3>1, <3>2
    <2>4. \A m : Reporting(m.query, m.worker)' <=> Reporting(m.query, m.worker)
      BY <1>1 DEF Reporting
    <2> QED
      BY <1>1, <2>1, <2>2, <2>3, <2>4 DEF OnceInHand, Alike
  <1>8. RowsFit'
    <2>1. Owned(q, w)' /\ \A p \in QueryId, v \in Worker : p # q /\ Owned(p, v) => Owned(p, v)'
      BY <1>1, <1>2 DEF Owned, RowInv, TypeOK
    <2>2. \A p \in QueryId, v \in Worker : Engaged(p, v)' => Engaged(p, v) \/ (p = q /\ v = w)
      BY <1>1, <1>6 DEF Engaged, InHand, Sent, Reporting
    <2>3. \A p \in QueryId, v \in Worker : Engaged(p, v)' => Owned(p, v)'
      BY <1>5, <2>1, <2>2 DEF Sole, RowsFit
    <2>4. \A m \in posted' : m.from \in Claimer => Owned(m.query, m.worker)'
      BY <1>1, <1>4, <1>6, <2>1, LauncherAssumption
    <2> QED
      BY <2>3, <2>4 DEF RowsFit
  <1>9. RepliesFit'
    BY <1>1 DEF RepliesFit, OneAtATime, Coordinated
  <1>10. OrphansFit' /\ Beating'
    BY <1>1, <1>6 DEF Sole, OrphansFit, Beating
  <1> QED
    BY <1>7, <1>8, <1>9, <1>10 DEF Sole

\* The rejected query, and no other, goes back to pending; nobody has it.
LEMMA DispatchSole ==
    ASSUME OneAtATime, RowInv, Processes, Coordinated, Sole, NEW c \in Claimer,
           DispatchAccepted(c) \/ DispatchRejected(c)
    PROVE  Sole'
  <1>1. /\ dispatch' = [dispatch EXCEPT ![c] = NoDispatch]
        /\ UNCHANGED <<proc, executing, reports, posted, fresh>>
    BY DEF DispatchAccepted, DispatchRejected, EndDispatch, RevertQueryToPending, vars,
           workerTable, workerVars
  <1>2. \A m \in posted : m.from \notin Claimer
    <2>1. dispatch[c].reply # "none"
      BY DEF DispatchAccepted, DispatchRejected
    <2> QED
      BY <2>1, NoRequest, LauncherAssumption
  <1>3. \A q \in QueryId, w \in Worker : Engaged(q, w) => Owned(q, w)'
    <2> SUFFICES ASSUME NEW q \in QueryId, NEW w \in Worker, Engaged(q, w) PROVE Owned(q, w)'
      OBVIOUS
    <2>1. Owned(q, w)
      BY DEF Sole, RowsFit
    <2>2. CASE UNCHANGED vars
      BY <2>1, <2>2 DEF vars, Owned
    <2>3. CASE ~UNCHANGED vars
      <3>1. dispatch[c].reply = "busy" /\ RevertQueryToPending(dispatch[c].query)
        BY <2>3 DEF DispatchAccepted, DispatchRejected
      <3>2. dispatch[c].query # q
        BY <3>1 DEF Sole, RepliesFit, RevertQueryToPending
      <3>3. status'[q] = status[q] /\ assigned'[q] = assigned[q]
        BY <3>1, <3>2 DEF RevertQueryToPending, RowInv, TypeOK
      <3> QED
        BY <2>1, <3>3 DEF Owned
    <2> QED
      BY <2>2, <2>3
  <1>4. RowsFit'
    BY <1>1, <1>2, <1>3 DEF RowsFit, Engaged, InHand, Sent, Reporting
  <1>5. RepliesFit'
    BY <1>1 DEF RepliesFit, OneAtATime, Coordinated, NoDispatch
  <1>6. OnceInHand'
    BY <1>1, OnceUnlessMore DEF Sole
  <1> QED
    BY <1>1, <1>4, <1>5, <1>6 DEF Sole, OrphansFit, Beating

\* A refusal gives up its worker and the rows there, which had nothing in hand.
LEMMA FailedSole ==
    ASSUME OneAtATime, RowInv, Processes, Coordinated, Sole, NEW c \in Claimer, DispatchFailed(c)
    PROVE  Sole'
  <1> PICK v : v = dispatch[c].worker
    OBVIOUS
  <1>1. dispatch[c].reply = "refused" /\ v \in Worker
    BY DispatchFacts DEF DispatchFailed, Fault, OneAtATime, Coordinated, NoDispatch, Waiting
  <1>2. \A m \in posted : m.from = None
    BY <1>1, NoRequest
  <1>3. posted' \subseteq posted
    <2> SUFFICES ASSUME NEW m \in posted' PROVE m \in posted
      OBVIOUS
    <2>1. PICK n \in posted : m = [n EXCEPT !.from = IF @ \in {c} THEN None ELSE @]
      BY DEF DispatchFailed, Abandon
    <2>2. n \in [query : QueryId, worker : Worker, from : Claimer \cup {None}] /\ n.from = None
      BY <1>2 DEF Coordinated
    <2>3. m = n
      BY <2>1, <2>2
    <2> QED
      BY <2>3
  <1>4. /\ dispatch' = [dispatch EXCEPT ![c] = NoDispatch] /\ MarkOrLeave(v)
        /\ UNCHANGED <<proc, executing, reports>>
    BY DEF DispatchFailed, EndDispatch, workerVars
  <1>5. /\ UNCHANGED fresh
        /\ \A q \in QueryId : \/ status'[q] = status[q] /\ assigned'[q] = assigned[q]
                              \/ status[q] = "running" /\ assigned[q] = v
    <2>1. CASE UNCHANGED vars
      BY <2>1 DEF vars, queryTable, workerTable
    <2>2. CASE MarkWorkerUnreachable(v)
      <3>1. UNCHANGED fresh /\ ReturnQueriesOf({v})
        BY <2>2 DEF MarkWorkerUnreachable
      <3>2. \A q \in QueryId : ~(status[q] = "running" /\ assigned[q] = v) =>
              status'[q] = status[q] /\ assigned'[q] = assigned[q]
        BY <3>1 DEF ReturnQueriesOf
      <3> QED
        BY <3>1, <3>2
    <2> QED
      BY <1>4, <2>1, <2>2 DEF MarkOrLeave
  <1>6. \A q \in QueryId : ~Engaged(q, v)
    BY <1>1 DEF Sole, RepliesFit, Engaged
  <1>7. \A q \in QueryId, w \in Worker : Engaged(q, w) => Owned(q, w)'
    <2> SUFFICES ASSUME NEW q \in QueryId, NEW w \in Worker, Engaged(q, w) PROVE Owned(q, w)'
      OBVIOUS
    <2>1. Owned(q, w) /\ w # v
      BY <1>6 DEF Sole, RowsFit
    <2> QED
      BY <1>5, <2>1 DEF Owned, Outcome
  <1>8. \A q \in QueryId, w \in Worker : Engaged(q, w)' => Engaged(q, w)
    BY <1>3, <1>4 DEF Engaged, InHand, Sent, Reporting
  <1>9. RowsFit'
    BY <1>2, <1>3, <1>7, <1>8, LauncherAssumption DEF RowsFit
  <1>10. RepliesFit'
    BY <1>4 DEF RepliesFit, OneAtATime, Coordinated, NoDispatch
  <1>11. OnceInHand'
    BY <1>3, <1>4, OnceUnlessMore DEF Sole
  <1> QED
    BY <1>3, <1>4, <1>5, <1>9, <1>10, <1>11 DEF Sole, OrphansFit, Beating

LEMMA RequestSole ==
    ASSUME OneAtATime, Processes, Coordinated, Lively, Sole, NEW m \in posted, RequestArrives(m)
    PROVE  Sole'
  <1> PICK q \in QueryId, w \in Worker : m.query = q /\ m.worker = w
    BY DEF Coordinated
  <1>1. posted' = posted \ {m} /\ UNCHANGED <<status, assigned, fresh, reports, proc>>
    BY DEF RequestArrives, AcceptQuery, RejectQuery, RefuseQuery, workerVars, vars
  <1>2. \A p, v : (Sent(p, v)' => Sent(p, v)) /\ (Owned(p, v)' <=> Owned(p, v))
                 /\ (Reporting(p, v)' <=> Reporting(p, v))
    BY <1>1 DEF Sent, Owned, Reporting
  <1>3. proc[w] = "up" =>
          /\ executing[w][q] = 0 /\ ~InHand(q, w)
          /\ \A n \in posted : Alike(m, n) => m = n
    BY DEF Sole, OnceInHand, InHand
  <1>4. OrphansFit' /\ Beating'
    BY <1>1 DEF Sole, OrphansFit, Beating
  <1>5. ASSUME NEW c \in Claimer, dispatch[c].reply \in {"refused", "busy"}
        PROVE  dispatch[c].query \in QueryId /\ dispatch[c].worker \in Worker
    BY <1>5, DispatchFacts DEF Coordinated, NoDispatch, Waiting
  <1>6. ASSUME NEW c \in Claimer, m.from = c
        PROVE  dispatch[c] = [query |-> q, worker |-> w, reply |-> "none"]
    BY <1>6 DEF Coordinated, Awaited
  <1>7. CASE AcceptQuery(m)
    <2>1. /\ executing' = [executing EXCEPT ![w][q] = @ + 1] /\ proc[w] = "up"
          /\ Answer(m, "accepted")
      BY <1>7 DEF AcceptQuery, Accepts
    <2>2. \A v \in Worker, p \in QueryId :
            executing'[v][p] = IF v = w /\ p = q THEN 1 ELSE executing[v][p]
      BY <1>3, <2>1 DEF Processes
    <2>3. \A v \in Worker, p \in QueryId : Engaged(p, v)' => Engaged(p, v)
      BY <1>1, <1>2, <2>1, <2>2 DEF Engaged, InHand, Sent
    <2>4. \A c \in Claimer : dispatch'[c].reply \in {"refused", "busy"} =>
            c # m.from /\ dispatch'[c] = dispatch[c]
      BY <1>6, <2>1 DEF Answer
    <2>5. OnceInHand'
      <3>1. \A v \in Worker, p \in QueryId :
              executing'[v][p] + (IF Reporting(p, v)' THEN 1 ELSE 0) <= 1
        BY <1>2, <1>3, <2>1, <2>2 DEF InHand, Sole, OnceInHand
      <3>2. \A n \in posted' : proc[n.worker] = "up" =>
              /\ executing'[n.worker][n.query] = 0 /\ ~Reporting(n.query, n.worker)
              /\ \A l \in posted' : Alike(n, l) => n = l
        <4> SUFFICES ASSUME NEW n \in posted', proc[n.worker] = "up"
                     PROVE  /\ executing'[n.worker][n.query] = 0 /\ ~Reporting(n.query, n.worker)
                            /\ \A l \in posted' : Alike(n, l) => n = l
          OBVIOUS
        <4>1. n \in posted /\ n # m /\ n.worker \in Worker /\ n.query \in QueryId
          BY <1>1 DEF Coordinated
        <4>2. n.worker # w \/ n.query # q
          BY <1>3, <2>1, <4>1 DEF Alike
        <4> QED
          BY <1>1, <2>2, <4>1, <4>2 DEF Sole, OnceInHand
      <3>3. \A r, s \in reports' : Alike(r, s) => r = s
        BY <1>1 DEF Sole, OnceInHand
      <3> QED
        BY <1>1, <1>2, <3>1, <3>2, <3>3 DEF OnceInHand, Alike
    <2>6. RowsFit'
      BY <1>1, <1>2, <2>3 DEF Sole, RowsFit
    <2>7. RepliesFit'
      <3> SUFFICES ASSUME NEW c \in Claimer, dispatch'[c].reply \in {"refused", "busy"}
                   PROVE  /\ (dispatch[c].reply = "refused"
                                /\ proc[dispatch[c].worker] \notin {"stopping", "draining"}) =>
                                \A p \in QueryId : /\ ~InHand(p, dispatch[c].worker)'
                                                   /\ ~Sent(p, dispatch[c].worker)'
                          /\ (dispatch[c].reply = "busy" /\ status[dispatch[c].query] = "running") =>
                                \A v \in Worker : ~Engaged(dispatch[c].query, v)'
        BY <1>1, <2>4 DEF RepliesFit, InHand, Sent, Engaged, Reporting
      <3>1. dispatch[c].query \in QueryId /\ dispatch[c].worker \in Worker
        BY <1>5, <2>4
      <3>2. (dispatch[c].reply = "refused" /\ proc[dispatch[c].worker] \notin {"stopping", "draining"}) =>
               dispatch[c].worker # w
        BY <2>1 DEF Sole, RepliesFit, Sent
      <3>3. ASSUME dispatch[c].reply = "refused",
                   proc[dispatch[c].worker] \notin {"stopping", "draining"}
            PROVE  \A p \in QueryId : /\ ~InHand(p, dispatch[c].worker)'
                                      /\ ~Sent(p, dispatch[c].worker)'
        <4>1. dispatch[c].worker # w
          BY <3>2, <3>3
        <4>2. \A p \in QueryId : ~InHand(p, dispatch[c].worker) /\ ~Sent(p, dispatch[c].worker)
          BY <3>3 DEF Sole, RepliesFit
        <4> QED
          BY <1>2, <2>2, <2>4, <3>1, <4>1, <4>2 DEF InHand
      <3>4. ASSUME dispatch[c].reply = "busy", status[dispatch[c].query] = "running"
            PROVE  \A v \in Worker : ~Engaged(dispatch[c].query, v)'
        BY <2>3, <2>4, <3>1, <3>4 DEF Sole, RepliesFit
      <3> QED
        BY <3>3, <3>4
    <2> QED
      BY <1>4, <2>5, <2>6, <2>7 DEF Sole
  <1>8. CASE RejectQuery(m) \/ RefuseQuery(m)
    <2>1. UNCHANGED executing
      BY <1>8 DEF RejectQuery, RefuseQuery, workerVars
    <2>2. \A v, p : (InHand(p, v)' <=> InHand(p, v)) /\ (Engaged(p, v)' => Engaged(p, v))
      BY <1>1, <1>2, <2>1 DEF Engaged, InHand
    <2>3. OnceInHand'
      BY <1>1, <2>1, OnceUnlessMore DEF Sole
    <2>4. RowsFit'
      BY <1>1, <1>2, <2>2 DEF Sole, RowsFit
    <2>5. ASSUME NEW c \in Claimer, c # m.from, dispatch'[c].reply \in {"refused", "busy"}
          PROVE  /\ dispatch'[c] = dispatch[c]
                 /\ (dispatch[c].reply = "refused"
                       /\ proc[dispatch[c].worker] \notin {"stopping", "draining"}) =>
                       \A p \in QueryId : /\ ~InHand(p, dispatch[c].worker)'
                                          /\ ~Sent(p, dispatch[c].worker)'
                 /\ (dispatch[c].reply = "busy" /\ status[dispatch[c].query] = "running") =>
                       \A v \in Worker : ~Engaged(dispatch[c].query, v)'
      <3>1. dispatch'[c] = dispatch[c]
        BY <1>8, <2>5 DEF RejectQuery, RefuseQuery, Answer
      <3> QED
        BY <1>2, <1>5, <2>2, <2>5, <3>1 DEF Sole, RepliesFit
    \* A worker that rejects has not got the query, and no other worker has.
    <2>6. CASE RejectQuery(m)
      <3>1. proc[w] = "up" /\ Answer(m, "busy")
        BY <2>6 DEF RejectQuery
      <3>2. ASSUME NEW c \in Claimer, c = m.from, status[q] = "running"
            PROVE  /\ dispatch'[c] = [query |-> q, worker |-> w, reply |-> "busy"]
                   /\ \A v \in Worker : ~Engaged(q, v)'
        <4>1. assigned[q] = w
          BY <3>2 DEF Sole, RowsFit, Owned, Outcome
        <4>2. \A v \in Worker : Engaged(q, v) => v = w
          BY <3>2, <4>1 DEF Sole, RowsFit, Owned, Outcome
        <4>3. ~Engaged(q, w)'
          <5>1. ~Sent(q, w)'
            BY <1>1, <1>3, <3>1 DEF Sent, Alike
          <5>2. ~InHand(q, w)'
            BY <1>3, <2>2, <3>1
          <5> QED
            BY <5>1, <5>2 DEF Engaged
        <4> QED
          BY <1>6, <2>2, <3>1, <3>2, <4>2, <4>3 DEF Answer
      <3>3. \A c \in Claimer : c = m.from =>
              dispatch'[c] = [query |-> q, worker |-> w, reply |-> "busy"]
        BY <1>6, <3>1 DEF Answer
      <3>4. RepliesFit'
        BY <1>1, <2>5, <3>2, <3>3 DEF RepliesFit
      <3> QED
        BY <1>4, <2>3, <2>4, <3>4 DEF Sole
    \* One that refuses has nothing, unless it is on its way down.
    <2>7. CASE RefuseQuery(m)
      <3>1. proc[w] # "up" /\ Answer(m, "refused")
        BY <2>7 DEF RefuseQuery
      <3>2. \A c \in Claimer : c = m.from =>
              dispatch'[c] = [query |-> q, worker |-> w, reply |-> "refused"]
        BY <1>6, <3>1 DEF Answer
      <3>3. ASSUME NEW c \in Claimer, c = m.from, proc[w] \notin {"stopping", "draining"}
            PROVE  \A p \in QueryId : ~InHand(p, w)' /\ ~Sent(p, w)'
        <4>1. proc[w] \in {"down", "starting", "ready"}
          BY <3>1, <3>3 DEF Processes, Lifetime
        <4>2. \A p \in QueryId : ~InHand(p, w)
          BY <4>1 DEF Lively, InHand, Reporting
        <4>3. \A n \in posted : n.worker = w => n = m
          <5> SUFFICES ASSUME NEW n \in posted, n.worker = w PROVE n = m
            OBVIOUS
          <5>1. n.from # None
            BY <4>1 DEF Sole, OrphansFit
          <5>2. n.from \in Claimer
            BY <5>1 DEF Coordinated
          <5> QED
            BY <3>3, <5>2, OneSender
        <4> QED
          BY <1>1, <2>2, <4>2, <4>3 DEF Sent
      <3>4. RepliesFit'
        BY <1>1, <2>5, <3>2, <3>3 DEF RepliesFit
      <3> QED
        BY <1>4, <2>3, <2>4, <3>4 DEF Sole
    <2> QED
      BY <1>8, <2>6, <2>7
  <1> QED
    BY <1>7, <1>8 DEF RequestArrives

LEMMA TaskSole ==
    ASSUME Processes, Coordinated, Sole, NEW w \in Worker, NEW q \in QueryId,
           NEW outcome \in Outcome, TaskEnds(w, q, outcome)
    PROVE  Sole'
  <1> PICK report : report = [worker |-> w, query |-> q, outcome |-> outcome]
    OBVIOUS
  <1>1. /\ executing[w][q] > 0
        /\ executing' = [executing EXCEPT ![w][q] = @ - 1]
        /\ reports' = reports \cup {report}
        /\ UNCHANGED <<status, assigned, fresh, dispatch, proc, posted>>
    BY DEF TaskEnds, vars, coordinatorVars
  <1>2. executing[w][q] = 1 /\ ~Reporting(q, w) /\ InHand(q, w)
    BY <1>1, OncePlain DEF Sole, InHand
  <1>3. \A v \in Worker, p \in QueryId :
          executing'[v][p] = IF v = w /\ p = q THEN 0 ELSE executing[v][p]
    BY <1>1, <1>2 DEF Processes
  <1>4. \A v \in Worker, p \in QueryId :
          Reporting(p, v)' <=> Reporting(p, v) \/ (v = w /\ p = q)
    BY <1>1 DEF Reporting
  <1>5. \A p \in QueryId, v \in Worker : InHand(p, v)' => InHand(p, v)
    BY <1>2, <1>3, <1>4 DEF InHand
  <1>6. OnceInHand'
    <2>1. \A v \in Worker, p \in QueryId :
            executing'[v][p] + (IF Reporting(p, v)' THEN 1 ELSE 0) <= 1
      BY <1>2, <1>3, <1>4 DEF Sole, OnceInHand
    <2>2. \A r, s \in reports' : Alike(r, s) => r = s
      <3>1. \A r \in reports : ~Alike(r, report) /\ ~Alike(report, r)
        BY <1>2 DEF Reporting, Alike
      <3> QED
        BY <1>1, <3>1 DEF Sole, OnceInHand
    <2>3. \A m \in posted : proc[m.worker] = "up" =>
            /\ executing'[m.worker][m.query] = 0 /\ ~Reporting(m.query, m.worker)'
            /\ \A n \in posted : Alike(m, n) => m = n
      <3> SUFFICES ASSUME NEW m \in posted, proc[m.worker] = "up"
                   PROVE  executing'[m.worker][m.query] = 0 /\ ~Reporting(m.query, m.worker)'
        BY DEF Sole, OnceInHand
      <3>1. /\ m.worker \in Worker /\ m.query \in QueryId
            /\ executing[m.worker][m.query] = 0 /\ ~Reporting(m.query, m.worker)
        BY DEF Coordinated, Sole, OnceInHand
      <3>2. m.worker # w \/ m.query # q
        BY <1>2, <3>1
      <3> QED
        BY <1>3, <1>4, <3>1, <3>2
    <2> QED
      BY <1>1, <2>1, <2>2, <2>3 DEF OnceInHand, Alike
  <1>7. RowsFit' /\ RepliesFit' /\ OrphansFit'
    <2>1. \A p \in QueryId, v \in Worker : Owned(p, v) => Owned(p, v)'
      BY <1>1 DEF Owned
    <2>2. \A m \in posted : m.from \in Claimer => Owned(m.query, m.worker)'
      BY <2>1 DEF Sole, RowsFit, Coordinated
    <2> QED
      BY <1>1, <1>5, <2>1, <2>2, NothingNew DEF Sole
  <1> QED
    BY <1>1, <1>6, <1>7 DEF Sole, Beating

\* A coordinator that dies leaves requests at listening processes only, and all
\* replies unread.
LEMMA CrashSole ==
    ASSUME Processes, Coordinated, Sole, CoordinatorCrash
    PROVE  Sole'
  <1>1. /\ dispatch' = [c \in Claimer |-> NoDispatch] /\ Abandon(Claimer)
        /\ UNCHANGED <<proc, executing, reports, status, assigned, fresh>>
    BY DEF CoordinatorCrash, Rollback, vars, queryTable, workerTable, workerVars
  <1>2. \A m \in posted' : \E n \in posted :
          /\ m = [n EXCEPT !.from = None]
          /\ n.from # None => proc[n.worker] = "up"
    <2> SUFFICES ASSUME NEW m \in posted'
                 PROVE  \E n \in posted : /\ m = [n EXCEPT !.from = None]
                                          /\ n.from # None => proc[n.worker] = "up"
      OBVIOUS
    <2> PICK n \in posted : /\ n.from \in Claimer => proc[n.worker] = "up"
                            /\ m = [n EXCEPT !.from = IF @ \in Claimer THEN None ELSE @]
      BY <1>1 DEF Abandon
    <2>1. n \in [query : QueryId, worker : Worker, from : Claimer \cup {None}]
      BY DEF Coordinated
    <2>2. m = [n EXCEPT !.from = None] /\ (n.from # None => proc[n.worker] = "up")
      BY <2>1
    <2> QED
      BY <2>2
  <1>3. \A n \in posted : \A m : m = [n EXCEPT !.from = None] =>
          m.query = n.query /\ m.worker = n.worker /\ m.from = None
    BY DEF Coordinated
  <1>4. \A q, w : Sent(q, w)' => Sent(q, w)
    BY <1>2, <1>3 DEF Sent
  <1>5. \A q, w : /\ Reporting(q, w)' <=> Reporting(q, w)
                  /\ Owned(q, w)' <=> Owned(q, w)
                  /\ Engaged(q, w)' => Engaged(q, w)
    BY <1>1, <1>4 DEF Reporting, Owned, Engaged, InHand
  <1>6. OnceInHand'
    <2>1. ASSUME NEW m \in posted', proc[m.worker] = "up"
          PROVE  /\ executing[m.worker][m.query] = 0 /\ ~Reporting(m.query, m.worker)
                 /\ \A l \in posted' : Alike(m, l) => m = l
      <3> PICK n \in posted : m = [n EXCEPT !.from = None]
        BY <1>2
      <3>1. proc[n.worker] = "up" /\ n.query = m.query /\ n.worker = m.worker
        BY <1>3, <2>1
      <3>2. ASSUME NEW l \in posted', Alike(m, l) PROVE m = l
        <4> PICK k \in posted : l = [k EXCEPT !.from = None]
          BY <1>2
        <4>1. Alike(n, k)
          BY <1>3, <3>1, <3>2 DEF Alike
        <4> QED
          BY <3>1, <4>1 DEF Sole, OnceInHand
      <3> QED
        BY <3>1, <3>2 DEF Sole, OnceInHand
    <2>2. \A w \in Worker, q \in QueryId :
            executing'[w][q] + (IF Reporting(q, w)' THEN 1 ELSE 0) <= 1
      BY <1>1, <1>5 DEF Sole, OnceInHand
    <2>3. \A r, s \in reports' : Alike(r, s) => r = s
      BY <1>1 DEF Sole, OnceInHand
    <2>4. \A m \in posted' : proc'[m.worker] = "up" =>
            /\ executing'[m.worker][m.query] = 0 /\ ~Reporting(m.query, m.worker)'
            /\ \A l \in posted' : Alike(m, l) => m = l
      BY <1>1, <1>5, <2>1
    <2> QED
      BY <2>2, <2>3, <2>4 DEF OnceInHand, Alike
  <1>7. \A m \in posted' : m.from = None /\ m.from \notin Claimer
    BY <1>2, <1>3, LauncherAssumption
  <1>8. RowsFit'
    BY <1>5, <1>7 DEF Sole, RowsFit
  <1>9. RepliesFit'
    BY <1>1 DEF RepliesFit, NoDispatch
  <1>10. OrphansFit'
    BY <1>1, <1>2, <1>3 DEF Sole, OrphansFit
  <1> QED
    BY <1>1, <1>6, <1>8, <1>9, <1>10 DEF Sole, Beating

\* A process that ends takes with it what was in hand there, and under way.
LEMMA DownSole ==
    ASSUME Processes, Coordinated, Sole, NEW w \in Worker, Down(w)
    PROVE  Sole'
  <1> DEFINE Cut(c) == \E m \in posted : m.worker = w /\ m.from = c
  <1>1. /\ proc' = [proc EXCEPT ![w] = "down"]
        /\ executing' = [executing EXCEPT ![w] = [q \in QueryId |-> 0]]
        /\ reports' = {r \in reports : r.worker # w}
        /\ posted' = {m \in posted : m.worker # w}
        /\ UNCHANGED <<status, assigned, fresh>>
        /\ \A c \in Claimer : dispatch'[c] =
             IF Cut(c) THEN [dispatch[c] EXCEPT !.reply = "refused"] ELSE dispatch[c]
    BY DEF Down, vars, queryTable, workerTable
  <1>2. \A v \in Worker : proc'[v] = IF v = w THEN "down" ELSE proc[v]
    BY <1>1 DEF Processes
  <1>3. \A v \in Worker, q \in QueryId : executing'[v][q] = IF v = w THEN 0 ELSE executing[v][q]
    BY <1>1 DEF Processes
  <1>4. \A q, v : /\ Reporting(q, v)' <=> Reporting(q, v) /\ v # w
                  /\ Sent(q, v)' <=> Sent(q, v) /\ v # w
                  /\ Owned(q, v)' <=> Owned(q, v)
    BY <1>1 DEF Reporting, Sent, Owned
  <1>5. \A v \in Worker, q \in QueryId : InHand(q, v)' <=> InHand(q, v) /\ v # w
    BY <1>3, <1>4 DEF InHand
  <1>6. \A v \in Worker, q \in QueryId : Engaged(q, v)' => Engaged(q, v)
    BY <1>2, <1>4, <1>5 DEF Engaged
  <1>7. \A m \in posted' : m \in posted /\ m.worker \in Worker /\ m.query \in QueryId /\ m.worker # w
    BY <1>1 DEF Coordinated
  <1>8. OnceInHand'
    <2>1. \A v \in Worker, q \in QueryId :
            executing'[v][q] + (IF Reporting(q, v)' THEN 1 ELSE 0) <= 1
      BY <1>3, <1>4 DEF Sole, OnceInHand
    <2>2. \A r, s \in reports' : Alike(r, s) => r = s
      BY <1>1 DEF Sole, OnceInHand
    <2>3. \A m \in posted' : proc'[m.worker] = "up" =>
            /\ executing'[m.worker][m.query] = 0 /\ ~Reporting(m.query, m.worker)'
            /\ \A n \in posted' : Alike(m, n) => m = n
      BY <1>2, <1>3, <1>4, <1>7 DEF Sole, OnceInHand
    <2> QED
      BY <2>1, <2>2, <2>3 DEF OnceInHand, Alike
  <1>9. RowsFit'
    BY <1>4, <1>6, <1>7 DEF Sole, RowsFit
  <1>10. ASSUME NEW c \in Claimer, Cut(c)
         PROVE  dispatch'[c].reply = "refused" /\ dispatch'[c].worker = w
    <2> PICK m \in posted : m.worker = w /\ m.from = c
      BY <1>10
    <2>1. dispatch[c] = [query |-> m.query, worker |-> w, reply |-> "none"]
      BY DEF Coordinated, Awaited
    <2>2. dispatch'[c] = [dispatch[c] EXCEPT !.reply = "refused"]
      BY <1>1, <1>10
    <2> QED
      BY <2>1, <2>2
  <1>11. ASSUME NEW c \in Claimer, ~Cut(c), dispatch[c].reply \in {"refused", "busy"}
         PROVE  /\ dispatch'[c] = dispatch[c]
                /\ dispatch[c].worker \in Worker /\ dispatch[c].query \in QueryId
    <2>1. dispatch'[c] = dispatch[c]
      BY <1>1, <1>11
    <2>2. dispatch[c] \in {NoDispatch} \cup Waiting /\ dispatch[c].reply # "none"
      BY <1>11 DEF Coordinated
    <2>3. dispatch[c] \in Waiting
      BY <2>2 DEF NoDispatch
    <2> QED
      BY <2>1, <2>3 DEF Waiting
  <1>12. RepliesFit'
    <2>1. ASSUME NEW c \in Claimer, dispatch'[c].reply = "refused",
                 proc'[dispatch'[c].worker] \notin {"stopping", "draining"}
          PROVE  \A q \in QueryId : /\ ~InHand(q, dispatch[c].worker)'
                                    /\ ~Sent(q, dispatch[c].worker)'
      <3>1. CASE dispatch'[c].worker = w
        BY <1>4, <1>5, <3>1
      <3>2. CASE dispatch'[c].worker # w
        <4>1. ~Cut(c) /\ dispatch'[c] = dispatch[c] /\ dispatch[c].worker \in Worker
          BY <1>1, <1>10, <1>11, <2>1, <3>2
        <4>2. proc[dispatch[c].worker] \notin {"stopping", "draining"}
          BY <1>2, <2>1, <3>2, <4>1
        <4>3. \A q \in QueryId : ~InHand(q, dispatch[c].worker) /\ ~Sent(q, dispatch[c].worker)
          BY <2>1, <4>1, <4>2 DEF Sole, RepliesFit
        <4> QED
          BY <1>4, <1>5, <4>1, <4>3
      <3> QED
        BY <3>1, <3>2
    <2>2. ASSUME NEW c \in Claimer, dispatch'[c].reply = "busy",
                 status'[dispatch'[c].query] = "running"
          PROVE  \A v \in Worker : ~Engaged(dispatch[c].query, v)'
      <3>1. ~Cut(c)
        BY <1>10, <2>2
      <3>2. dispatch'[c] = dispatch[c] /\ dispatch[c].query \in QueryId
        BY <1>1, <1>11, <2>2, <3>1
      <3>3. \A v \in Worker : ~Engaged(dispatch[c].query, v)
        BY <1>1, <2>2, <3>2 DEF Sole, RepliesFit
      <3> QED
        BY <1>6, <3>2, <3>3
    <2> QED
      BY <2>1, <2>2 DEF RepliesFit
  <1>13. OrphansFit' /\ Beating'
    BY <1>1, <1>2, <1>7 DEF Sole, OrphansFit, Beating
  <1> QED
    BY <1>8, <1>9, <1>12, <1>13 DEF Sole

\* A process that starts to listen finds the query under way at most, whose row
\* says so; one that stops keeps what it has.
LEMMA MoveSole ==
    ASSUME OneAtATime, Processes, Coordinated, Lively, Sole, Beating',
           UNCHANGED <<dispatch, posted, executing, reports, status, assigned>>,
           \A v \in Worker : proc'[v] = "up" => proc[v] \in {"ready", "up"},
           \A v \in Worker : proc[v] \in {"up", "stopping", "draining"} =>
                               proc'[v] \in {"up", "stopping", "draining"},
           \A v \in Worker : proc[v] \in {"stopping", "draining"} =>
                               proc'[v] \in {"stopping", "draining"}
    PROVE  Sole'
  <1>1. \A q, v : /\ InHand(q, v)' <=> InHand(q, v)
                  /\ Sent(q, v)' <=> Sent(q, v)
                  /\ Reporting(q, v)' <=> Reporting(q, v)
                  /\ Owned(q, v)' <=> Owned(q, v)
    BY DEF InHand, Sent, Reporting, Owned
  <1>2. ASSUME NEW v \in Worker, proc[v] = "ready"
        PROVE  /\ \A q \in QueryId : ~InHand(q, v) /\ executing[v][q] = 0 /\ ~Reporting(q, v)
               /\ \A m \in posted : m.worker = v => m.from \in Claimer
    <2>1. \A q \in QueryId : executing[v][q] = 0 /\ ~Reporting(q, v)
      BY <1>2 DEF Lively, Reporting
    <2>2. \A q \in QueryId : ~InHand(q, v)
      BY <2>1 DEF InHand
    <2>3. \A m \in posted : m.worker = v => m.from # None
      BY <1>2 DEF Sole, OrphansFit
    <2> QED
      BY <2>1, <2>2, <2>3 DEF Coordinated
  <1>3. OnceInHand'
    <2>1. ASSUME NEW m \in posted, proc'[m.worker] = "up"
          PROVE  /\ executing[m.worker][m.query] = 0 /\ ~Reporting(m.query, m.worker)
                 /\ \A n \in posted : Alike(m, n) => m = n
      <3>1. m.worker \in Worker /\ m.query \in QueryId
        BY DEF Coordinated
      <3>2. CASE proc[m.worker] = "up"
        BY <3>2 DEF Sole, OnceInHand
      <3>3. CASE proc[m.worker] = "ready"
        BY <1>2, <3>1, <3>3, OneSender DEF Alike
      <3> QED
        BY <2>1, <3>1, <3>2, <3>3
    <2> QED
      BY <1>1, <2>1 DEF Sole, OnceInHand, Alike
  <1>4. \A q \in QueryId, v \in Worker : Engaged(q, v)' =>
          \/ Engaged(q, v)
          \/ \E m \in posted : m.query = q /\ m.worker = v /\ m.from \in Claimer
    BY <1>1, <1>2 DEF Engaged, Sent
  <1>5. RowsFit'
    BY <1>1, <1>4 DEF Sole, RowsFit
  <1>6. RepliesFit'
    <2> SUFFICES ASSUME NEW c \in Claimer, dispatch[c].reply \in {"refused", "busy"}
                 PROVE  /\ (dispatch[c].reply = "refused"
                              /\ proc'[dispatch[c].worker] \notin {"stopping", "draining"}) =>
                             \A q \in QueryId : /\ ~InHand(q, dispatch[c].worker)
                                                /\ ~Sent(q, dispatch[c].worker)
                        /\ (dispatch[c].reply = "busy" /\ status[dispatch[c].query] = "running") =>
                             \A v \in Worker : ~Engaged(dispatch[c].query, v)'
      BY <1>1 DEF RepliesFit
    <2>1. dispatch[c].worker \in Worker /\ dispatch[c].query \in QueryId
      BY DEF Coordinated, NoDispatch, Waiting
    <2>2. \A m \in posted : m.from \notin Claimer
      BY NoRequest, LauncherAssumption
    <2>3. \A q \in QueryId, v \in Worker : Engaged(q, v)' => Engaged(q, v)
      BY <1>4, <2>2
    <2> QED
      BY <2>1, <2>3 DEF Sole, RepliesFit
  <1>7. OrphansFit'
    BY DEF Sole, OrphansFit, Coordinated
  <1> QED
    BY <1>3, <1>5, <1>6, <1>7 DEF Sole

LEMMA LifespanSole ==
    ASSUME OneAtATime, RowInv, Processes, Coordinated, Lively, Sole, NEW w \in Worker, Lifespan(w)
    PROVE  Sole'
  <1>1. CASE Exit(w) \/ WorkerCrash(w)
    BY <1>1, DownSole DEF Exit, WorkerCrash
  <1>2. CASE ~(Exit(w) \/ WorkerCrash(w))
    <2>1. UNCHANGED <<dispatch, posted, executing, reports>>
      BY <1>2 DEF Lifespan, Register, NotifyReady, Listen, Heartbeat, LateHeartbeat, coordinatorVars,
                  MissHeartbeats, BeginShutdown, NotifyShutdown, WorkerOnly, netVars, workerVars
    <2>2. UNCHANGED <<status, assigned>>
      <3>1. CASE Register(w) \/ NotifyReady(w) \/ Listen(w) \/ BeginShutdown(w) \/ NotifyShutdown(w)
        BY <3>1 DEF Register, RegisterWorker, NotifyReady, ReadyWorker, Listen, BeginShutdown,
                    NotifyShutdown, ShutdownWorker, vars, queryTable
      <3>2. CASE Heartbeat(w) \/ LateHeartbeat(w) \/ MissHeartbeats(w)
        BY <3>2 DEF Heartbeat, LateHeartbeat, HeartbeatWorker, MissHeartbeats, HeartbeatExpires,
                    queryTable
      <3> QED
        BY <1>2, <3>1, <3>2 DEF Lifespan
    <2>3. /\ proc' = proc \/ \E x : proc' = [proc EXCEPT ![w] = x]
          /\ proc'[w] = "up" => proc[w] \in {"ready", "up"}
          /\ proc[w] \in {"up", "stopping", "draining"} => proc'[w] \in {"up", "stopping", "draining"}
          /\ proc[w] \in {"stopping", "draining"} => proc'[w] \in {"stopping", "draining"}
      BY <1>2 DEF Lifespan, Register, NotifyReady, Listen, Heartbeat, LateHeartbeat,
                  MissHeartbeats, BeginShutdown, NotifyShutdown, workerVars, Processes
    <2>4. \A v \in Worker : v # w => proc'[v] = proc[v]
      BY <2>3 DEF Processes
    <2>5. \A v \in Worker : v # w => fresh'[v] = fresh[v]
      <3>1. CASE Register(w) \/ NotifyReady(w) \/ Listen(w) \/ BeginShutdown(w) \/ NotifyShutdown(w)
        BY <3>1 DEF Register, RegisterWorker, NotifyReady, ReadyWorker, Listen, BeginShutdown,
                    NotifyShutdown, ShutdownWorker, vars, workerTable, RowInv, TypeOK
      <3>2. CASE Heartbeat(w) \/ LateHeartbeat(w) \/ MissHeartbeats(w)
        BY <3>2 DEF Heartbeat, LateHeartbeat, HeartbeatWorker, MissHeartbeats, HeartbeatExpires,
                    RowInv, TypeOK
      <3> QED
        BY <1>2, <3>1, <3>2 DEF Lifespan
    <2>6. proc'[w] \in {"ready", "up"} => fresh'[w]
      <3> USE DEF RowInv, TypeOK, Processes
      <3>1. CASE Register(w) \/ BeginShutdown(w) \/ NotifyShutdown(w)
        BY <3>1 DEF Register, BeginShutdown, NotifyShutdown
      <3>2. CASE NotifyReady(w)
        BY <3>2 DEF NotifyReady, ReadyWorker
      <3>3. CASE Listen(w)
        BY <3>3 DEF Listen, vars, workerTable, Sole, Beating
      <3>4. CASE Heartbeat(w) \/ LateHeartbeat(w)
        BY <3>4 DEF Heartbeat, LateHeartbeat, HeartbeatWorker
      <3>5. CASE MissHeartbeats(w)
        BY <3>5 DEF MissHeartbeats, Fault, OneAtATime
      <3> QED
        BY <1>2, <3>1, <3>2, <3>3, <3>4, <3>5 DEF Lifespan
    <2>7. Beating'
      BY <2>4, <2>5, <2>6 DEF Sole, Beating
    <2> QED
      BY <2>1, <2>2, <2>3, <2>4, <2>7, MoveSole
  <1> QED
    BY <1>1, <1>2

LEMMA StepSole ==
    ASSUME OneAtATime, RowInv, Processes, Coordinated, Lively, Sole, [LauncherNext]_launcherVars
    PROVE  Sole'
  <1>1. CASE UNCHANGED launcherVars
    <2>1. UNCHANGED <<dispatch, proc, posted, executing, fresh, reports, status, assigned>>
      BY <1>1 DEF launcherVars, vars, queryTable, workerTable, coordinatorVars, workerVars, netVars
    <2>2. \A q, w : Owned(q, w) => Owned(q, w)'
      BY <2>1 DEF Owned
    <2>3. \A m \in posted : m.from \in Claimer => Owned(m.query, m.worker)'
      BY <2>2 DEF Sole, RowsFit
    <2> QED
      BY <2>1, <2>2, <2>3, RowsSole
  <1>2. CASE \E q \in QueryId : SubmitQuery(q) \/ CancelStep(q)
    BY <1>2, QuerySole
  <1>3. CASE \E c \in Claimer, q \in QueryId : SubmitClaims(c, q)
    BY <1>3 DEF SubmitClaims, OneAtATime
  <1>4. CASE \E c \in Claimer : Schedule(c)
    BY <1>4, ClaimSole, PostSole, DispatchSole, FailedSole DEF Schedule
  <1>5. CASE Sweep
    BY <1>5, SweepSole
  <1>6. CASE \E m \in posted : RequestArrives(m)
    BY <1>6, RequestSole
  <1>7. CASE \E w \in Worker, q \in QueryId, outcome \in Outcome : TaskEnds(w, q, outcome)
    BY <1>7, TaskSole
  <1>8. CASE \E r \in reports : ReportArrives(r) \/ ReportLost(r)
    BY <1>8, ReportSole
  <1>9. CASE \E w \in Worker : Lifespan(w)
    BY <1>9, LifespanSole
  <1>10. CASE CoordinatorCrash
    BY <1>10, CrashSole
  <1> QED
    BY <1>1, <1>2, <1>3, <1>4, <1>5, <1>6, <1>7, <1>8, <1>9, <1>10 DEF LauncherNext

LEMMA InitSole == LauncherInit => Sole /\ Filed
  <1> SUFFICES ASSUME LauncherInit PROVE Sole /\ Filed
    OBVIOUS
  <1>1. /\ posted = {} /\ reports = {} /\ \A w \in Worker : proc[w] = "down" /\ listed[w] = {}
        /\ \A w \in Worker, q \in QueryId : executing[w][q] = 0
        /\ \A q \in QueryId : status[q] = "absent"
        /\ \A c \in Claimer : dispatch[c].reply = "none"
    BY DEF LauncherInit, Init, NoDispatch
  <1>2. \A q \in QueryId, w \in Worker : ~InHand(q, w) /\ ~Reporting(q, w)
    BY <1>1 DEF InHand, Reporting
  <1>3. Sole
    BY <1>1, <1>2 DEF Sole, OnceInHand, RowsFit, RepliesFit, OrphansFit, Beating, Engaged
  <1>4. Filed
    <2>1. Cardinality({}) = 0 /\ \A w \in Worker : MaxConcurrent[w] \in Nat
      BY FS_EmptySet, StoreAssumption
    <2> QED
      BY <1>1, <1>2, <2>1 DEF Filed
  <1> QED
    BY <1>3, <1>4

(***************************************************************************)
(* Theorems.                                                                *)
(***************************************************************************)
LEMMA LauncherInvariant == LauncherSpec => []LauncherInv
  BY LauncherInitInv, LauncherStepInv, PTL DEF LauncherSpec

\* Two more parts of the invariant, on top of the first.
LEMMA LivelyInvariant == LauncherSpec => [](Lively /\ Asked)
  <1>1. LauncherInit => Lively /\ Asked
    BY DEF LauncherInit, Init, NoCancel, Lively, Asked
  <1>2. LauncherInv /\ Lively /\ Asked /\ [LauncherNext]_launcherVars => Lively' /\ Asked'
    BY InvParts, StepLively, StepAsked DEF LauncherInv
  <1> QED
    BY <1>1, <1>2, LauncherInvariant, PTL DEF LauncherSpec

\* Coroutines, processes and messages stay well formed, and no coroutine that
\* waits for a worker's answer keeps a claim, and its row lock, open meanwhile.
THEOREM LauncherTypeCorrect == LauncherSpec => []LauncherTypeOK
  BY LauncherInvariant, PTL DEF LauncherInv

\* Any number of coroutines, workers and users, with any faults, changes the
\* tables by one operation of QueryStore at a time.
THEOREM LauncherImplementsStore == LauncherSpec => ImplementsStore
  <1>1. LauncherInit => Init
    BY DEF LauncherInit
  <1>2. LauncherInv /\ [LauncherNext]_launcherVars => [Next]_vars
    BY LauncherStepMaps DEF LauncherInv
  <1> QED
    BY <1>1, <1>2, LauncherInvariant, PTL DEF LauncherSpec, ImplementsStore, Spec

\* Hence the running system never gives a worker more queries than its limit
\* plus the other open claims, nor more of a resource than it reported plus what
\* those claims ask for, and strands no more than one query per connection on a
\* worker it has given up.
THEOREM LauncherLoad == LauncherSpec => [](OvercommitBound /\ ResourceBound /\ StrandedBound)
  BY LauncherImplementsStore, OvercommitBounded, ResourceBounded, StrandedBounded, PTL
     DEF ImplementsStore

\* And no late report, cancellation or fault changes a query that has ended.
THEOREM LauncherFinality == LauncherSpec => TerminalIsFinal
  BY LauncherImplementsStore, TerminalFinality, PTL DEF ImplementsStore

\* And what a user sees of each query follows the abstract life cycle: placed
\* from the queue only, returned to it without a worker, ended once.
THEOREM LauncherImplementsLifecycle == LauncherSpec => ImplementsLifecycle
  BY LauncherImplementsStore, StoreImplementsLifecycle, PTL DEF ImplementsStore

\* Whatever workers, dispatches, reports and coordinators fail, and in whatever
\* order, a row that says 'running' is left to nobody in the five ways only.
THEOREM StrandedInFiveWays == LauncherSpec => FiveWaysToStrand
  <1>1. LauncherInv /\ Lively /\ Asked /\ [LauncherNext]_launcherVars =>
          [\A q \in QueryId : Stranded(q)' /\ ~Stranded(q) => MayStrand(q)]_launcherVars
    BY InvParts, StepStrands
  <1> QED
    BY <1>1, LauncherInvariant, LivelyInvariant, PTL DEF LauncherSpec, FiveWaysToStrand

\* A cancel request that was not refused ends with a finished query, also when
\* the query it read as pending was claimed, moved or completed meanwhile.
THEOREM CancellationSettles == LauncherSpec => CancelSettles
  <1>1. LauncherInv /\ Lively /\ Asked /\ [LauncherNext]_launcherVars =>
          [\A q \in QueryId :
             (cancel[q].stage \in {"mark", "poll"} /\ cancel'[q] = NoCancel /\ ~CoordinatorCrash)
                => status'[q] \in Outcome]_launcherVars
    BY InvParts, StepSettles
  <1> QED
    BY <1>1, LauncherInvariant, LivelyInvariant, PTL DEF LauncherSpec, CancelSettles

\* As long as no worker that serves has a query in hand twice, its own count is
\* right and results stay: whatever else happens, and with any number of
\* claimers, these two fail together with OnceInHand only.
THEOREM OnceInHandSuffices == LauncherSpec /\ []OnceInHand => [](ParallelLimit /\ CompletedIsStored)
  <1>1. LauncherInit => Filed
    BY InitSole
  <1>2. LauncherInv /\ Lively /\ Asked /\ Filed /\ OnceInHand /\ [LauncherNext]_launcherVars => Filed'
    BY InvParts, StepFiled
  <1>3. LauncherInv /\ Filed /\ OnceInHand => ParallelLimit /\ CompletedIsStored
    BY InvParts, FiledSuffices
  <1> QED
    BY <1>1, <1>2, <1>3, LauncherInvariant, LivelyInvariant, PTL DEF LauncherSpec

\* And none has, with one claimer whose dispatches wait for their answers, and
\* heartbeats that arrive while their worker serves: whatever stops, crashes or
\* is lost, the coordinator and reports among them.
THEOREM EachQueryOnce ==
    ASSUME OneAtATime
    PROVE  LauncherSpec => []OnceInHand
  <1>1. LauncherInit => Sole
    BY InitSole
  <1>2. LauncherInv /\ Lively /\ Asked /\ Sole /\ [LauncherNext]_launcherVars => Sole'
    BY InvParts, StepSole
  <1>3. Sole => OnceInHand
    BY DEF Sole
  <1> QED
    BY <1>1, <1>2, <1>3, LauncherInvariant, LivelyInvariant, PTL DEF LauncherSpec

\* So a worker executes no more queries than max_concurrent_queries, though it
\* counts the keys of query_tasks and not the tasks.
THEOREM ParallelLimited ==
    ASSUME OneAtATime
    PROVE  LauncherSpec => []ParallelLimit
  BY OnceInHandSuffices, EachQueryOnce, PTL

\* And the result of a completed query is on some worker's disk for good.
THEOREM ResultsKept ==
    ASSUME OneAtATime
    PROVE  LauncherSpec => []CompletedIsStored
  BY OnceInHandSuffices, EachQueryOnce, PTL
=============================================================================
