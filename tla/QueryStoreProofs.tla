-------------------------- MODULE QueryStoreProofs --------------------------
(***************************************************************************)
(* Machine-checked proofs about QueryStore, for any number of queries,      *)
(* workers, connections and resources.                                      *)
(***************************************************************************)
EXTENDS QueryStore, SumLemmas, FiniteSetTheorems, TLAPS

(***************************************************************************)
(* Type correctness.                                                        *)
(***************************************************************************)
LEMMA InitTypeOK == Init => TypeOK
  BY StoreAssumption DEF Init, TypeOK, QueryStatus, Error, WorkerStatus, ClaimState

LEMMA WorkerStepTypeOK ==
    ASSUME TypeOK, NEW w \in Worker, WorkerStep(w)
    PROVE  TypeOK'
  <1> USE StoreAssumption DEF TypeOK, queryTable
  <1>1. CASE RegisterWorker(w)
    BY <1>1 DEF RegisterWorker, WorkerStatus
  <1>2. CASE ReadyWorker(w)
    BY <1>2 DEF ReadyWorker, WorkerStatus
  <1>3. CASE \E s \in {"running", "shutting_down"} : HeartbeatWorker(w, s)
    BY <1>3 DEF HeartbeatWorker, WorkerStatus
  <1>4. CASE ShutdownWorker(w)
    BY <1>4 DEF ShutdownWorker, WorkerStatus
  <1>5. CASE HeartbeatExpires(w)
    BY <1>5 DEF HeartbeatExpires
  <1>6. CASE MarkWorkerUnreachable(w)
    BY <1>6 DEF MarkWorkerUnreachable, ReturnQueriesOf, WorkerStatus, QueryStatus, Error
  <1> QED
    BY <1>1, <1>2, <1>3, <1>4, <1>5, <1>6 DEF WorkerStep

LEMMA SweepTypeOK ==
    ASSUME TypeOK, SweepStaleWorkers
    PROVE  TypeOK'
  BY DEF TypeOK, SweepStaleWorkers, ReturnQueriesOf, WorkerStatus, QueryStatus, Error

LEMMA QueryStepTypeOK ==
    ASSUME TypeOK, NEW q \in QueryId, QueryStep(q)
    PROVE  TypeOK'
  <1> USE DEF TypeOK, workerTable, QueryStatus, Error, Outcome
  <1>1. CASE CreateQuery(q)
    BY <1>1 DEF CreateQuery
  <1>2. CASE \E outcome \in Outcome : CompleteQuery(q, outcome)
    BY <1>2 DEF CompleteQuery
  <1>3. CASE MarkQueryCancelled(q)
    BY <1>3 DEF MarkQueryCancelled
  <1>4. CASE RevertQueryToPending(q)
    BY <1>4 DEF RevertQueryToPending
  <1> QED
    BY <1>1, <1>2, <1>3, <1>4 DEF QueryStep

\* What a claim step does to the connection's own claim, in one place.
LEMMA ClaimStateFacts ==
    ASSUME TypeOK, NEW c \in Claimer
    PROVE  /\ claim[c] \in ClaimState
           /\ claim[c].phase = "idle" <=> claim[c] = NoClaim
           /\ claim[c].phase # "idle" => claim[c].query \in QueryId
           /\ claim[c].phase = "idle" => claim[c].query = None
           /\ claim[c].phase = "picked" => claim[c].worker \in Worker
  BY DEF TypeOK, ClaimState, NoClaim

LEMMA ClaimStepTypeOK ==
    ASSUME TypeOK, NEW c \in Claimer, ClaimStep(c)
    PROVE  TypeOK'
  <1> USE DEF TypeOK, workerTable, queryTable
  <1>1. ASSUME NEW q \in QueryId, LockRow(c, q)
        PROVE  TypeOK'
    BY <1>1 DEF LockRow, ClaimState
  <1>2. CASE ClaimPendingQuery(c)
    BY <1>1, <1>2 DEF ClaimPendingQuery, Claimable
  <1>3. CASE \E q \in QueryId : ClaimQueryById(c, q)
    BY <1>1, <1>3 DEF ClaimQueryById
  <1>4. CASE \E w \in Worker : PickWorker(c, w)
    <2>1. PICK w \in Worker : PickWorker(c, w)
      BY <1>4
    <2>2. claim[c] \in [phase : {"locked"}, query : QueryId, worker : {None}]
      BY <2>1 DEF PickWorker, ClaimState, NoClaim
    <2>3. claim'[c] \in [phase : {"picked"}, query : QueryId, worker : Worker]
      BY <2>1, <2>2 DEF PickWorker
    <2>4. claim' \in [Claimer -> ClaimState]
      BY <2>1, <2>3 DEF PickWorker, ClaimState
    <2> QED
      BY <2>1, <2>4 DEF PickWorker
  <1>5. CASE PickNone(c)
    BY <1>5 DEF PickNone, ClaimState
  <1>6. CASE CommitClaim(c)
    <2>1. claim[c].query \in QueryId /\ claim[c].worker \in Worker
      BY <1>6, ClaimStateFacts DEF CommitClaim
    <2> QED
      BY <1>6, <2>1 DEF CommitClaim, ClaimState, QueryStatus
  <1> QED
    BY <1>2, <1>3, <1>4, <1>5, <1>6 DEF ClaimStep

LEMMA RollbackTypeOK ==
    ASSUME TypeOK, NEW C, Rollback(C)
    PROVE  TypeOK'
  BY DEF TypeOK, Rollback, ClaimState, workerTable, queryTable

LEMMA NextTypeOK == TypeOK /\ [Next]_vars => TypeOK'
  <1> SUFFICES ASSUME TypeOK, [Next]_vars PROVE TypeOK'
    OBVIOUS
  <1>1. CASE UNCHANGED vars
    BY <1>1 DEF TypeOK, vars
  <1> QED
    BY <1>1, WorkerStepTypeOK, SweepTypeOK, QueryStepTypeOK, ClaimStepTypeOK,
       RollbackTypeOK DEF Next

\* The tables and the open claims keep their types in every behaviour.
THEOREM TypeCorrect == Spec => []TypeOK
  BY InitTypeOK, NextTypeOK, PTL DEF Spec

(***************************************************************************)
(* Row locks and worker columns: a claim works on a row that stays pending  *)
(* and is its own, and worker_id follows the status.                        *)
(***************************************************************************)
RowInv == TypeOK /\ ClaimHoldsPendingRow /\ WorkerIffRunning

LEMMA WorkerStepRowInv ==
    ASSUME RowInv, NEW w \in Worker, WorkerStep(w)
    PROVE  ClaimHoldsPendingRow' /\ WorkerIffRunning'
  <1> USE DEF RowInv, ClaimHoldsPendingRow, WorkerIffRunning
  <1>1. CASE MarkWorkerUnreachable(w)
    <2>1. \A q \in QueryId : \/ status'[q] = status[q] /\ assigned'[q] = assigned[q]
                            \/ /\ status[q] = "running"
                               /\ status'[q] = "pending" /\ assigned'[q] = None
      BY <1>1 DEF MarkWorkerUnreachable, ReturnQueriesOf
    <2>2. claim' = claim
      BY <1>1 DEF MarkWorkerUnreachable
    <2> QED
      BY <2>1, <2>2, ClaimStateFacts
  <1>2. CASE UNCHANGED <<queryTable, claim>>
    BY <1>2 DEF queryTable
  <1> QED
    BY <1>1, <1>2 DEF WorkerStep, RegisterWorker, ReadyWorker, HeartbeatWorker,
                      ShutdownWorker, HeartbeatExpires

LEMMA SweepRowInv ==
    ASSUME RowInv, SweepStaleWorkers
    PROVE  ClaimHoldsPendingRow' /\ WorkerIffRunning'
  <1> USE DEF RowInv, ClaimHoldsPendingRow, WorkerIffRunning
  <1>1. \A q \in QueryId : \/ status'[q] = status[q] /\ assigned'[q] = assigned[q]
                          \/ /\ status[q] = "running"
                             /\ status'[q] = "pending" /\ assigned'[q] = None
    BY DEF SweepStaleWorkers, ReturnQueriesOf
  <1>2. claim' = claim
    BY DEF SweepStaleWorkers
  <1> QED
    BY <1>1, <1>2, ClaimStateFacts

LEMMA QueryStepRowInv ==
    ASSUME RowInv, NEW q \in QueryId, QueryStep(q)
    PROVE  ClaimHoldsPendingRow' /\ WorkerIffRunning'
  <1> USE DEF RowInv, ClaimHoldsPendingRow, WorkerIffRunning
  <1>1. claim' = claim
    BY DEF QueryStep, CreateQuery, CompleteQuery, MarkQueryCancelled, RevertQueryToPending
  \* Completion and cancellation wait for the row lock, creation and revert
  \* leave a pending row behind.
  <1>2. \A c \in Claimer : claim[c].phase # "idle" => status'[claim[c].query] = "pending"
    <2> SUFFICES ASSUME NEW c \in Claimer, claim[c].phase # "idle"
                 PROVE  status'[claim[c].query] = "pending"
      OBVIOUS
    <2>1. status[claim[c].query] = "pending" /\ claim[c].query \in QueryId
      BY ClaimStateFacts
    <2>2. CASE claim[c].query # q
      BY <2>1, <2>2 DEF QueryStep, CreateQuery, CompleteQuery, MarkQueryCancelled,
                        RevertQueryToPending, TypeOK
    <2>3. CASE claim[c].query = q
      BY <2>1, <2>3 DEF QueryStep, CreateQuery, CompleteQuery, MarkQueryCancelled,
                        RevertQueryToPending, Locked
    <2> QED
      BY <2>2, <2>3
  <1>3. WorkerIffRunning'
    <2> USE DEF TypeOK, Active, Outcome
    <2>1. CASE CreateQuery(q)
      BY <2>1 DEF CreateQuery
    <2>2. CASE \E outcome \in Outcome : CompleteQuery(q, outcome)
      BY <2>2 DEF CompleteQuery
    <2>3. CASE MarkQueryCancelled(q)
      BY <2>3 DEF MarkQueryCancelled
    <2>4. CASE RevertQueryToPending(q)
      BY <2>4 DEF RevertQueryToPending
    <2> QED
      BY <2>1, <2>2, <2>3, <2>4 DEF QueryStep
  <1> QED
    BY <1>1, <1>2, <1>3

\* Ending claims without a commit only takes row locks away.
LEMMA EndedClaimsRowInv ==
    ASSUME RowInv, UNCHANGED <<queryTable, workerTable>>,
           \A d \in Claimer : claim'[d] = claim[d] \/ claim'[d] = NoClaim
    PROVE  ClaimHoldsPendingRow' /\ WorkerIffRunning'
  <1>1. \A d \in Claimer : claim'[d].query = claim[d].query \/ claim'[d].query = None
    BY DEF NoClaim
  <1>2. \A d \in Claimer : claim'[d].phase # "idle" =>
           claim[d].phase # "idle" /\ claim'[d].query = claim[d].query
    BY DEF NoClaim
  <1>3. status' = status /\ assigned' = assigned
    BY DEF queryTable
  <1> QED
    BY <1>1, <1>2, <1>3 DEF RowInv, ClaimHoldsPendingRow, WorkerIffRunning

LEMMA RollbackRowInv ==
    ASSUME RowInv, NEW C, Rollback(C)
    PROVE  ClaimHoldsPendingRow' /\ WorkerIffRunning'
  BY EndedClaimsRowInv DEF Rollback

LEMMA ClaimStepRowInv ==
    ASSUME RowInv, NEW c \in Claimer, ClaimStep(c)
    PROVE  ClaimHoldsPendingRow' /\ WorkerIffRunning'
  <1> USE DEF RowInv, ClaimHoldsPendingRow, WorkerIffRunning, TypeOK
  <1>1. ASSUME NEW q \in QueryId, LockRow(c, q)
        PROVE  ClaimHoldsPendingRow' /\ WorkerIffRunning'
    <2>1. status[q] = "pending" /\ \A d \in Claimer : claim[d].query # q
      BY <1>1 DEF LockRow, Claimable, Locked
    <2> QED
      BY <1>1, <2>1, StoreAssumption DEF LockRow, queryTable
  <1>2. CASE ClaimPendingQuery(c) \/ \E q \in QueryId : ClaimQueryById(c, q)
    BY <1>1, <1>2 DEF ClaimPendingQuery, ClaimQueryById, Claimable
  <1>3. CASE \E w \in Worker : PickWorker(c, w)
    <2>1. PICK w \in Worker : PickWorker(c, w)
      BY <1>3
    <2>2. \A d \in Claimer : claim'[d].query = claim[d].query
      BY <2>1 DEF PickWorker
    <2>3. \A d \in Claimer : claim'[d].phase # "idle" => claim[d].phase # "idle"
      BY <2>1 DEF PickWorker
    <2>4. status' = status /\ assigned' = assigned
      BY <2>1 DEF PickWorker, queryTable
    <2> QED
      BY <2>2, <2>3, <2>4
  <1>4. CASE PickNone(c)
    BY <1>4, EndedClaimsRowInv DEF PickNone, NoClaim
  <1>5. CASE CommitClaim(c)
    <2>1. claim[c].query \in QueryId /\ claim[c].worker \in Worker
      BY <1>5, ClaimStateFacts DEF CommitClaim
    <2>2. claim'[c] = NoClaim /\ \A d \in Claimer \ {c} : claim'[d] = claim[d]
      BY <1>5 DEF CommitClaim
    <2>3. \A q \in QueryId \ {claim[c].query} : status'[q] = status[q] /\ assigned'[q] = assigned[q]
      BY <1>5 DEF CommitClaim
    <2>4. status'[claim[c].query] = "running" /\ assigned'[claim[c].query] = claim[c].worker
      BY <1>5, <2>1 DEF CommitClaim
    \* The other open claims hold other rows.
    <2>5. \A d \in Claimer \ {c} : claim[d].phase # "idle" =>
             claim[d].query \in QueryId \ {claim[c].query}
      BY <2>1, ClaimStateFacts, StoreAssumption
    <2>6. ClaimHoldsPendingRow'
      BY <2>2, <2>3, <2>5 DEF NoClaim
    <2> QED
      BY <2>1, <2>3, <2>4, <2>6
  <1> QED
    BY <1>2, <1>3, <1>4, <1>5 DEF ClaimStep

LEMMA InitRowInv == Init => RowInv
  BY InitTypeOK DEF Init, RowInv, ClaimHoldsPendingRow, WorkerIffRunning, NoClaim

LEMMA NextRowInv == RowInv /\ [Next]_vars => RowInv'
  <1> SUFFICES ASSUME RowInv, [Next]_vars PROVE RowInv'
    OBVIOUS
  <1>1. TypeOK'
    BY NextTypeOK DEF RowInv
  <1>2. CASE UNCHANGED vars
    BY <1>1, <1>2 DEF RowInv, ClaimHoldsPendingRow, WorkerIffRunning, vars
  <1>3. CASE Next
    BY <1>1, <1>3, WorkerStepRowInv, SweepRowInv, QueryStepRowInv, ClaimStepRowInv,
       RollbackRowInv DEF Next, RowInv
  <1> QED
    BY <1>2, <1>3

LEMMA RowInvariant == Spec => []RowInv
  BY InitRowInv, NextRowInv, PTL DEF Spec

\* However claims, completions, cancellations and sweeps interleave, an open
\* claim holds a row that is still pending and that no other claim holds.
THEOREM RowLockSafety == Spec => []ClaimHoldsPendingRow
  BY RowInvariant, PTL DEF RowInv

(***************************************************************************)
(* What the error column says. A claim commits on a row that is pending, so *)
(* it never brings an ended query, with its error, back to life.            *)
(***************************************************************************)
LEMMA InitErrorFits == Init => ErrorFitsOutcome
  BY DEF Init, ErrorFitsOutcome

LEMMA NextErrorFits ==
    RowInv /\ ErrorFitsOutcome /\ [Next]_vars => ErrorFitsOutcome'
  <1> SUFFICES ASSUME RowInv, ErrorFitsOutcome, [Next]_vars PROVE ErrorFitsOutcome'
    OBVIOUS
  <1> USE DEF ErrorFitsOutcome
  <1>1. CASE UNCHANGED <<status, error>>
    BY <1>1
  <1>2. ASSUME NEW W, ReturnQueriesOf(W) PROVE ErrorFitsOutcome'
    BY <1>2 DEF ReturnQueriesOf
  <1>3. ASSUME NEW w \in Worker, WorkerStep(w) PROVE ErrorFitsOutcome'
    BY <1>1, <1>2, <1>3 DEF WorkerStep, RegisterWorker, ReadyWorker, HeartbeatWorker, ShutdownWorker,
                           HeartbeatExpires, MarkWorkerUnreachable, queryTable
  <1>4. CASE SweepStaleWorkers
    BY <1>2, <1>4 DEF SweepStaleWorkers
  <1>5. ASSUME NEW q \in QueryId, QueryStep(q) PROVE ErrorFitsOutcome'
    <2> USE DEF RowInv, TypeOK
    <2>1. CASE CreateQuery(q)
      BY <2>1 DEF CreateQuery
    <2>2. CASE \E outcome \in Outcome : CompleteQuery(q, outcome)
      BY <2>2 DEF CompleteQuery, Active, Outcome
    <2>3. CASE MarkQueryCancelled(q)
      BY <2>3 DEF MarkQueryCancelled
    <2>4. CASE RevertQueryToPending(q)
      BY <2>4 DEF RevertQueryToPending
    <2> QED
      BY <1>5, <2>1, <2>2, <2>3, <2>4 DEF QueryStep
  <1>6. ASSUME NEW c \in Claimer, ClaimStep(c) PROVE ErrorFitsOutcome'
    <2>1. CASE CommitClaim(c)
      <3>1. claim[c].query \in QueryId /\ status[claim[c].query] = "pending"
        BY <2>1, ClaimStateFacts DEF CommitClaim, RowInv, ClaimHoldsPendingRow
      <3> QED
        BY <2>1, <3>1 DEF CommitClaim, RowInv, TypeOK
    <2> QED
      BY <1>1, <1>6, <2>1 DEF ClaimStep, ClaimPendingQuery, ClaimQueryById, LockRow,
                             PickWorker, PickNone, queryTable
  <1>7. ASSUME NEW C, Rollback(C) PROVE ErrorFitsOutcome'
    BY <1>1, <1>7 DEF Rollback, queryTable
  <1> QED
    BY <1>1, <1>3, <1>4, <1>5, <1>6, <1>7 DEF Next, vars

\* A waiting query names no worker and a running one names exactly one; a query
\* that failed or was cancelled carries the error of the call that ended it, and
\* no other query carries one that a call reported.
THEOREM ColumnSafety == Spec => []ColumnsFitStatus
  BY InitErrorFits, NextErrorFits, RowInvariant, PTL DEF Spec, RowInv, ColumnsFitStatus

(***************************************************************************)
(* How much one worker can be given. Only the choice of a worker raises     *)
(* what it has been given; everything else moves or removes it.             *)
(***************************************************************************)
LEMMA PlacedFinite ==
    ASSUME NEW w
    PROVE  /\ IsFiniteSet(RunningOn(w)) /\ Cardinality(RunningOn(w)) \in Nat
           /\ IsFiniteSet(PickedOn(w)) /\ Cardinality(PickedOn(w)) \in Nat
           /\ Cardinality(PickedOn(w)) <= Cardinality(Claimer)
           /\ IsFiniteSet(RunningOn(w)') /\ Cardinality(RunningOn(w)') \in Nat
           /\ IsFiniteSet(PickedOn(w)') /\ Cardinality(PickedOn(w)') \in Nat
           /\ Cardinality(PickedOn(w)') <= Cardinality(Claimer)
           /\ Cardinality(Claimer) \in Nat
  <1>1. IsFiniteSet(QueryId) /\ IsFiniteSet(Claimer)
    BY StoreAssumption, FS_Interval DEF QueryId
  <1>2. RunningOn(w) \in SUBSET QueryId /\ PickedOn(w) \in SUBSET Claimer
    BY DEF RunningOn, PickedOn
  <1>3. RunningOn(w)' \in SUBSET QueryId /\ PickedOn(w)' \in SUBSET Claimer
    BY DEF RunningOn, PickedOn
  <1>4. IsFiniteSet(RunningOn(w)) /\ IsFiniteSet(RunningOn(w)')
    BY <1>1, <1>2, <1>3, FS_Subset
  <1>5. /\ IsFiniteSet(PickedOn(w)) /\ Cardinality(PickedOn(w)) <= Cardinality(Claimer)
        /\ IsFiniteSet(PickedOn(w)') /\ Cardinality(PickedOn(w)') <= Cardinality(Claimer)
    BY <1>1, <1>2, <1>3, FS_Subset
  <1> QED
    BY <1>1, <1>4, <1>5, FS_CardinalityType

LEMMA PlacedShrinks ==
    ASSUME NEW w, RunningOn(w)' \subseteq RunningOn(w), PickedOn(w)' \subseteq PickedOn(w)
    PROVE  Placed(w)' <= Placed(w)
  <1>1. Cardinality(RunningOn(w)') <= Cardinality(RunningOn(w))
    BY PlacedFinite, FS_Subset
  <1>2. Cardinality(PickedOn(w)') <= Cardinality(PickedOn(w))
    BY PlacedFinite, FS_Subset
  <1> QED
    BY <1>1, <1>2, PlacedFinite DEF Placed

\* A commit turns the choice of a worker into one running query.
LEMMA CommitKeepsPlaced ==
    ASSUME TypeOK, NEW c \in Claimer, CommitClaim(c), NEW w \in Worker
    PROVE  Placed(w)' <= Placed(w)
  <1> DEFINE q == claim[c].query
  <1>1. q \in QueryId
    BY ClaimStateFacts DEF CommitClaim
  <1>2. CASE claim[c].worker = w
    <2>1. RunningOn(w)' \subseteq RunningOn(w) \cup {q}
      BY <1>1 DEF CommitClaim, RunningOn, TypeOK
    <2>2. PickedOn(w)' \subseteq PickedOn(w) \ {c} /\ c \in PickedOn(w)
      BY <1>2 DEF CommitClaim, PickedOn, NoClaim, TypeOK
    <2>3. Cardinality(RunningOn(w)') <= Cardinality(RunningOn(w)) + 1
      <3>1. /\ IsFiniteSet(RunningOn(w) \cup {q})
            /\ Cardinality(RunningOn(w) \cup {q}) =
                 IF q \in RunningOn(w) THEN Cardinality(RunningOn(w))
                                       ELSE Cardinality(RunningOn(w)) + 1
        <4> HIDE DEF q
        <4> QED
          BY PlacedFinite, FS_AddElement
      <3>2. Cardinality(RunningOn(w)') <= Cardinality(RunningOn(w) \cup {q})
        BY <2>1, <3>1, FS_Subset
      <3> QED
        BY <3>1, <3>2, PlacedFinite
    <2>4. Cardinality(PickedOn(w)') <= Cardinality(PickedOn(w)) - 1
      <3>1. /\ IsFiniteSet(PickedOn(w) \ {c})
            /\ Cardinality(PickedOn(w) \ {c}) = Cardinality(PickedOn(w)) - 1
        BY <2>2, PlacedFinite, FS_RemoveElement
      <3> QED
        BY <2>2, <3>1, FS_Subset
    <2> QED
      BY <2>3, <2>4, PlacedFinite DEF Placed
  <1>3. CASE claim[c].worker # w
    <2>1. RunningOn(w)' \subseteq RunningOn(w)
      BY <1>1, <1>3 DEF CommitClaim, RunningOn, TypeOK
    <2>2. PickedOn(w)' \subseteq PickedOn(w)
      BY DEF CommitClaim, PickedOn, NoClaim, TypeOK
    <2> QED
      BY <2>1, <2>2, PlacedShrinks
  <1> QED
    BY <1>2, <1>3

LEMMA StepKeepsPlaced ==
    ASSUME RowInv, Next, NEW w \in Worker, ~ \E c \in Claimer : PickWorker(c, w)
    PROVE  Placed(w)' <= Placed(w)
  <1> USE DEF RowInv
  <1>1. ASSUME claim' = claim, \A q \in QueryId : status'[q] = "running" =>
                                  status[q] = "running" /\ assigned'[q] = assigned[q]
        PROVE  Placed(w)' <= Placed(w)
    <2>1. RunningOn(w)' \subseteq RunningOn(w) /\ PickedOn(w)' \subseteq PickedOn(w)
      BY <1>1 DEF RunningOn, PickedOn
    <2> QED
      BY <2>1, PlacedShrinks
  <1>2. CASE \E v \in Worker : WorkerStep(v)
    BY <1>1, <1>2 DEF WorkerStep, RegisterWorker, ReadyWorker, HeartbeatWorker, ShutdownWorker,
         HeartbeatExpires, MarkWorkerUnreachable, ReturnQueriesOf, queryTable
  <1>3. CASE SweepStaleWorkers
    BY <1>1, <1>3 DEF SweepStaleWorkers, ReturnQueriesOf
  <1>4. CASE \E q \in QueryId : QueryStep(q)
    <2>1. PICK p \in QueryId : QueryStep(p)
      BY <1>4
    <2>2. claim' = claim
      BY <2>1 DEF QueryStep, CreateQuery, CompleteQuery, MarkQueryCancelled, RevertQueryToPending
    <2>3. \A q \in QueryId : status'[q] = "running" =>
             status[q] = "running" /\ assigned'[q] = assigned[q]
      BY <2>1 DEF QueryStep, CreateQuery, CompleteQuery, MarkQueryCancelled,
                  RevertQueryToPending, TypeOK, Outcome
    <2> QED
      BY <1>1, <2>2, <2>3
  <1>5. ASSUME NEW c \in Claimer, ClaimStep(c)
        PROVE  Placed(w)' <= Placed(w)
    <2>1. CASE CommitClaim(c)
      BY <2>1, CommitKeepsPlaced
    <2>2. CASE ~CommitClaim(c)
      <3>1. status' = status /\ assigned' = assigned
        BY <1>5, <2>2 DEF ClaimStep, ClaimPendingQuery, ClaimQueryById, LockRow, PickWorker,
                          PickNone, queryTable
      <3>2. RunningOn(w)' = RunningOn(w)
        BY <3>1 DEF RunningOn
      <3>3. PickedOn(w)' \subseteq PickedOn(w)
        <4>1. CASE \E q \in QueryId : LockRow(c, q)
          BY <4>1 DEF LockRow, PickedOn, TypeOK
        <4>2. CASE \E v \in Worker : PickWorker(c, v)
          <5>1. PICK v \in Worker : PickWorker(c, v)
            BY <4>2
          <5>2. v # w /\ claim'[c].worker = v /\ \A d \in Claimer \ {c} : claim'[d] = claim[d]
            BY <5>1 DEF PickWorker, TypeOK
          <5> QED
            BY <5>2 DEF PickedOn
        <4>3. CASE PickNone(c)
          BY <4>3 DEF PickNone, PickedOn, NoClaim, TypeOK
        <4> QED
          BY <1>5, <2>2, <4>1, <4>2, <4>3 DEF ClaimStep, ClaimPendingQuery, ClaimQueryById, Claimable
      <3> QED
        BY <3>2, <3>3, PlacedShrinks
    <2> QED
      BY <2>1, <2>2
  <1>6. CASE \E C \in SUBSET Claimer : Rollback(C)
    <2>1. RunningOn(w)' = RunningOn(w)
      BY <1>6 DEF Rollback, RunningOn, queryTable
    <2>2. PickedOn(w)' \subseteq PickedOn(w)
      BY <1>6 DEF Rollback, PickedOn, NoClaim
    <2> QED
      BY <2>1, <2>2, PlacedShrinks
  <1> QED
    BY <1>2, <1>3, <1>4, <1>5, <1>6 DEF Next

\* A worker is chosen only while it is running and has a free slot left.
LEMMA PickFacts ==
    ASSUME NEW c \in Claimer, NEW w \in Worker, PickWorker(c, w)
    PROVE  /\ Placed(w)' <= MaxConcurrent[w] + Cardinality(Claimer) - 1
           /\ wstatus'[w] = "running"
  <1>1. wstatus[w] = "running" /\ Cardinality(RunningOn(w)) + 1 <= MaxConcurrent[w]
    BY DEF PickWorker, LeastLoaded, Eligible
  <1>2. RunningOn(w)' = RunningOn(w) /\ wstatus' = wstatus
    BY DEF PickWorker, RunningOn, queryTable, workerTable
  <1> QED
    BY <1>1, <1>2, PlacedFinite, StoreAssumption DEF Placed

LoadInv == OvercommitBound /\ StrandedBound

LEMMA InitLoadInv == Init => LoadInv
  <1> SUFFICES ASSUME Init, NEW w \in Worker
               PROVE  /\ Placed(w) <= MaxConcurrent[w] + Cardinality(Claimer) - 1
                      /\ Placed(w) <= Cardinality(Claimer)
    BY DEF LoadInv, OvercommitBound, StrandedBound
  <1>1. RunningOn(w) = {} /\ PickedOn(w) = {}
    BY DEF Init, RunningOn, PickedOn, NoClaim
  <1>2. Placed(w) = 0
    BY <1>1, FS_EmptySet DEF Placed
  <1>3. Cardinality(Claimer) \in Nat /\ Cardinality(Claimer) # 0
    BY StoreAssumption, FS_EmptySet, FS_CardinalityType
  <1> QED
    BY <1>2, <1>3, StoreAssumption

LEMMA NextOvercommit ==
    ASSUME RowInv, OvercommitBound, Next
    PROVE  OvercommitBound'
  <1> SUFFICES ASSUME NEW w \in Worker
               PROVE  Placed(w)' <= MaxConcurrent[w] + Cardinality(Claimer) - 1
    BY DEF OvercommitBound
  <1>1. CASE \E c \in Claimer : PickWorker(c, w)
    BY <1>1, PickFacts
  <1>2. CASE ~ \E c \in Claimer : PickWorker(c, w)
    <2>1. Placed(w)' <= Placed(w) /\ Placed(w) <= MaxConcurrent[w] + Cardinality(Claimer) - 1
      BY <1>2, StepKeepsPlaced DEF OvercommitBound
    <2> QED
      BY <2>1, PlacedFinite, StoreAssumption DEF Placed
  <1> QED
    BY <1>1, <1>2

LEMMA NextStranded ==
    ASSUME RowInv, StrandedBound, Next
    PROVE  StrandedBound'
  <1> SUFFICES ASSUME NEW w \in Worker, wstatus'[w] \in {"unreachable", "stopped"}
               PROVE  Placed(w)' <= Cardinality(Claimer)
    BY DEF StrandedBound
  <1>1. CASE wstatus[w] \in {"unreachable", "stopped"}
    <2>1. ~ \E c \in Claimer : PickWorker(c, w)
      BY PickFacts
    <2>2. Placed(w)' <= Placed(w) /\ Placed(w) <= Cardinality(Claimer)
      BY <1>1, <2>1, StepKeepsPlaced DEF StrandedBound
    <2> QED
      BY <2>2, PlacedFinite DEF Placed
  \* The step that gives w up returns every query running on it.
  <1>2. CASE wstatus[w] \notin {"unreachable", "stopped"}
    <2>1. MarkWorkerUnreachable(w) \/ (SweepStaleWorkers /\ w \in StaleWorkers)
      BY <1>2 DEF Next, WorkerStep, RegisterWorker, ReadyWorker, HeartbeatWorker, ShutdownWorker,
           HeartbeatExpires, MarkWorkerUnreachable, SweepStaleWorkers, QueryStep, CreateQuery,
           CompleteQuery, MarkQueryCancelled, RevertQueryToPending, ClaimStep, ClaimPendingQuery,
           ClaimQueryById, LockRow, PickWorker, PickNone, CommitClaim, Rollback, workerTable,
           RowInv, TypeOK
    <2>2. RunningOn(w)' = {}
      BY <2>1 DEF MarkWorkerUnreachable, SweepStaleWorkers, ReturnQueriesOf, RunningOn
    <2>3. Cardinality(RunningOn(w)') = 0
      BY <2>2, FS_EmptySet
    <2> QED
      BY <2>3, PlacedFinite DEF Placed
  <1> QED
    BY <1>1, <1>2

LEMMA LoadInvariant == Spec => []LoadInv
  <1>1. RowInv /\ LoadInv /\ [Next]_vars => LoadInv'
    <2> SUFFICES ASSUME RowInv, LoadInv, [Next]_vars PROVE LoadInv'
      OBVIOUS
    <2>1. CASE Next
      BY <2>1, NextOvercommit, NextStranded DEF LoadInv
    <2>2. CASE UNCHANGED vars
      BY <2>2 DEF vars, LoadInv, OvercommitBound, StrandedBound, Placed, RunningOn, PickedOn
    <2> QED
      BY <2>1, <2>2
  <1> QED
    BY <1>1, InitLoadInv, RowInvariant, PTL DEF Spec

\* A worker is never given more than max_concurrent_queries plus the number of
\* connections that can claim at the same time, minus one.
THEOREM OvercommitBounded == Spec => []OvercommitBound
  BY LoadInvariant, PTL DEF LoadInv

\* An unreachable or stopped worker keeps at most one query per connection.
THEOREM StrandedBounded == Spec => []StrandedBound
  BY LoadInvariant, PTL DEF LoadInv

(***************************************************************************)
(* How much of a resource one worker can be given. The same argument, with  *)
(* sums in the place of cardinalities: only the choice of a worker adds to  *)
(* what it holds, and it is admitted by the load of what runs there, so the *)
(* other open choices are all that the sum may exceed the capacity by.      *)
(***************************************************************************)
Most(r) == Max({cap[r] : cap \in Capacities})
Largest(r) == Max({Requested(r)[q] : q \in QueryId} \cup {0})

LEMMA RequestFacts ==
    ASSUME NEW r \in Resource
    PROVE  /\ Most(r) \in Nat /\ \A cap \in Capacities : cap[r] <= Most(r)
           /\ Largest(r) \in Nat /\ \A q \in QueryId : Requested(r)[q] \in 0 .. Largest(r)
           /\ \A q \in QueryId : Requested(r)[q] \in Nat
  <1>1. \A q \in QueryId : Requested(r)[q] \in Nat
    BY StoreAssumption DEF Requested
  <1>2. PICK A, B, C : /\ A = {cap[r] : cap \in Capacities}
                       /\ B = {Requested(r)[q] : q \in QueryId} /\ C = B \cup {0}
    OBVIOUS
  <1>3. IsFiniteSet(A) /\ A \in SUBSET Nat /\ A # {}
    <2>1. PICK g : g = [cap \in Capacities |-> cap[r]]
      OBVIOUS
    <2>2. IsFiniteSet(Capacities) /\ A = {g[cap] : cap \in Capacities}
      BY <1>2, <2>1, StoreAssumption
    <2>3. IsFiniteSet(A)
      BY <2>2, ValuesFinite, Zenon
    <2> QED
      BY <1>2, <2>3, StoreAssumption
  <1>4. IsFiniteSet(B)
    <2>1. PICK g : g = Requested(r)
      OBVIOUS
    <2>2. IsFiniteSet(QueryId) /\ B = {g[q] : q \in QueryId}
      BY <1>2, <2>1, StoreAssumption, FS_Interval DEF QueryId
    <2> QED
      BY <2>2, ValuesFinite, Zenon
  <1>5. IsFiniteSet(C) /\ C \in SUBSET Nat /\ C # {}
    BY <1>1, <1>2, <1>4, FS_AddElement
  <1>6. Max(A) \in A /\ \A n \in A : n <= Max(A)
    BY <1>3, MaxIsGreatest
  <1>7. Max(C) \in C /\ \A n \in C : n <= Max(C)
    BY <1>5, MaxIsGreatest
  <1>8. Most(r) = Max(A) /\ Largest(r) = Max(C)
    BY <1>2, Zenon DEF Most, Largest
  <1>9. \A cap \in Capacities : cap[r] \in A
    BY <1>2
  <1>10. \A q \in QueryId : Requested(r)[q] \in C
    BY <1>2
  <1>11. Max(A) \in Nat /\ Max(C) \in Nat
    BY <1>3, <1>5, <1>6, <1>7
  <1>12. \A q \in QueryId : Requested(r)[q] \in Nat /\ Requested(r)[q] <= Max(C)
    BY <1>1, <1>7, <1>10
  <1> QED
    BY <1>1, <1>6, <1>8, <1>9, <1>11, <1>12

\* Queries claimed for w and not yet placed there.
ChosenFor(w) == {claim[c].query : c \in PickedOn(w)}

LEMMA HeldFacts ==
    ASSUME TypeOK, NEW w
    PROVE  /\ RunningOn(w) \in SUBSET QueryId /\ IsFiniteSet(RunningOn(w))
           /\ ChosenFor(w) \in SUBSET QueryId /\ IsFiniteSet(ChosenFor(w))
           /\ Cardinality(ChosenFor(w)) \in Nat
           /\ Cardinality(ChosenFor(w)) <= Cardinality(PickedOn(w))
           /\ Held(w) = RunningOn(w) \cup ChosenFor(w)
           /\ Held(w) \in SUBSET QueryId /\ IsFiniteSet(Held(w))
  <1>1. RunningOn(w) \in SUBSET QueryId
    BY DEF RunningOn
  <1>2. ChosenFor(w) \in SUBSET QueryId
    BY ClaimStateFacts DEF ChosenFor, PickedOn
  <1>3. Held(w) = RunningOn(w) \cup ChosenFor(w)
    BY DEF Held, ChosenFor
  <1>4. IsFiniteSet(QueryId)
    BY StoreAssumption, FS_Interval DEF QueryId
  <1>5. IsFiniteSet(RunningOn(w)) /\ IsFiniteSet(ChosenFor(w)) /\ IsFiniteSet(Held(w))
    BY <1>1, <1>2, <1>3, <1>4, FS_Subset
  <1>6. Cardinality(ChosenFor(w)) <= Cardinality(PickedOn(w))
    <2>1. ChosenFor(w) = {[d \in Claimer |-> claim[d].query][c] : c \in PickedOn(w)}
      BY DEF ChosenFor, PickedOn
    <2> QED
      BY <2>1, PlacedFinite, ValuesFinite
  <1> QED
    BY <1>1, <1>2, <1>3, <1>5, <1>6, FS_CardinalityType

LEMMA SameChoices ==
    ASSUME NEW w, PickedOn(w)' \subseteq PickedOn(w),
           \A c \in PickedOn(w)' : claim'[c].query = claim[c].query,
           RunningOn(w)' \subseteq RunningOn(w)
    PROVE  Held(w)' \subseteq Held(w)
  BY DEF Held

LEMMA StepKeepsHeld ==
    ASSUME RowInv, Next, NEW w \in Worker, ~ \E c \in Claimer : PickWorker(c, w)
    PROVE  Held(w)' \subseteq Held(w)
  <1> USE DEF RowInv
  <1>1. ASSUME claim' = claim, \A q \in QueryId : status'[q] = "running" =>
                                  status[q] = "running" /\ assigned'[q] = assigned[q]
        PROVE  Held(w)' \subseteq Held(w)
    <2>1. RunningOn(w)' \subseteq RunningOn(w) /\ PickedOn(w)' = PickedOn(w)
      BY <1>1 DEF RunningOn, PickedOn
    <2> QED
      BY <1>1, <2>1, SameChoices
  <1>2. CASE \E v \in Worker : WorkerStep(v)
    BY <1>1, <1>2 DEF WorkerStep, RegisterWorker, ReadyWorker, HeartbeatWorker, ShutdownWorker,
         HeartbeatExpires, MarkWorkerUnreachable, ReturnQueriesOf, queryTable
  <1>3. CASE SweepStaleWorkers
    BY <1>1, <1>3 DEF SweepStaleWorkers, ReturnQueriesOf
  <1>4. CASE \E q \in QueryId : QueryStep(q)
    <2>1. PICK p \in QueryId : QueryStep(p)
      BY <1>4
    <2>2. claim' = claim
      BY <2>1 DEF QueryStep, CreateQuery, CompleteQuery, MarkQueryCancelled, RevertQueryToPending
    <2>3. \A q \in QueryId : status'[q] = "running" =>
             status[q] = "running" /\ assigned'[q] = assigned[q]
      BY <2>1 DEF QueryStep, CreateQuery, CompleteQuery, MarkQueryCancelled,
                  RevertQueryToPending, TypeOK, Outcome
    <2> QED
      BY <1>1, <2>2, <2>3
  <1>5. ASSUME NEW c \in Claimer, ClaimStep(c)
        PROVE  Held(w)' \subseteq Held(w)
    \* A commit moves the query from the choices to the rows of the same worker.
    <2>1. CASE CommitClaim(c)
      <3>1. claim[c].query \in QueryId
        BY <2>1, ClaimStateFacts DEF CommitClaim
      <3>2. /\ claim[c].phase = "picked" /\ claim' = [claim EXCEPT ![c] = NoClaim]
            /\ status' = [status EXCEPT ![claim[c].query] = "running"]
            /\ assigned' = [assigned EXCEPT ![claim[c].query] = claim[c].worker]
        BY <2>1 DEF CommitClaim
      <3>3. \A d \in PickedOn(w)' : d \in PickedOn(w) /\ claim'[d] = claim[d]
        BY <3>2 DEF PickedOn, NoClaim, TypeOK
      <3>4. \A q \in RunningOn(w)' :
               q \in RunningOn(w) \/ (q = claim[c].query /\ claim[c].worker = w)
        BY <3>1, <3>2 DEF RunningOn, TypeOK
      <3>5. claim[c].worker = w => c \in PickedOn(w)
        BY <3>2 DEF PickedOn
      <3> QED
        BY <3>3, <3>4, <3>5 DEF Held
    <2>2. CASE ~CommitClaim(c)
      <3>1. status' = status /\ assigned' = assigned
        BY <1>5, <2>2 DEF ClaimStep, ClaimPendingQuery, ClaimQueryById, LockRow, PickWorker,
                          PickNone, queryTable
      <3>2. RunningOn(w)' = RunningOn(w)
        BY <3>1 DEF RunningOn
      <3>3. \A d \in PickedOn(w)' : d \in PickedOn(w) /\ claim'[d] = claim[d]
        <4>1. CASE \E q \in QueryId : LockRow(c, q)
          BY <4>1 DEF LockRow, PickedOn, TypeOK
        <4>2. CASE \E v \in Worker : PickWorker(c, v)
          <5>1. PICK v \in Worker : PickWorker(c, v)
            BY <4>2
          <5>2. v # w /\ claim'[c].worker = v /\ \A d \in Claimer \ {c} : claim'[d] = claim[d]
            BY <5>1 DEF PickWorker, TypeOK
          <5> QED
            BY <5>2 DEF PickedOn
        <4>3. CASE PickNone(c)
          BY <4>3 DEF PickNone, PickedOn, NoClaim, TypeOK
        <4> QED
          BY <1>5, <2>2, <4>1, <4>2, <4>3 DEF ClaimStep, ClaimPendingQuery, ClaimQueryById, Claimable
      <3> QED
        BY <3>2, <3>3, SameChoices
    <2> QED
      BY <2>1, <2>2
  <1>6. CASE \E C \in SUBSET Claimer : Rollback(C)
    <2>1. RunningOn(w)' = RunningOn(w)
      BY <1>6 DEF Rollback, RunningOn, queryTable
    <2>2. \A d \in PickedOn(w)' : d \in PickedOn(w) /\ claim'[d] = claim[d]
      BY <1>6 DEF Rollback, PickedOn, NoClaim
    <2> QED
      BY <2>1, <2>2, SameChoices
  <1> QED
    BY <1>2, <1>3, <1>4, <1>5, <1>6 DEF Next

\* What a worker reports comes from the capacities there are.
Reported == capacity \in [Worker -> Capacities]

LEMMA NextReported ==
    ASSUME Reported, [Next]_vars
    PROVE  Reported'
  <1> USE DEF Reported
  <1>1. CASE \E w \in Worker : WorkerStep(w)
    BY <1>1 DEF WorkerStep, RegisterWorker, ReadyWorker, HeartbeatWorker, ShutdownWorker,
                HeartbeatExpires, MarkWorkerUnreachable
  <1>2. CASE SweepStaleWorkers \/ (\E q \in QueryId : QueryStep(q)) \/ UNCHANGED vars
    BY <1>2 DEF SweepStaleWorkers, QueryStep, CreateQuery, CompleteQuery, MarkQueryCancelled,
                RevertQueryToPending, vars, workerTable
  <1>3. CASE (\E c \in Claimer : ClaimStep(c)) \/ (\E C \in SUBSET Claimer : Rollback(C))
    BY <1>3 DEF ClaimStep, ClaimPendingQuery, ClaimQueryById, LockRow, PickWorker, PickNone,
                CommitClaim, Rollback, workerTable
  <1> QED
    BY <1>1, <1>2, <1>3 DEF Next

Allowance(r) == Most(r) + (Cardinality(Claimer) - 1) * Largest(r)

Within(w, r) == SumFunctionOnSet(Requested(r), Held(w)) <= Allowance(r)

LEMMA WithinIsBound == ResourceBound <=> \A w \in Worker, r \in Resource : Within(w, r)
  BY Zenon DEF ResourceBound, Within, Allowance, Most, Largest

LEMMA AllowanceFacts ==
    ASSUME NEW r \in Resource
    PROVE  /\ Allowance(r) \in Nat
           /\ \A n \in Nat : n <= Cardinality(Claimer) - 1 => Most(r) + n * Largest(r) <= Allowance(r)
  <1>1. Cardinality(Claimer) \in Nat /\ Cardinality(Claimer) # 0
    BY StoreAssumption, FS_EmptySet, FS_CardinalityType
  <1>2. PICK k, l, m : k = Cardinality(Claimer) - 1 /\ l = Largest(r) /\ m = Most(r)
    OBVIOUS
  <1>3. k \in Nat /\ l \in Nat /\ m \in Nat
    BY <1>1, <1>2, RequestFacts
  <1>4. k * l \in Nat
    BY <1>3
  <1>5. \A n \in Nat : n <= k => n * l <= k * l
    <2> SUFFICES ASSUME NEW n \in Nat, n <= k PROVE n * l <= k * l
      OBVIOUS
    <2>1. k - n \in Nat /\ k = n + (k - n)
      BY <1>3
    <2>2. k * l = n * l + (k - n) * l
      BY <1>3, <2>1
    <2>3. (k - n) * l \in Nat /\ n * l \in Nat
      BY <1>3, <2>1
    <2> QED
      BY <2>2, <2>3
  <1>6. \A n \in Nat : n * l \in Nat
    BY <1>3
  <1> QED
    BY <1>2, <1>3, <1>4, <1>5, <1>6 DEF Allowance

LEMMA PickWithin ==
    ASSUME RowInv, Reported, NEW w \in Worker, NEW r \in Resource, Within(w, r),
           NEW c \in Claimer, PickWorker(c, w)
    PROVE  Within(w, r)'
  <1> USE DEF RowInv
  <1>1. PICK q, f, R, C : /\ q = claim[c].query /\ f = Requested(r)
                          /\ R = RunningOn(w) /\ C = ChosenFor(w)
    OBVIOUS
  <1>2. q \in QueryId /\ claim[c].phase = "locked" /\ status[q] = "pending"
    BY <1>1, ClaimStateFacts DEF PickWorker, ClaimHoldsPendingRow
  <1>3. Held(w)' = Held(w) \cup {q} /\ c \notin PickedOn(w)
    <2>1. RunningOn(w)' = RunningOn(w)
      BY DEF PickWorker, RunningOn, queryTable
    <2>2. /\ PickedOn(w)' = PickedOn(w) \cup {c} /\ c \notin PickedOn(w)
          /\ \A d \in PickedOn(w)' : claim'[d].query = claim[d].query
      BY <1>2 DEF PickWorker, PickedOn, TypeOK
    <2> QED
      BY <1>1, <2>1, <2>2 DEF Held
  <1>4. /\ R \in SUBSET QueryId /\ IsFiniteSet(R) /\ C \in SUBSET QueryId /\ IsFiniteSet(C)
        /\ Held(w) = R \cup C /\ IsFiniteSet(Held(w)) /\ Held(w) \in SUBSET QueryId
    BY <1>1, HeldFacts
  <1>5. \A p \in QueryId : f[p] \in Nat /\ f[p] \in 0 .. Largest(r)
    BY <1>1, RequestFacts
  <1>6. q \notin R
    BY <1>1, <1>2 DEF RunningOn
  <1>7. Allowance(r) \in Nat
    BY AllowanceFacts
  <1>8. SumFunctionOnSet(f, Held(w) \cup {q}) <= Allowance(r)
    \* An absent request weighs nothing.
    <2>1. CASE Need[q][r] = NoLimit
      <3>1. f[q] = 0
        BY <1>1, <1>2, <2>1 DEF Requested
      <3>2. IsFiniteSet({q}) /\ SumFunctionOnSet(f, {q}) = 0
        BY <3>1, SumOne, FS_Singleton
      <3>3. SumFunctionOnSet(f, Held(w) \cup {q})
              <= SumFunctionOnSet(f, Held(w)) + SumFunctionOnSet(f, {q})
        BY <1>2, <1>4, <1>5, <3>2, SumCup
      <3>4. IsFiniteSet(Held(w) \cup {q})
        BY <1>4, FS_AddElement
      <3>5. /\ SumFunctionOnSet(f, Held(w)) \in Nat
            /\ SumFunctionOnSet(f, Held(w) \cup {q}) \in Nat
        BY <1>2, <1>4, <1>5, <3>4, SumNat
      <3> QED
        BY <1>1, <1>7, <3>2, <3>3, <3>5 DEF Within
    \* Any other request fits on top of what runs.
    <2>2. CASE Need[q][r] # NoLimit
      <3>1. SumFunctionOnSet(f, R) + f[q] <= capacity[w][r]
        <4>1. Load(w, r) + Need[q][r] <= capacity[w][r]
          BY <1>1, <2>2 DEF PickWorker, LeastLoaded, Eligible
        <4>2. f[q] = Need[q][r]
          BY <1>1, <1>2, <2>2 DEF Requested
        <4> QED
          BY <1>1, <4>1, <4>2 DEF Load
      <3>2. capacity[w][r] \in Nat /\ capacity[w][r] <= Most(r) /\ Most(r) \in Nat
        BY RequestFacts DEF Reported, TypeOK
      <3>3. PICK A : A = R \cup {q}
        OBVIOUS
      <3>4. IsFiniteSet(A) /\ A \in SUBSET QueryId /\ IsFiniteSet({q}) /\ R \cap {q} = {}
        <4>1. IsFiniteSet(A) /\ IsFiniteSet({q})
          BY <1>4, <3>3, FS_AddElement, FS_Singleton
        <4> QED
          BY <1>2, <1>4, <1>6, <3>3, <4>1
      <3>5. SumFunctionOnSet(f, A) = SumFunctionOnSet(f, R) + f[q]
        <4>1. SumFunctionOnSet(f, A) = SumFunctionOnSet(f, R) + SumFunctionOnSet(f, {q})
          BY <1>4, <1>5, <3>3, <3>4, SumUnion
        <4> QED
          BY <1>2, <1>5, <4>1, SumOne
      <3>6. SumFunctionOnSet(f, C) <= Cardinality(C) * Largest(r)
        BY <1>4, <1>5, RequestFacts, SumBound
      <3>7. Cardinality(C) \in Nat /\ Cardinality(C) <= Cardinality(Claimer) - 1
        <4>1. /\ IsFiniteSet(Claimer \ {c})
              /\ Cardinality(Claimer \ {c}) = Cardinality(Claimer) - 1
          BY StoreAssumption, FS_RemoveElement
        <4>2. PickedOn(w) \in SUBSET (Claimer \ {c})
          BY <1>3 DEF PickedOn
        <4>3. Cardinality(PickedOn(w)) <= Cardinality(Claimer \ {c})
          BY <4>1, <4>2, FS_Subset
        <4> QED
          BY <1>1, <4>1, <4>3, HeldFacts, PlacedFinite
      <3>8. Most(r) + Cardinality(C) * Largest(r) <= Allowance(r)
        BY <3>7, AllowanceFacts
      <3>9. Held(w) \cup {q} = A \cup C
        BY <1>4, <3>3
      <3>10. SumFunctionOnSet(f, A \cup C) <= SumFunctionOnSet(f, A) + SumFunctionOnSet(f, C)
        BY <1>4, <1>5, <3>4, SumCup
      <3>11. IsFiniteSet(A \cup C)
        BY <1>4, <3>4, FS_Union
      <3>12. /\ SumFunctionOnSet(f, A) \in Nat /\ SumFunctionOnSet(f, C) \in Nat
             /\ SumFunctionOnSet(f, A \cup C) \in Nat
        BY <1>4, <1>5, <3>4, <3>11, SumNat
      <3>13. Cardinality(C) * Largest(r) \in Nat
        BY <3>7, RequestFacts
      <3>14. SumFunctionOnSet(f, A) <= Most(r)
        BY <1>2, <1>5, <3>1, <3>2, <3>5, <3>12
      <3>15. SumFunctionOnSet(f, A) + SumFunctionOnSet(f, C) <= Allowance(r)
        BY <1>7, <3>2, <3>6, <3>8, <3>12, <3>13, <3>14
      <3>16. SumFunctionOnSet(f, A \cup C) <= Allowance(r)
        BY <1>7, <3>10, <3>12, <3>15
      <3> QED
        BY <3>9, <3>16
    <2> QED
      BY <2>1, <2>2
  <1> QED
    BY <1>1, <1>3, <1>8 DEF Within, Requested, Allowance, Most, Largest

LEMMA NextWithin ==
    ASSUME RowInv, Reported, Next, NEW w \in Worker, NEW r \in Resource, Within(w, r)
    PROVE  Within(w, r)'
  <1>1. CASE \E c \in Claimer : PickWorker(c, w)
    BY <1>1, PickWithin
  <1>2. CASE ~ \E c \in Claimer : PickWorker(c, w)
    <2>1. PICK f, H, G : f = Requested(r) /\ H = Held(w) /\ G = Held(w)'
      OBVIOUS
    <2>2. G \in SUBSET H
      BY <1>2, <2>1, StepKeepsHeld
    <2>3. H \in SUBSET QueryId /\ IsFiniteSet(H) /\ IsFiniteSet(G)
      BY <2>1, <2>2, HeldFacts, FS_Subset DEF RowInv
    <2>4. \A q \in H : f[q] \in Nat
      BY <2>1, <2>3, RequestFacts
    <2>5. SumFunctionOnSet(f, G) <= SumFunctionOnSet(f, H)
      BY <2>2, <2>3, <2>4, SumSubset
    <2>6. SumFunctionOnSet(f, G) \in Nat /\ SumFunctionOnSet(f, H) \in Nat
      BY <2>2, <2>3, <2>4, SumNat
    <2>7. SumFunctionOnSet(f, H) <= Allowance(r) /\ Allowance(r) \in Nat
      BY <2>1, AllowanceFacts DEF Within
    <2>8. SumFunctionOnSet(f, G) <= Allowance(r)
      BY <2>5, <2>6, <2>7
    <2> QED
      BY <2>1, <2>8 DEF Within, Requested, Allowance, Most, Largest
  <1> QED
    BY <1>1, <1>2

LEMMA InitWithin ==
    ASSUME Init
    PROVE  Reported /\ \A w \in Worker, r \in Resource : Within(w, r)
  <1>1. Reported
    BY StoreAssumption DEF Init, Reported
  <1>2. ASSUME NEW w \in Worker, NEW r \in Resource PROVE Within(w, r)
    <2>1. Held(w) = {}
      BY DEF Init, Held, RunningOn, PickedOn, NoClaim
    <2>2. SumFunctionOnSet(Requested(r), Held(w)) = 0
      BY <2>1, SumEmpty
    <2> QED
      BY <2>2, AllowanceFacts DEF Within
  <1> QED
    BY <1>1, <1>2

\* However claims overlap and capacities change, a worker holds no more of a
\* resource than was ever advertised and one largest request per other claim.
THEOREM ResourceBounded == Spec => []ResourceBound
  <1> DEFINE I == Reported /\ \A w \in Worker, r \in Resource : Within(w, r)
  <1>1. Init => I
    BY InitWithin
  <1>2. RowInv /\ I /\ [Next]_vars => I'
    <2> SUFFICES ASSUME RowInv, I, [Next]_vars PROVE I'
      OBVIOUS
    <2>1. Reported'
      BY NextReported
    <2>2. CASE Next
      BY <2>1, <2>2, NextWithin
    <2>3. CASE UNCHANGED vars
      BY <2>1, <2>3 DEF vars, Within, Held, RunningOn, PickedOn, Requested, Allowance, Most, Largest
    <2> QED
      BY <2>2, <2>3
  <1>3. I => ResourceBound
    BY WithinIsBound
  <1> QED
    BY <1>1, <1>2, <1>3, RowInvariant, PTL DEF Spec

(***************************************************************************)
(* The tables implement the query life cycle: every step is a step of       *)
(* QueryLifecycle or leaves the status and worker columns alone.            *)
(***************************************************************************)
LEMMA LifecycleInit == Init => Lifecycle!Init
  BY DEF Init, Lifecycle!Init

LEMMA ReturnQueriesMaps ==
    ASSUME NEW W, ReturnQueriesOf(W)
    PROVE  Lifecycle!Next
  <1> DEFINE S == {q \in QueryId : status[q] = "running" /\ assigned[q] \in W}
  <1>1. Lifecycle!Return(S)
    BY DEF ReturnQueriesOf, Lifecycle!Return
  <1> QED
    BY <1>1 DEF Lifecycle!Next

LEMMA QueryStepMaps ==
    ASSUME TypeOK, NEW q \in QueryId, QueryStep(q)
    PROVE  Lifecycle!Next
  <1>1. CASE CreateQuery(q)
    BY <1>1 DEF CreateQuery, Lifecycle!Next, Lifecycle!Submit
  <1>2. CASE \E outcome \in Outcome : CompleteQuery(q, outcome)
    BY <1>2 DEF CompleteQuery, Active, Outcome, Lifecycle!Next, Lifecycle!Finish, Lifecycle!Outcome
  <1>3. CASE MarkQueryCancelled(q)
    <2>1. Lifecycle!Finish(q, "cancelled")
      BY <1>3 DEF MarkQueryCancelled, Active, Lifecycle!Finish
    <2> QED
      BY <2>1 DEF Lifecycle!Next, Lifecycle!Outcome
  <1>4. CASE RevertQueryToPending(q)
    <2>1. Lifecycle!Return({q})
      BY <1>4 DEF RevertQueryToPending, Lifecycle!Return, TypeOK
    <2> QED
      BY <2>1 DEF Lifecycle!Next
  <1> QED
    BY <1>1, <1>2, <1>3, <1>4 DEF QueryStep

\* A commit places a query that is still pending: this is where the row lock,
\* which CommitClaim itself does not mention, is needed.
LEMMA CommitMaps ==
    ASSUME RowInv, NEW c \in Claimer, CommitClaim(c)
    PROVE  Lifecycle!Next
  <1>1. /\ claim[c].query \in QueryId /\ claim[c].worker \in Worker
        /\ status[claim[c].query] = "pending"
    BY ClaimStateFacts DEF CommitClaim, RowInv, ClaimHoldsPendingRow
  <1>2. Lifecycle!Place(claim[c].query, claim[c].worker)
    BY <1>1 DEF CommitClaim, Lifecycle!Place
  <1> QED
    BY <1>1, <1>2 DEF Lifecycle!Next

LEMMA StepMaps ==
    RowInv /\ [Next]_vars => [Lifecycle!Next]_(Lifecycle!vars)
  <1> SUFFICES ASSUME RowInv, [Next]_vars
               PROVE  Lifecycle!Next \/ UNCHANGED <<status, assigned>>
    BY DEF Lifecycle!vars
  <1>1. CASE UNCHANGED vars
    BY <1>1 DEF vars
  <1>2. ASSUME NEW w \in Worker, WorkerStep(w)
        PROVE  Lifecycle!Next \/ UNCHANGED <<status, assigned>>
    <2>1. CASE MarkWorkerUnreachable(w)
      BY <2>1, ReturnQueriesMaps DEF MarkWorkerUnreachable
    <2>2. CASE ~MarkWorkerUnreachable(w)
      BY <1>2, <2>2 DEF WorkerStep, RegisterWorker, ReadyWorker, HeartbeatWorker,
                        ShutdownWorker, HeartbeatExpires, queryTable
    <2> QED
      BY <2>1, <2>2
  <1>3. CASE SweepStaleWorkers
    BY <1>3, ReturnQueriesMaps DEF SweepStaleWorkers
  <1>4. CASE \E q \in QueryId : QueryStep(q)
    BY <1>4, QueryStepMaps DEF RowInv
  <1>5. ASSUME NEW c \in Claimer, ClaimStep(c)
        PROVE  Lifecycle!Next \/ UNCHANGED <<status, assigned>>
    <2>1. CASE CommitClaim(c)
      BY <2>1, CommitMaps
    <2>2. CASE ~CommitClaim(c)
      BY <1>5, <2>2 DEF ClaimStep, ClaimPendingQuery, ClaimQueryById, LockRow, PickWorker,
                        PickNone, queryTable
    <2> QED
      BY <2>1, <2>2
  <1>6. CASE \E C \in SUBSET Claimer : Rollback(C)
    BY <1>6 DEF Rollback, queryTable
  <1> QED
    BY <1>1, <1>2, <1>3, <1>4, <1>5, <1>6 DEF Next

\* Every behaviour of the tables is a behaviour of the query life cycle.
THEOREM StoreImplementsLifecycle == Spec => ImplementsLifecycle
  BY LifecycleInit, StepMaps, RowInvariant, PTL DEF Spec, ImplementsLifecycle, Lifecycle!Spec

(***************************************************************************)
(* Finished queries.                                                        *)
(***************************************************************************)
LEMMA FinishedUntouched ==
    ASSUME RowInv, Next, NEW q \in QueryId, status[q] \in Outcome
    PROVE  status'[q] = status[q] /\ assigned'[q] = assigned[q] /\ error'[q] = error[q]
  <1> USE DEF RowInv, TypeOK, Outcome
  <1>1. CASE \E w \in Worker : WorkerStep(w)
    BY <1>1 DEF WorkerStep, RegisterWorker, ReadyWorker, HeartbeatWorker, ShutdownWorker,
         HeartbeatExpires, MarkWorkerUnreachable, ReturnQueriesOf, queryTable
  <1>2. CASE SweepStaleWorkers
    BY <1>2 DEF SweepStaleWorkers, ReturnQueriesOf
  <1>3. CASE \E p \in QueryId : QueryStep(p)
    BY <1>3 DEF QueryStep, CreateQuery, CompleteQuery, MarkQueryCancelled,
                RevertQueryToPending, Active
  <1>4. ASSUME NEW c \in Claimer, ClaimStep(c)
        PROVE  status'[q] = status[q] /\ assigned'[q] = assigned[q] /\ error'[q] = error[q]
    <2>1. CASE CommitClaim(c)
      <3>1. status[claim[c].query] = "pending"
        BY <2>1 DEF CommitClaim, ClaimHoldsPendingRow
      <3> QED
        BY <2>1, <3>1 DEF CommitClaim
    <2>2. CASE ~CommitClaim(c)
      BY <1>4, <2>2 DEF ClaimStep, ClaimPendingQuery, ClaimQueryById, LockRow, PickWorker,
                        PickNone, queryTable
    <2> QED
      BY <2>1, <2>2
  <1>5. CASE \E C \in SUBSET Claimer : Rollback(C)
    BY <1>5 DEF Rollback, queryTable
  <1> QED
    BY <1>1, <1>2, <1>3, <1>4, <1>5 DEF Next

\* No operation, in any interleaving, changes a query that has its outcome.
THEOREM TerminalFinality == Spec => TerminalIsFinal
  <1>1. RowInv /\ [Next]_vars =>
          [\A q \in QueryId : status[q] \in Outcome =>
              /\ status'[q] = status[q]
              /\ assigned'[q] = assigned[q]
              /\ error'[q] = error[q]]_vars
    BY FinishedUntouched
  <1> QED
    BY <1>1, RowInvariant, PTL DEF Spec, TerminalIsFinal
=============================================================================
