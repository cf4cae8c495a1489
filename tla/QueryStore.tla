----------------------------- MODULE QueryStore -----------------------------
(***************************************************************************)
(* The workers and queries tables of DuckLauncher and every operation of    *)
(* ducklauncher/db/queries.py that changes them, as PostgreSQL runs them    *)
(* under READ COMMITTED:                                                    *)
(*                                                                         *)
(*   - a single UPDATE or INSERT outside a transaction is one atomic step;  *)
(*   - mark_worker_unreachable and sweep_stale_workers are one step, taken  *)
(*     where their second UPDATE reads the queries table;                   *)
(*   - a claim (claim_pending_query, claim_query_by_id) is a transaction of *)
(*     three visible steps: it locks a pending row, reads the committed     *)
(*     tables to choose a worker, and later commits the placement. Other    *)
(*     transactions run in between: they cannot touch the locked row, but   *)
(*     can change the workers and the load the choice was made from.        *)
(*                                                                         *)
(* A column is a function from the key to the value. The tables outlive     *)
(* every coordinator and worker; a coordinator that dies while a claim is   *)
(* open loses only that transaction (Rollback).                             *)
(***************************************************************************)
EXTENDS Naturals, FiniteSets, FiniteSetsExt

CONSTANTS
    MaxQueries,     \* bound on the queries ever submitted
    Worker,         \* worker identities (worker_id, kept over restarts)
    Claimer,        \* connections that may hold a claim transaction
    Resource,       \* limited resources: cpus, memory, disk_space
    Capacities,     \* the capacities a worker may report, each Resource -> Nat
    Need,           \* Need[q][r]: what query q asks of r, or NoLimit (NULL)
    NoLimit,        \* an absent resource request
    MaxConcurrent,  \* MaxConcurrent[w]: max_concurrent_queries of w
    None            \* SQL NULL of a worker column

\* Queries are numbered by created_at.
QueryId == 1 .. MaxQueries

ASSUME StoreAssumption ==
    /\ MaxQueries \in Nat
    /\ IsFiniteSet(Claimer) /\ Claimer # {}
    /\ Capacities \subseteq [Resource -> Nat]
    /\ IsFiniteSet(Capacities) /\ Capacities # {}
    /\ Need \in [QueryId -> [Resource -> Nat \cup {NoLimit}]]
    /\ NoLimit \notin Nat
    /\ MaxConcurrent \in [Worker -> Nat]
    /\ None \notin Worker /\ None \notin QueryId

VARIABLES
    status,     \* queries.status, "absent" before the row exists
    assigned,   \* queries.worker_id
    error,      \* queries.error: who wrote it last, or "none"
    wstatus,    \* workers.status, "absent" before the row exists
    fresh,      \* workers.last_heartbeat_at is within worker_stale_sec
    capacity,   \* workers.cpus, memory, disk_space
    claim       \* claim[c]: the claim transaction open on connection c

queryTable == <<status, assigned, error>>
workerTable == <<wstatus, fresh, capacity>>
vars == <<status, assigned, error, wstatus, fresh, capacity, claim>>

Outcome == {"completed", "failed", "cancelled"}
QueryStatus == {"absent", "pending", "running"} \cup Outcome
\* 'lost' is 'Worker became unreachable'; 'reported' any text a completion or
\* a cancellation brings.
Error == {"none", "lost", "reported"}
WorkerStatus ==
    {"absent", "initializing", "running", "unreachable", "shutting_down", "stopped"}

NoClaim == [phase |-> "idle", query |-> None, worker |-> None]
ClaimState ==
    {NoClaim}
      \cup [phase : {"locked"}, query : QueryId, worker : {None}]
      \cup [phase : {"picked"}, query : QueryId, worker : Worker]

Init ==
    /\ status = [q \in QueryId |-> "absent"]
    /\ assigned = [q \in QueryId |-> None]
    /\ error = [q \in QueryId |-> "none"]
    /\ wstatus = [w \in Worker |-> "absent"]
    /\ fresh = [w \in Worker |-> FALSE]
    /\ capacity = [w \in Worker |-> CHOOSE cap \in Capacities : TRUE]
    /\ claim = [c \in Claimer |-> NoClaim]
-----------------------------------------------------------------------------
(* The workers table *)

\* Mutant: the status of a row that is there already is kept.
RegisterKeepingStatus(w) ==
    /\ wstatus' = [wstatus EXCEPT ![w] = IF @ = "absent" THEN "initializing" ELSE @]
    /\ fresh' = [fresh EXCEPT ![w] = TRUE]
    /\ \E cap \in Capacities : capacity' = [capacity EXCEPT ![w] = cap]
    /\ UNCHANGED <<queryTable, claim>>

\* INSERT ... ON CONFLICT DO UPDATE: a returning worker starts over, but its
\* running queries are left as they are.
RegisterWorker(w) ==
    /\ wstatus' = [wstatus EXCEPT ![w] = "initializing"]
    /\ fresh' = [fresh EXCEPT ![w] = TRUE]
    /\ \E cap \in Capacities : capacity' = [capacity EXCEPT ![w] = cap]
    /\ UNCHANGED <<queryTable, claim>>

ReadyWorker(w) ==
    /\ wstatus[w] = "initializing"
    /\ wstatus' = [wstatus EXCEPT ![w] = "running"]
    /\ fresh' = [fresh EXCEPT ![w] = TRUE]
    /\ UNCHANGED <<queryTable, capacity, claim>>

\* A heartbeat overwrites the status of any existing row, whatever it was.
HeartbeatWorker(w, s) ==
    /\ wstatus[w] # "absent"
    /\ wstatus' = [wstatus EXCEPT ![w] = s]
    /\ fresh' = [fresh EXCEPT ![w] = TRUE]
    /\ \E cap \in Capacities : capacity' = [capacity EXCEPT ![w] = cap]
    /\ UNCHANGED <<queryTable, claim>>

ShutdownWorker(w) ==
    /\ wstatus[w] = "running"
    /\ wstatus' = [wstatus EXCEPT ![w] = "shutting_down"]
    /\ fresh' = [fresh EXCEPT ![w] = TRUE]
    /\ UNCHANGED <<queryTable, capacity, claim>>

\* worker_stale_sec pass without a heartbeat of w.
HeartbeatExpires(w) ==
    /\ fresh[w]
    /\ fresh' = [fresh EXCEPT ![w] = FALSE]
    /\ UNCHANGED <<queryTable, wstatus, capacity, claim>>

RunningOn(w) == {q \in QueryId : status[q] = "running" /\ assigned[q] = w}

\* Mutant: the UPDATE does not ask for status = 'running'.
ReturnAllQueriesOf(W) ==
    LET Lost(q) == assigned[q] \in W
    IN  /\ status' = [q \in QueryId |-> IF Lost(q) THEN "pending" ELSE status[q]]
        /\ assigned' = [q \in QueryId |-> IF Lost(q) THEN None ELSE assigned[q]]
        /\ error' = [q \in QueryId |-> IF Lost(q) THEN "lost" ELSE error[q]]

\* The UPDATE that gives the queries of lost workers back to the queue.
ReturnQueriesOf(W) ==
    LET Lost(q) == status[q] = "running" /\ assigned[q] \in W
    IN  /\ status' = [q \in QueryId |-> IF Lost(q) THEN "pending" ELSE status[q]]
        /\ assigned' = [q \in QueryId |-> IF Lost(q) THEN None ELSE assigned[q]]
        /\ error' = [q \in QueryId |-> IF Lost(q) THEN "lost" ELSE error[q]]

\* Mutant: the worker is marked and its queries are forgotten.
MarkWorkerOnly(w) ==
    /\ wstatus[w] \in {"running", "shutting_down"}
    /\ wstatus' = [wstatus EXCEPT ![w] = "unreachable"]
    /\ UNCHANGED <<queryTable, fresh, capacity, claim>>

\* The early return for any other status of w changes nothing at all.
MarkWorkerUnreachable(w) ==
    /\ wstatus[w] \in {"running", "shutting_down"}
    /\ wstatus' = [wstatus EXCEPT ![w] = "unreachable"]
    /\ ReturnQueriesOf({w})
    /\ UNCHANGED <<fresh, capacity, claim>>

\* Mutant: the age of the last heartbeat is not asked for.
StaleOrFreshWorkers == {w \in Worker : wstatus[w] \in {"running", "shutting_down", "unreachable"}}

StaleWorkers ==
    {w \in Worker : /\ wstatus[w] \in {"running", "shutting_down", "unreachable"}
                    /\ ~fresh[w]}

SweepStaleWorkers ==
    /\ StaleWorkers # {}
    /\ wstatus' = [w \in Worker |-> IF w \in StaleWorkers THEN "stopped" ELSE wstatus[w]]
    /\ ReturnQueriesOf(StaleWorkers)
    /\ UNCHANGED <<fresh, capacity, claim>>
-----------------------------------------------------------------------------
(* The queries table *)

CreateQuery(q) ==
    /\ status[q] = "absent"
    /\ status' = [status EXCEPT ![q] = "pending"]
    /\ UNCHANGED <<assigned, error, workerTable, claim>>

\* The row of q is locked by an open claim: an UPDATE that matches it waits.
Locked(q) == \E c \in Claimer : claim[c].query = q

Active(q) == status[q] \in {"pending", "running"}

\* Mutant: a completion is written whatever the status of the query.
CompleteAnyQuery(q, outcome) ==
    /\ status[q] # "absent" /\ ~Locked(q)
    /\ status' = [status EXCEPT ![q] = outcome]
    /\ error' = [error EXCEPT ![q] = IF outcome = "completed" THEN @ ELSE "reported"]
    /\ UNCHANGED <<assigned, workerTable, claim>>

\* COALESCE($3, error): only a completion without a message keeps the old one.
CompleteQuery(q, outcome) ==
    /\ Active(q) /\ ~Locked(q)
    /\ status' = [status EXCEPT ![q] = outcome]
    /\ error' = [error EXCEPT ![q] = IF outcome = "completed" THEN @ ELSE "reported"]
    /\ UNCHANGED <<assigned, workerTable, claim>>

MarkQueryCancelled(q) ==
    /\ Active(q) /\ ~Locked(q)
    /\ status' = [status EXCEPT ![q] = "cancelled"]
    /\ error' = [error EXCEPT ![q] = "reported"]
    /\ UNCHANGED <<assigned, workerTable, claim>>

\* Mutant: worker_id is left in the reverted row.
RevertKeepingWorker(q) ==
    /\ status[q] = "running"
    /\ status' = [status EXCEPT ![q] = "pending"]
    /\ UNCHANGED <<assigned, error, workerTable, claim>>

RevertQueryToPending(q) ==
    /\ status[q] = "running"
    /\ status' = [status EXCEPT ![q] = "pending"]
    /\ assigned' = [assigned EXCEPT ![q] = None]
    /\ UNCHANGED <<error, workerTable, claim>>
-----------------------------------------------------------------------------
(* Claim transactions *)

\* SUM ignores NULL: a query without a request adds nothing to the load.
Requested(r) == [q \in QueryId |-> IF Need[q][r] = NoLimit THEN 0 ELSE Need[q][r]]

Load(w, r) == SumFunctionOnSet(Requested(r), RunningOn(w))

\* Mutant: the query itself is counted twice.
EligibleStrictly(q) ==
    {w \in Worker :
        /\ wstatus[w] = "running"
        /\ fresh[w]
        /\ \A r \in Resource :
             Need[q][r] # NoLimit => Load(w, r) + Need[q][r] <= capacity[w][r]
        /\ Cardinality(RunningOn(w)) + 1 < MaxConcurrent[w]}

\* Mutant: a request is compared with the capacity as if the worker were idle.
EligibleWhenIdle(q) ==
    {w \in Worker :
        /\ wstatus[w] = "running"
        /\ fresh[w]
        /\ \A r \in Resource : Need[q][r] # NoLimit => Need[q][r] <= capacity[w][r]
        /\ Cardinality(RunningOn(w)) + 1 <= MaxConcurrent[w]}

\* The workers _WORKER_FOR_QUERY_SQL admits for query q.
Eligible(q) ==
    {w \in Worker :
        /\ wstatus[w] = "running"
        /\ fresh[w]
        /\ \A r \in Resource :
             Need[q][r] # NoLimit => Load(w, r) + Need[q][r] <= capacity[w][r]
        /\ Cardinality(RunningOn(w)) + 1 <= MaxConcurrent[w]}

\* ORDER BY the number of running queries; the newest heartbeat breaks ties,
\* which is left open here.
LeastLoaded(W) ==
    {w \in W : \A v \in W : Cardinality(RunningOn(w)) <= Cardinality(RunningOn(v))}

\* Mutant: the row is read without FOR UPDATE SKIP LOCKED.
PendingRows == {q \in QueryId : status[q] = "pending"}

\* The rows FOR UPDATE SKIP LOCKED may return.
Claimable == {q \in QueryId : status[q] = "pending" /\ ~Locked(q)}

LockRow(c, q) ==
    /\ claim[c].phase = "idle"
    /\ q \in Claimable
    /\ claim' = [claim EXCEPT ![c] = [phase |-> "locked", query |-> q, worker |-> None]]
    /\ UNCHANGED <<queryTable, workerTable>>

ClaimPendingQuery(c) ==
    \E q \in Claimable : (\A p \in Claimable : q <= p) /\ LockRow(c, q)

ClaimQueryById(c, q) == LockRow(c, q)

\* Mutant: any live worker is taken, as get_running_worker does.
PickLiveWorker(c, w) ==
    /\ claim[c].phase = "locked"
    /\ wstatus[w] = "running" /\ fresh[w]
    /\ claim' = [claim EXCEPT ![c] =
                    [phase |-> "picked", query |-> claim[c].query, worker |-> w]]
    /\ UNCHANGED <<queryTable, workerTable>>

PickWorker(c, w) ==
    /\ claim[c].phase = "locked"
    /\ w \in LeastLoaded(Eligible(claim[c].query))
    /\ claim' = [claim EXCEPT ![c] =
                    [phase |-> "picked", query |-> claim[c].query, worker |-> w]]
    /\ UNCHANGED <<queryTable, workerTable>>

\* Mutant: _claim_query goes on when no worker was found.
PickNoneGoesOn(c) ==
    /\ claim[c].phase = "locked"
    /\ Eligible(claim[c].query) = {}
    /\ claim' = [claim EXCEPT ![c] =
                    [phase |-> "picked", query |-> claim[c].query, worker |-> None]]
    /\ UNCHANGED <<queryTable, workerTable>>

\* No worker: the transaction ends and the row lock with it.
PickNone(c) ==
    /\ claim[c].phase = "locked"
    /\ Eligible(claim[c].query) = {}
    /\ claim' = [claim EXCEPT ![c] = NoClaim]
    /\ UNCHANGED <<queryTable, workerTable>>

\* The UPDATE of _claim_query has no condition on the row's status.
CommitClaim(c) ==
    /\ claim[c].phase = "picked"
    /\ status' = [status EXCEPT ![claim[c].query] = "running"]
    /\ assigned' = [assigned EXCEPT ![claim[c].query] = claim[c].worker]
    /\ claim' = [claim EXCEPT ![c] = NoClaim]
    /\ UNCHANGED <<error, workerTable>>

\* A coordinator dies, or connections to the database break: the claims they
\* have open are rolled back.
Rollback(C) ==
    /\ C # {} /\ \A c \in C : claim[c].phase # "idle"
    /\ claim' = [c \in Claimer |-> IF c \in C THEN NoClaim ELSE claim[c]]
    /\ UNCHANGED <<queryTable, workerTable>>
-----------------------------------------------------------------------------
WorkerStep(w) ==
    \/ RegisterWorker(w)
    \/ ReadyWorker(w)
    \/ \E s \in {"running", "shutting_down"} : HeartbeatWorker(w, s)
    \/ ShutdownWorker(w)
    \/ HeartbeatExpires(w)
    \/ MarkWorkerUnreachable(w)

QueryStep(q) ==
    \/ CreateQuery(q)
    \/ \E outcome \in Outcome : CompleteQuery(q, outcome)
    \/ MarkQueryCancelled(q)
    \/ RevertQueryToPending(q)

ClaimStep(c) ==
    \/ ClaimPendingQuery(c)
    \/ \E q \in QueryId : ClaimQueryById(c, q)
    \/ \E w \in Worker : PickWorker(c, w)
    \/ PickNone(c)
    \/ CommitClaim(c)

\* The callers are left free: any operation, in any order.
Next ==
    \/ \E w \in Worker : WorkerStep(w)
    \/ SweepStaleWorkers
    \/ \E q \in QueryId : QueryStep(q)
    \/ \E c \in Claimer : ClaimStep(c)
    \/ \E C \in SUBSET Claimer : Rollback(C)

Spec == Init /\ [][Next]_vars
-----------------------------------------------------------------------------
(* Properties *)

\* Every column holds what its type and comment allow, and a claim names a
\* query exactly while it holds a row lock and a worker exactly once picked.
TypeOK ==
    /\ status \in [QueryId -> QueryStatus]
    /\ assigned \in [QueryId -> Worker \cup {None}]
    /\ error \in [QueryId -> Error]
    /\ wstatus \in [Worker -> WorkerStatus]
    /\ fresh \in [Worker -> BOOLEAN]
    /\ capacity \in [Worker -> [Resource -> Nat]]
    /\ claim \in [Claimer -> ClaimState]

\* The UPDATE of _claim_query does not test the status again: what keeps it
\* from reviving a cancelled query or placing one query twice is that the row
\* stays pending, and locked by this claim alone, until the commit.
ClaimHoldsPendingRow ==
    /\ \A c \in Claimer : claim[c].phase # "idle" => status[claim[c].query] = "pending"
    /\ \A c, d \in Claimer :
         claim[c].query = claim[d].query => c = d \/ claim[c].query = None

\* worker_id names the worker of a running query and nobody for a waiting one,
\* whatever mixture of reverts, sweeps and claims the row has been through.
WorkerIffRunning ==
    \A q \in QueryId :
        /\ status[q] \in {"absent", "pending"} => assigned[q] = None
        /\ status[q] = "running" => assigned[q] \in Worker

\* A query that failed or was cancelled says why, in the words of the call that
\* ended it and not in those of a sweep before it; and nothing but the loss of
\* a worker leaves an error on a query that waits, runs or completed. (The loss
\* stays there for good: COALESCE keeps it when the next attempt completes.)
ErrorFitsOutcome ==
    \A q \in QueryId :
        /\ status[q] \in {"failed", "cancelled"} <=> error[q] = "reported"
        /\ status[q] = "absent" => error[q] = "none"

\* The columns of a row agree although no call writes all of them: claims and
\* returns write worker_id, ends and losses the error, each only if the status
\* it finds allows it.
ColumnsFitStatus == WorkerIffRunning /\ ErrorFitsOutcome

PickedOn(w) == {c \in Claimer : claim[c].phase = "picked" /\ claim[c].worker = w}

\* What a worker has been given: committed placements and open choices.
Placed(w) == Cardinality(RunningOn(w)) + Cardinality(PickedOn(w))

\* A claim chooses from committed rows only, so claims that overlap may all
\* choose the last free slot of one worker. The excess is bounded by the other
\* open claims: max_concurrent_queries plus the connections minus one.
OvercommitBound ==
    \A w \in Worker : Placed(w) <= MaxConcurrent[w] + Cardinality(Claimer) - 1

\* Giving a worker up returns its running queries, so the only queries that can
\* still be running on an unreachable or stopped worker are those whose claim
\* had chosen it before: no more than there are connections.
StrandedBound ==
    \A w \in Worker :
        wstatus[w] \in {"unreachable", "stopped"} => Placed(w) <= Cardinality(Claimer)

\* What a worker has been given, as the queries themselves.
Held(w) == RunningOn(w) \cup {claim[c].query : c \in PickedOn(w)}

\* The same argument for cpus, memory and disk: each open claim adds at most one
\* request to what was admitted, and a NULL request is admitted at any load but
\* weighs nothing. What was admitted fits the capacity of that moment, which a
\* later heartbeat may lower, so the bound is the most that is ever advertised.
ResourceBound ==
    \A w \in Worker, r \in Resource :
        LET Most == Max({cap[r] : cap \in Capacities})
            Largest == Max({Requested(r)[q] : q \in QueryId} \cup {0})
        IN  SumFunctionOnSet(Requested(r), Held(w))
                <= Most + (Cardinality(Claimer) - 1) * Largest

\* A finished query is never touched again: not by a late completion, a second
\* cancellation, a sweep of its worker or a claim that is still open.
TerminalIsFinal ==
    [][\A q \in QueryId : status[q] \in Outcome =>
          /\ status'[q] = status[q]
          /\ assigned'[q] = assigned[q]
          /\ error'[q] = error[q]]_vars

\* The tables implement the life cycle their callers rely on: placed only from
\* pending, on one worker, returned without a worker, finished once.
Lifecycle == INSTANCE QueryLifecycle WITH
    QueryId <- QueryId, Worker <- Worker, None <- None,
    status <- status, assigned <- assigned
ImplementsLifecycle == Lifecycle!Spec
=============================================================================
