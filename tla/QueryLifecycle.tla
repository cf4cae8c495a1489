--------------------------- MODULE QueryLifecycle ---------------------------
(***************************************************************************)
(* What the queries table promises to its users, without saying how        *)
(* workers are found, watched or given up: a submitted query waits, is      *)
(* placed on one worker at a time, may be returned to the queue any number  *)
(* of times (several queries at once when a worker is given up), and ends   *)
(* in one outcome that never changes again.                                 *)
(***************************************************************************)
CONSTANTS
    QueryId,    \* the queries that may be submitted
    Worker,     \* the workers they may be placed on
    None        \* no worker

VARIABLES
    status,     \* status[q]: absent before submission, then the row's status
    assigned    \* assigned[q]: the worker a running query was placed on

Outcome == {"completed", "failed", "cancelled"}

Init ==
    /\ status = [q \in QueryId |-> "absent"]
    /\ assigned = [q \in QueryId |-> None]

\* POST /queries inserts a pending row.
Submit(q) ==
    /\ status[q] = "absent"
    /\ status' = [status EXCEPT ![q] = "pending"]
    /\ UNCHANGED assigned

\* A waiting query is given to one worker.
Place(q, w) ==
    /\ status[q] = "pending"
    /\ status' = [status EXCEPT ![q] = "running"]
    /\ assigned' = [assigned EXCEPT ![q] = w]

\* Running queries go back to the queue and forget their worker.
Return(S) ==
    /\ \A q \in S : status[q] = "running"
    /\ status' = [q \in QueryId |-> IF q \in S THEN "pending" ELSE status[q]]
    /\ assigned' = [q \in QueryId |-> IF q \in S THEN None ELSE assigned[q]]

\* A submitted query gets its outcome, once.
Finish(q, outcome) ==
    /\ status[q] \in {"pending", "running"}
    /\ status' = [status EXCEPT ![q] = outcome]
    /\ UNCHANGED assigned

Next ==
    \/ \E q \in QueryId : Submit(q)
    \/ \E q \in QueryId, w \in Worker : Place(q, w)
    \/ \E S \in SUBSET QueryId : Return(S)
    \/ \E q \in QueryId, outcome \in Outcome : Finish(q, outcome)

vars == <<status, assigned>>

Spec == Init /\ [][Next]_vars
=============================================================================
