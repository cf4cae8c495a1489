------------------------------ MODULE Executor ------------------------------
(***************************************************************************)
(* DuckDBExecutor of worker/duckdb.py: a pool of DuckDB connections shared  *)
(* by the threads in which asyncio.to_thread runs execute(), and the event  *)
(* loop thread, which cancels queries and finally closes the pool.          *)
(*                                                                         *)
(* A call is one run of execute(); two calls may be for the same query,     *)
(* because the coordinator may dispatch a query again while it is still     *)
(* executing here. _lock protects _active alone: cancel() looks a           *)
(* connection up under the lock and interrupts it after the lock is gone,   *)
(* and statements, the result file and the queue of idle connections are    *)
(* used without it.                                                         *)
(*                                                                         *)
(* DuckDB itself is external: an interrupt sets a flag of the connection    *)
(* that the next statement to start clears, a statement may end before it   *)
(* notices the flag, and a closed connection raises.                        *)
(***************************************************************************)
EXTENDS Naturals, Sequences, FiniteSets, Functions

CONSTANTS
    Call,       \* runs of execute()
    Query,      \* query ids
    QueryOf,    \* QueryOf[t]: the query that call t executes
    Returning,  \* queries that return rows, and so write a result file
    Cancellable,\* queries somebody may ask to cancel
    PoolSize,   \* connection_pool_size
    MaxLost,    \* bound on the reconnects that fail
    None        \* Python's None

\* Connections are numbered as they are opened: the warm pool first, then one
\* for each call that discards its own.
Conn == 1 .. PoolSize + Cardinality(Call)

ASSUME ExecutorAssumption ==
    /\ IsFiniteSet(Call)
    /\ QueryOf \in [Call -> Query]
    /\ Returning \subseteq Query
    /\ Cancellable \subseteq Query
    /\ PoolSize \in Nat \ {0}
    /\ MaxLost \in Nat
    /\ None \notin Conn

VARIABLES
    available,  \* the queue of idle connections
    active,     \* active[q]: the connection registered for q
    pc,         \* pc[t]: where call t is
    conn,       \* conn[t]: the connection of call t
    outcome,    \* outcome[t]: what call t returns or raises
    flag,       \* flag[c]: an interrupt of c is waiting to be noticed
    files,      \* queries with a result file
    opened,     \* connections opened so far
    closed,     \* connections that were closed
    lost,       \* connections that could not be reopened
    loop,       \* the event loop: queries to cancel, connection to interrupt
    phase       \* the life of the executor

vars == <<available, active, pc, conn, outcome, flag, files, opened, closed,
          lost, loop, phase>>

pool == <<available, opened, closed, lost>>
eventLoop == <<loop, phase>>

Idle == [todo |-> {}, conn |-> None]

\* The pool is warmed before the worker reports ready.
Init ==
    /\ available = [i \in 1 .. PoolSize |-> i]
    /\ active = [q \in Query |-> None]
    /\ pc = [t \in Call |-> "idle"]
    /\ conn = [t \in Call |-> None]
    /\ outcome = [t \in Call |-> "none"]
    /\ flag = [c \in Conn |-> FALSE]
    /\ files = {}
    /\ opened = PoolSize
    /\ closed = {}
    /\ lost = 0
    /\ loop = Idle
    /\ phase = "serving"

Goto(t, from, to) == pc[t] = from /\ pc' = [pc EXCEPT ![t] = to]
-----------------------------------------------------------------------------
(* execute() *)

Execute(t) ==
    /\ phase # "closed"
    /\ Goto(t, "idle", "waiting")
    /\ UNCHANGED <<pool, active, conn, outcome, flag, files, eventLoop>>

\* Mutant: the connection is looked at and stays in the queue.
AcquirePeek(t) ==
    /\ Goto(t, "waiting", "acquired")
    /\ available # <<>>
    /\ conn' = [conn EXCEPT ![t] = Head(available)]
    /\ UNCHANGED <<available, active, outcome, flag, files, opened, closed, lost, eventLoop>>

\* Mutant: a call that finds no idle connection goes on without one.
AcquireOrNone(t) ==
    /\ Goto(t, "waiting", "acquired")
    /\ \/ /\ available # <<>>
          /\ conn' = [conn EXCEPT ![t] = Head(available)]
          /\ available' = Tail(available)
       \/ available = <<>> /\ UNCHANGED <<conn, available>>
    /\ UNCHANGED <<active, outcome, flag, files, opened, closed, lost, eventLoop>>

Acquire(t) ==
    /\ Goto(t, "waiting", "acquired")
    /\ available # <<>>
    /\ conn' = [conn EXCEPT ![t] = Head(available)]
    /\ available' = Tail(available)
    /\ UNCHANGED <<active, outcome, flag, files, opened, closed, lost, eventLoop>>

\* A second call for a query takes over the entry of the first.
RegisterCall(t) ==
    /\ Goto(t, "acquired", "registered")
    /\ active' = [active EXCEPT ![QueryOf[t]] = conn[t]]
    /\ UNCHANGED <<pool, conn, outcome, flag, files, eventLoop>>

\* COPY and then count(*) for a query that returns rows, else the query alone.
StartStatement(t) ==
    /\ conn[t] \notin closed
    /\ \/ QueryOf[t] \in Returning /\ Goto(t, "registered", "copying")
       \/ QueryOf[t] \notin Returning /\ Goto(t, "registered", "running")
       \/ Goto(t, "copied", "counting")
    /\ flag' = [flag EXCEPT ![conn[t]] = FALSE]
    /\ UNCHANGED <<pool, active, conn, outcome, files, eventLoop>>

CopyEnds(t) ==
    /\ Goto(t, "copying", "copied")
    /\ files' = files \cup {QueryOf[t]}
    /\ UNCHANGED <<pool, active, conn, outcome, flag, eventLoop>>

QueryEnds(t) ==
    /\ Goto(t, "running", "leaving") \/ (QueryOf[t] \in files /\ Goto(t, "counting", "leaving"))
    /\ outcome' = [outcome EXCEPT ![t] = "completed"]
    /\ UNCHANGED <<pool, active, conn, flag, files, eventLoop>>

\* InterruptException, or any other error; a COPY may leave part of a file.
StatementRaises(t) ==
    /\ pc[t] \in {"copying", "counting", "running"}
         \/ (pc[t] \in {"registered", "copied"} /\ conn[t] \in closed)
    /\ \/ flag[conn[t]] /\ outcome' = [outcome EXCEPT ![t] = "cancelled"]
       \/ outcome' = [outcome EXCEPT ![t] = "failed"]
    /\ pc' = [pc EXCEPT ![t] = "raised"]
    /\ \/ UNCHANGED files
       \/ pc[t] = "copying" /\ files' = files \cup {QueryOf[t]}
    /\ UNCHANGED <<pool, active, conn, flag, eventLoop>>

\* Mutant: the handler leaves the result file behind.
KeepResult(t) ==
    /\ Goto(t, "raised", "leaving")
    /\ UNCHANGED <<pool, active, conn, outcome, flag, files, eventLoop>>

RemoveResult(t) ==
    /\ Goto(t, "raised", "leaving")
    /\ files' = files \ {QueryOf[t]}
    /\ UNCHANGED <<pool, active, conn, outcome, flag, eventLoop>>

\* Mutant: the entry outlives the call.
KeepRegistered(t) ==
    /\ Goto(t, "leaving", "releasing")
    /\ UNCHANGED <<pool, active, conn, outcome, flag, files, eventLoop>>

\* _active.pop(query_id): whichever call registered it.
Unregister(t) ==
    /\ Goto(t, "leaving", "releasing")
    /\ active' = [active EXCEPT ![QueryOf[t]] = None]
    /\ UNCHANGED <<pool, conn, outcome, flag, files, eventLoop>>

ReleaseSame(t) ==
    /\ outcome[t] # "cancelled"
    /\ available' = Append(available, conn[t])
    /\ UNCHANGED <<outcome, opened, closed, lost>>

\* Mutant: an interrupted connection is closed and not replaced.
ReleaseClosed(t) ==
    /\ outcome[t] = "cancelled"
    /\ closed' = closed \cup {conn[t]}
    /\ UNCHANGED <<available, outcome, opened, lost>>

\* An interrupted connection is closed, and a fresh one takes its place.
ReleaseFresh(t) ==
    /\ outcome[t] = "cancelled"
    /\ available' = Append(available, opened + 1)
    /\ opened' = opened + 1
    /\ closed' = closed \cup {conn[t]}
    /\ UNCHANGED <<outcome, lost>>

\* duckdb.connect raises before the put: the pool has one connection less.
ReleaseNone(t) ==
    /\ outcome[t] = "cancelled" /\ lost < MaxLost
    /\ lost' = lost + 1
    /\ closed' = closed \cup {conn[t]}
    /\ outcome' = [outcome EXCEPT ![t] = "failed"]
    /\ UNCHANGED <<available, opened>>

\* Queue.put waits while the queue is full.
Release(t) ==
    /\ Goto(t, "releasing", "done")
    /\ Len(available) < PoolSize
    /\ ReleaseSame(t) \/ ReleaseFresh(t) \/ ReleaseNone(t)
    /\ conn' = [conn EXCEPT ![t] = None]
    /\ UNCHANGED <<active, flag, files, eventLoop>>
-----------------------------------------------------------------------------
(* The event loop *)

CancelRequest(q) ==
    /\ q \in Cancellable
    /\ loop = Idle /\ phase # "closed"
    /\ loop' = [loop EXCEPT !.todo = {q}]
    /\ UNCHANGED <<pool, active, pc, conn, outcome, flag, files, phase>>

\* Shutdown cancels what is registered at this moment.
CancelAll ==
    /\ loop = Idle /\ phase = "serving"
    /\ phase' = "stopping"
    /\ loop' = [loop EXCEPT !.todo = {q \in Query : active[q] # None}]
    /\ UNCHANGED <<pool, active, pc, conn, outcome, flag, files>>

\* The part of cancel() under the lock.
LookUp(q) ==
    /\ loop.conn = None /\ q \in loop.todo
    /\ loop' = [todo |-> loop.todo \ {q}, conn |-> active[q]]
    /\ UNCHANGED <<pool, active, pc, conn, outcome, flag, files, phase>>

\* The part after it. A connection closed in between raises, which also ends
\* the loop of cancel_all.
Interrupt ==
    /\ loop.conn # None
    /\ \/ /\ loop.conn \notin closed
          /\ flag' = [flag EXCEPT ![loop.conn] = TRUE]
          /\ loop' = [loop EXCEPT !.conn = None]
       \/ loop.conn \in closed /\ loop' = Idle /\ UNCHANGED flag
    /\ UNCHANGED <<pool, active, pc, conn, outcome, files, phase>>

\* After the wait for the tasks, whether they ended or were abandoned.
Close ==
    /\ loop = Idle /\ phase = "stopping"
    /\ phase' = "closed"
    /\ closed' = closed \cup Range(available) \cup (Range(active) \ {None})
    /\ available' = <<>>
    /\ active' = [q \in Query |-> None]
    /\ UNCHANGED <<pc, conn, outcome, flag, files, opened, lost, loop>>
-----------------------------------------------------------------------------
CallStep(t) ==
    \/ Acquire(t)
    \/ RegisterCall(t)
    \/ StartStatement(t)
    \/ CopyEnds(t)
    \/ QueryEnds(t)
    \/ StatementRaises(t)
    \/ RemoveResult(t)
    \/ Unregister(t)
    \/ Release(t)

Next ==
    \/ \E t \in Call : Execute(t) \/ CallStep(t)
    \/ \E q \in Query : CancelRequest(q) \/ LookUp(q)
    \/ CancelAll
    \/ Interrupt
    \/ Close

Spec == Init /\ [][Next]_vars

\* Threads run, statements end, and the event loop finishes what it started.
FairSpec ==
    /\ Spec
    /\ \A t \in Call : WF_vars(CallStep(t))
    /\ WF_vars(Interrupt \/ \E q \in Query : LookUp(q))
-----------------------------------------------------------------------------
(* Properties *)

\* Every variable holds what its comment says; a call has a connection exactly
\* between acquire and release, and leaves only with an outcome.
TypeOK ==
    /\ available \in Seq(Conn)
    /\ active \in [Query -> Conn \cup {None}]
    /\ pc \in [Call -> {"idle", "waiting", "acquired", "registered", "copying", "copied",
                        "counting", "running", "raised", "leaving", "releasing", "done"}]
    /\ conn \in [Call -> Conn \cup {None}]
    /\ outcome \in [Call -> {"none", "completed", "cancelled", "failed"}]
    /\ flag \in [Conn -> BOOLEAN]
    /\ files \subseteq Query
    /\ opened \in Conn
    /\ closed \subseteq Conn
    /\ lost \in 0 .. MaxLost
    /\ loop \in [todo : SUBSET Query, conn : Conn \cup {None}]
    /\ phase \in {"serving", "stopping", "closed"}
    /\ \A t \in Call : /\ conn[t] = None <=> pc[t] \in {"idle", "waiting", "done"}
                       /\ pc[t] \in {"raised", "leaving", "releasing", "done"} =>
                            outcome[t] # "none"

Holding == {t \in Call : conn[t] # None}
Held == {conn[t] : t \in Holding}

\* "Each query uses a dedicated connection": no connection is idle twice, used
\* by two calls, or idle and in use, whatever mixture of returns, discards,
\* failed reconnects and cancellations there was; and until the pool is closed
\* every connection but the ones that could not be reopened is accounted for
\* and open, so the pool never leaks one and put() never blocks.
PoolConserved ==
    /\ IsInjective(available)
    /\ \A t, u \in Holding : conn[t] = conn[u] => t = u
    /\ Range(available) \cap Held = {}
    /\ phase # "closed" =>
         /\ Len(available) + Cardinality(Holding) + lost = PoolSize
         /\ (Range(available) \cup Held) \cap closed = {}

\* What cancel() finds in _active is a connection that a call of that very
\* query still holds, although a duplicate call overwrites and pops the entry
\* of the first: _active may forget a query, never confuse two.
ActiveIsHeld ==
    \A q \in Query : active[q] # None =>
        \E t \in Holding : QueryOf[t] = q /\ conn[t] = active[q]

\* The result file agrees with the outcome reported: it is there if every call
\* of the query completed, and gone if none did, even when the COPY succeeded
\* and the interrupt or error hit the count after it. (A failing duplicate
\* deletes the file of a call that completed.)
ResultMatchesOutcome ==
    \A q \in Returning :
        LET calls == {t \in Call : QueryOf[t] = q}
        IN  (calls # {} /\ \A t \in calls : pc[t] = "done") =>
              /\ (\A t \in calls : outcome[t] = "completed") => q \in files
              /\ (\A t \in calls : outcome[t] # "completed") => q \notin files

\* No call waits for a connection forever: whatever is interrupted, discarded
\* or fails gives its connection, or a fresh one, back. Closing the pool is the
\* one exception, and only if it took every connection: as long as a call still
\* has one, that call returns it to the closed pool and the waiting one goes on.
EveryCallEnds ==
    \A t \in Call :
        pc[t] = "waiting" ~> \/ pc[t] = "done"
                             \/ phase = "closed" /\ Holding = {} /\ available = <<>>

\* The queue, the calls' local variables and the discarding of connections are a
\* pool that gives every call a connection of its own.
Pool == INSTANCE ConnectionPool WITH
    Size <- PoolSize, free <- Range(available), held <- conn, shut <- (phase = "closed")
ImplementsPool == Pool!PoolSpec

\* README.md:95: "cancellation only affects that query": until shutdown cancels
\* everything, a call is cancelled only if somebody asked for its query.
CancelOnlyAsked ==
    \A t \in Call :
        phase = "serving" /\ outcome[t] = "cancelled" => QueryOf[t] \in Cancellable
=============================================================================
