--------------------------- MODULE ExecutorProofs ---------------------------
(***************************************************************************)
(* Machine-checked proofs about the executor, for any number of calls,      *)
(* queries and connections and any mixture of interrupts, errors and failed *)
(* reconnects: no connection is lost, shared or mistaken, files agree with  *)
(* outcomes, and the queue and the threads' variables are a pool.           *)
(***************************************************************************)
EXTENDS Executor, SequenceTheorems, FiniteSetTheorems, TLAPS

Stages == {"idle", "waiting", "acquired", "registered", "copying", "copied",
           "counting", "running", "raised", "leaving", "releasing", "done"}
Without == {"idle", "waiting", "done"}
Ended == {"raised", "leaving", "releasing", "done"}

\* Calls that have not returned yet, and calls whose connection is registered
\* unless a call for the same query took the entry.
Unfinished == {t \in Call : pc[t] # "done"}
Registered == {"registered", "copying", "copied", "counting", "running", "raised", "leaving"}

CallsOK ==
    /\ pc \in [Call -> Stages]
    /\ conn \in [Call -> Conn \cup {None}]
    /\ outcome \in [Call -> {"none", "completed", "cancelled", "failed"}]
    /\ \A t \in Call : /\ conn[t] = None <=> pc[t] \in Without
                       /\ pc[t] \in Ended => outcome[t] # "none"
                       /\ pc[t] = "raised" => outcome[t] \in {"cancelled", "failed"}
                       /\ pc[t] = "running" => QueryOf[t] \notin Returning

\* Connections that were not opened yet are nowhere, and there is one left for
\* each call that may discard its own.
QueueOK ==
    /\ available \in Seq(Conn)
    /\ IsInjective(available)
    /\ opened \in Conn /\ lost \in 0 .. MaxLost
    /\ closed \subseteq 1 .. opened
    /\ Range(available) \subseteq 1 .. opened
    /\ opened + Cardinality(Unfinished) <= PoolSize + Cardinality(Call)

HeldOK ==
    /\ Held \subseteq 1 .. opened
    /\ \A t, u \in Holding : conn[t] = conn[u] => t = u
    /\ Range(available) \cap Held = {}
    /\ phase # "closed" =>
         /\ Len(available) + Cardinality(Holding) + lost = PoolSize
         /\ (Range(available) \cup Held) \cap closed = {}

ActiveOK ==
    /\ active \in [Query -> Conn \cup {None}]
    /\ \A q \in Query : active[q] # None =>
         \E t \in Call : pc[t] \in Registered /\ QueryOf[t] = q /\ conn[t] = active[q]

\* A query has a file once a call of it has copied its result, until another
\* one deletes it; and only if a call of it has written one and not deleted it.
FilesOK ==
    /\ files \subseteq Query
    /\ \A t \in Call :
         /\ QueryOf[t] \in Returning
         /\ pc[t] \in {"copied", "counting"} \/ outcome[t] = "completed"
         => \/ QueryOf[t] \in files
            \/ \E u \in Call : QueryOf[u] = QueryOf[t] /\ outcome[u] \in {"cancelled", "failed"}
    /\ \A q \in files :
         \E t \in Call : /\ QueryOf[t] = q
                         /\ pc[t] \in {"copied", "counting", "raised"} \/ outcome[t] = "completed"

LoopOK ==
    /\ flag \in [Conn -> BOOLEAN]
    /\ loop \in [todo : SUBSET Query, conn : Conn \cup {None}]
    /\ phase \in {"serving", "stopping", "closed"}

PoolInv == QueueOK /\ HeldOK
ExecutorInv == CallsOK /\ PoolInv /\ ActiveOK /\ FilesOK /\ LoopOK
-----------------------------------------------------------------------------
(* Queues without repetition *)

LEMMA AppendOK ==
    ASSUME NEW S, NEW O \in Seq(S), IsInjective(O), NEW x \in S, x \notin Range(O)
    PROVE  /\ Append(O, x) \in Seq(S) /\ IsInjective(Append(O, x))
           /\ Range(Append(O, x)) = Range(O) \cup {x}
           /\ Len(Append(O, x)) = Len(O) + 1
  <1> DEFINE P == Append(O, x)
             n == Len(O)
  <1>1. /\ P \in Seq(S) /\ Len(P) = n + 1 /\ n \in Nat
        /\ \A i \in 1 .. n : P[i] = O[i]
        /\ P[n + 1] = x
    BY AppendProperties, LenProperties
  <1>2. DOMAIN P = 1 .. n + 1 /\ DOMAIN O = 1 .. n
    BY <1>1, LenProperties
  <1> HIDE DEF P, n
  <1>3. \A i \in 1 .. n + 1 : i \in 1 .. n \/ i = n + 1
    BY <1>1
  <1>4. IsInjective(P)
    <2> SUFFICES ASSUME NEW i \in 1 .. n + 1, NEW j \in 1 .. n + 1, P[i] = P[j] PROVE i = j
      BY <1>2 DEF IsInjective
    <2>1. ASSUME NEW k \in 1 .. n PROVE P[k] # x
      BY <1>1, <1>2, <2>1 DEF Range
    <2> QED
      BY <1>1, <1>2, <1>3, <2>1 DEF IsInjective
  <1>5. Range(P) = Range(O) \cup {x}
    <2>1. Range(P) \subseteq Range(O) \cup {x}
      BY <1>1, <1>2, <1>3 DEF Range
    <2>2. Range(O) \cup {x} \subseteq Range(P)
      <3>1. n + 1 \in DOMAIN P /\ \A i \in DOMAIN O : i \in DOMAIN P /\ P[i] = O[i]
        BY <1>1, <1>2
      <3> QED
        BY <1>1, <3>1 DEF Range
    <2> QED
      BY <2>1, <2>2
  <1> QED
    BY <1>1, <1>4, <1>5 DEF P, n

LEMMA TailOK ==
    ASSUME NEW S, NEW O \in Seq(S), IsInjective(O), O # <<>>
    PROVE  /\ Head(O) \in Range(O) /\ Head(O) \in S
           /\ Tail(O) \in Seq(S) /\ IsInjective(Tail(O))
           /\ Range(Tail(O)) = Range(O) \ {Head(O)}
           /\ Len(Tail(O)) = Len(O) - 1
  <1> DEFINE P == Tail(O)
             n == Len(O)
  <1>1. /\ P \in Seq(S) /\ Len(P) = n - 1 /\ Head(O) \in S
        /\ \A i \in 1 .. n - 1 : P[i] = O[i + 1]
    BY HeadTailProperties
  <1>2. n \in Nat \ {0} /\ DOMAIN O = 1 .. n /\ DOMAIN P = 1 .. n - 1
    BY <1>1, EmptySeq, LenProperties
  <1>3. Head(O) = O[1]
    OBVIOUS
  <1> HIDE DEF P, n
  <1>4. \A i \in 1 .. n : i = 1 \/ (i - 1 \in 1 .. n - 1 /\ (i - 1) + 1 = i)
    BY <1>2
  <1>5. \A i \in 1 .. n - 1 : i + 1 \in 1 .. n /\ i + 1 # 1
    BY <1>2
  <1>6. IsInjective(P)
    <2> SUFFICES ASSUME NEW i \in 1 .. n - 1, NEW j \in 1 .. n - 1, P[i] = P[j] PROVE i = j
      BY <1>2 DEF IsInjective
    <2>1. O[i + 1] = O[j + 1] /\ i + 1 \in 1 .. n /\ j + 1 \in 1 .. n
      BY <1>1, <1>5
    <2>2. i + 1 = j + 1
      BY <1>2, <2>1 DEF IsInjective
    <2> QED
      BY <1>2, <2>2
  <1>7. 1 \in DOMAIN O
    BY <1>2
  <1>8. Range(P) \subseteq Range(O) \ {O[1]}
    <2> SUFFICES ASSUME NEW i \in 1 .. n - 1 PROVE P[i] \in Range(O) \ {O[1]}
      BY <1>2 DEF Range
    <2>1. P[i] = O[i + 1] /\ i + 1 \in DOMAIN O /\ i + 1 # 1
      BY <1>1, <1>2, <1>5
    <2> QED
      BY <1>7, <2>1 DEF Range, IsInjective
  <1>9. Range(O) \ {O[1]} \subseteq Range(P)
    <2> SUFFICES ASSUME NEW i \in 1 .. n, O[i] # O[1] PROVE O[i] \in Range(P)
      BY <1>2 DEF Range
    <2>1. i - 1 \in DOMAIN P /\ P[i - 1] = O[(i - 1) + 1] /\ (i - 1) + 1 = i
      BY <1>1, <1>2, <1>4
    <2> QED
      BY <2>1 DEF Range
  <1>10. Head(O) \in Range(O)
    BY <1>3, <1>7 DEF Range
  <1> QED
    BY <1>1, <1>3, <1>6, <1>8, <1>9, <1>10 DEF P, n
-----------------------------------------------------------------------------
(* Facts about the constants *)

LEMMA Sizes ==
    /\ Cardinality(Call) \in Nat /\ PoolSize \in Nat \ {0} /\ MaxLost \in Nat
    /\ Conn = 1 .. PoolSize + Cardinality(Call)
    /\ None \notin Conn
    /\ \A t \in Call : QueryOf[t] \in Query
  BY ExecutorAssumption, FS_CardinalityType DEF Conn

LEMMA SomeCalls ==
    ASSUME NEW T \in SUBSET Call
    PROVE  IsFiniteSet(T) /\ Cardinality(T) \in Nat /\ Cardinality(T) <= Cardinality(Call)
  <1>1. IsFiniteSet(T) /\ Cardinality(T) <= Cardinality(Call)
    BY ExecutorAssumption, FS_Subset
  <1> QED
    BY <1>1, FS_CardinalityType
-----------------------------------------------------------------------------
(* Steps that leave the pool alone *)

\* A call goes on from one place to another with the connection it has.
LEMMA PoolStays ==
    ASSUME PoolInv, UNCHANGED <<pool, conn>>, Unfinished' = Unfinished,
           phase = "closed" => phase' = "closed"
    PROVE  PoolInv'
  <1>1. Held' = Held /\ Holding' = Holding
    BY DEF Held, Holding
  <1>2. QueueOK'
    BY DEF pool, PoolInv, QueueOK
  <1>3. HeldOK'
    BY <1>1 DEF pool, PoolInv, HeldOK
  <1> QED
    BY <1>2, <1>3 DEF PoolInv

LEMMA GotoFacts ==
    ASSUME CallsOK, NEW t \in Call, NEW from \in Stages, NEW to \in Stages, Goto(t, from, to)
    PROVE  /\ pc[t] = from /\ pc' \in [Call -> Stages] /\ pc'[t] = to
           /\ \A u \in Call \ {t} : pc'[u] = pc[u]
           /\ from # "done" /\ to # "done" => Unfinished' = Unfinished
           /\ from # "done" /\ to = "done" => Unfinished' = Unfinished \ {t} /\ t \in Unfinished
  BY DEF CallsOK, Goto, Unfinished

\* What one call does before or after its statements.
LEMMA WalkInv ==
    ASSUME ExecutorInv, NEW t \in Call, Execute(t) \/ RegisterCall(t) \/ Unregister(t)
    PROVE  ExecutorInv'
  <1>1. CASE Execute(t)
    <2>1. Goto(t, "idle", "waiting") /\ phase' = phase
          /\ UNCHANGED <<pool, active, conn, outcome, flag, files, eventLoop>>
      BY <1>1 DEF Execute, eventLoop
    <2>2. /\ pc[t] = "idle" /\ pc' \in [Call -> Stages] /\ pc'[t] = "waiting"
          /\ \A u \in Call \ {t} : pc'[u] = pc[u]
          /\ Unfinished' = Unfinished
      BY <2>1, GotoFacts DEF ExecutorInv, Stages
    <2>3. CallsOK'
      BY <2>1, <2>2 DEF ExecutorInv, CallsOK, Without, Ended
    <2>4. PoolInv'
      BY <2>1, <2>2, PoolStays DEF ExecutorInv
    <2>5. ActiveOK'
      BY <2>1, <2>2 DEF ExecutorInv, ActiveOK, Registered
    <2>6. FilesOK'
      BY <2>1, <2>2 DEF ExecutorInv, FilesOK
    <2>7. LoopOK'
      BY <2>1 DEF ExecutorInv, LoopOK, eventLoop
    <2> QED
      BY <2>3, <2>4, <2>5, <2>6, <2>7 DEF ExecutorInv
  <1>2. CASE RegisterCall(t)
    <2>1. Goto(t, "acquired", "registered") /\ phase' = phase
          /\ active' = [active EXCEPT ![QueryOf[t]] = conn[t]]
          /\ UNCHANGED <<pool, conn, outcome, flag, files, eventLoop>>
      BY <1>2 DEF RegisterCall, eventLoop
    <2>2. /\ pc[t] = "acquired" /\ pc' \in [Call -> Stages] /\ pc'[t] = "registered"
          /\ \A u \in Call \ {t} : pc'[u] = pc[u]
          /\ Unfinished' = Unfinished
      BY <2>1, GotoFacts DEF ExecutorInv, Stages
    <2>3. CallsOK'
      BY <2>1, <2>2 DEF ExecutorInv, CallsOK, Without, Ended
    <2>4. PoolInv'
      BY <2>1, <2>2, PoolStays DEF ExecutorInv
    <2>5. ActiveOK'
      BY <2>1, <2>2, Sizes DEF ExecutorInv, CallsOK, ActiveOK, Registered
    <2>6. FilesOK'
      BY <2>1, <2>2 DEF ExecutorInv, FilesOK
    <2>7. LoopOK'
      BY <2>1 DEF ExecutorInv, LoopOK, eventLoop
    <2> QED
      BY <2>3, <2>4, <2>5, <2>6, <2>7 DEF ExecutorInv
  <1>3. CASE Unregister(t)
    <2>1. Goto(t, "leaving", "releasing") /\ phase' = phase
          /\ active' = [active EXCEPT ![QueryOf[t]] = None]
          /\ UNCHANGED <<pool, conn, outcome, flag, files, eventLoop>>
      BY <1>3 DEF Unregister, eventLoop
    <2>2. /\ pc[t] = "leaving" /\ pc' \in [Call -> Stages] /\ pc'[t] = "releasing"
          /\ \A u \in Call \ {t} : pc'[u] = pc[u]
          /\ Unfinished' = Unfinished
      BY <2>1, GotoFacts DEF ExecutorInv, Stages
    <2>3. CallsOK'
      BY <2>1, <2>2 DEF ExecutorInv, CallsOK, Without, Ended
    <2>4. PoolInv'
      BY <2>1, <2>2, PoolStays DEF ExecutorInv
    <2>5. ActiveOK'
      BY <2>1, <2>2, Sizes DEF ExecutorInv, ActiveOK, Registered
    <2>6. FilesOK'
      BY <2>1, <2>2 DEF ExecutorInv, FilesOK
    <2>7. LoopOK'
      BY <2>1 DEF ExecutorInv, LoopOK, eventLoop
    <2> QED
      BY <2>3, <2>4, <2>5, <2>6, <2>7 DEF ExecutorInv
  <1> QED
    BY <1>1, <1>2, <1>3

LEMMA StartInv ==
    ASSUME ExecutorInv, NEW t \in Call, StartStatement(t)
    PROVE  ExecutorInv'
  <1>1. /\ UNCHANGED <<pool, active, conn, outcome, files, eventLoop>> /\ phase' = phase
        /\ flag' = [flag EXCEPT ![conn[t]] = FALSE]
    BY DEF StartStatement, eventLoop
  <1>2. PICK from \in {"registered", "copied"}, to \in {"copying", "running", "counting"} :
          /\ Goto(t, from, to)
          /\ to = "running" => QueryOf[t] \notin Returning
          /\ from = "copied" => to = "counting"
          /\ from = "registered" => to # "counting"
    BY DEF StartStatement
  <1>3. /\ pc[t] = from /\ pc' \in [Call -> Stages] /\ pc'[t] = to
        /\ \A u \in Call \ {t} : pc'[u] = pc[u]
        /\ Unfinished' = Unfinished
    BY <1>2, GotoFacts DEF ExecutorInv, Stages
  <1>4. CallsOK'
    BY <1>1, <1>2, <1>3 DEF ExecutorInv, CallsOK, Without, Ended
  <1>5. PoolInv'
    BY <1>1, <1>3, PoolStays DEF ExecutorInv
  <1>6. ActiveOK'
    BY <1>1, <1>2, <1>3 DEF ExecutorInv, ActiveOK, Registered
  <1>7. FilesOK'
    BY <1>1, <1>2, <1>3 DEF ExecutorInv, FilesOK
  <1>8. LoopOK'
    BY <1>1 DEF ExecutorInv, LoopOK, eventLoop
  <1> QED
    BY <1>4, <1>5, <1>6, <1>7, <1>8 DEF ExecutorInv

\* A statement ends well.
LEMMA EndsInv ==
    ASSUME ExecutorInv, NEW t \in Call, CopyEnds(t) \/ QueryEnds(t)
    PROVE  ExecutorInv'
  <1>1. CASE CopyEnds(t)
    <2>1. Goto(t, "copying", "copied") /\ files' = files \cup {QueryOf[t]} /\ phase' = phase
          /\ UNCHANGED <<pool, active, conn, outcome, flag, eventLoop>>
      BY <1>1 DEF CopyEnds, eventLoop
    <2>2. /\ pc[t] = "copying" /\ pc' \in [Call -> Stages] /\ pc'[t] = "copied"
          /\ \A u \in Call \ {t} : pc'[u] = pc[u]
          /\ Unfinished' = Unfinished
      BY <2>1, GotoFacts DEF ExecutorInv, Stages
    <2>3. CallsOK'
      BY <2>1, <2>2 DEF ExecutorInv, CallsOK, Without, Ended
    <2>4. PoolInv'
      BY <2>1, <2>2, PoolStays DEF ExecutorInv
    <2>5. ActiveOK'
      BY <2>1, <2>2 DEF ExecutorInv, ActiveOK, Registered
    <2>6. FilesOK'
      BY <2>1, <2>2, Sizes DEF ExecutorInv, FilesOK
    <2>7. LoopOK'
      BY <2>1 DEF ExecutorInv, LoopOK, eventLoop
    <2> QED
      BY <2>3, <2>4, <2>5, <2>6, <2>7 DEF ExecutorInv
  <1>2. CASE QueryEnds(t)
    <2>1. /\ outcome' = [outcome EXCEPT ![t] = "completed"] /\ phase' = phase
          /\ UNCHANGED <<pool, active, conn, flag, files, eventLoop>>
      BY <1>2 DEF QueryEnds, eventLoop
    <2>2. PICK from \in {"running", "counting"} :
            /\ Goto(t, from, "leaving")
            /\ from = "counting" => QueryOf[t] \in files
      BY <1>2 DEF QueryEnds
    <2>3. /\ pc[t] = from /\ pc' \in [Call -> Stages] /\ pc'[t] = "leaving"
          /\ \A u \in Call \ {t} : pc'[u] = pc[u]
          /\ Unfinished' = Unfinished
      BY <2>2, GotoFacts DEF ExecutorInv, Stages
    <2>4. CallsOK'
      BY <2>1, <2>2, <2>3 DEF ExecutorInv, CallsOK, Without, Ended
    <2>5. PoolInv'
      BY <2>1, <2>3, PoolStays DEF ExecutorInv
    <2>6. ActiveOK'
      BY <2>1, <2>2, <2>3 DEF ExecutorInv, ActiveOK, Registered
    <2>7. FilesOK'
      <3>1. /\ outcome'[t] = "completed" /\ \A u \in Call \ {t} : outcome'[u] = outcome[u]
            /\ QueryOf[t] \in Returning => QueryOf[t] \in files
        BY <2>1, <2>2, <2>3 DEF ExecutorInv, CallsOK
      <3> QED
        BY <2>1, <2>3, <3>1 DEF ExecutorInv, FilesOK
    <2>8. LoopOK'
      BY <2>1 DEF ExecutorInv, LoopOK, eventLoop
    <2> QED
      BY <2>4, <2>5, <2>6, <2>7, <2>8 DEF ExecutorInv
  <1> QED
    BY <1>1, <1>2

\* A statement raises, and the handler removes the file.
LEMMA RaisesInv ==
    ASSUME ExecutorInv, NEW t \in Call, StatementRaises(t) \/ RemoveResult(t)
    PROVE  ExecutorInv'
  <1>1. CASE StatementRaises(t)
    <2>1. /\ pc[t] \in {"copying", "counting", "running", "registered", "copied"}
          /\ pc' = [pc EXCEPT ![t] = "raised"] /\ phase' = phase
          /\ files' = files \/ files' = files \cup {QueryOf[t]}
          /\ UNCHANGED <<pool, active, conn, flag, eventLoop>>
      BY <1>1 DEF StatementRaises, eventLoop
    <2>2. PICK o \in {"cancelled", "failed"} : outcome' = [outcome EXCEPT ![t] = o]
      BY <1>1 DEF StatementRaises
    <2>3. /\ pc' \in [Call -> Stages] /\ pc'[t] = "raised"
          /\ \A u \in Call \ {t} : pc'[u] = pc[u]
          /\ Unfinished' = Unfinished
      BY <2>1 DEF ExecutorInv, CallsOK, Stages, Unfinished
    <2>4. CallsOK'
      BY <2>1, <2>2, <2>3 DEF ExecutorInv, CallsOK, Without, Ended
    <2>5. PoolInv'
      BY <2>1, <2>3, PoolStays DEF ExecutorInv
    <2>6. ActiveOK'
      BY <2>1, <2>3 DEF ExecutorInv, ActiveOK, Registered
    <2>7. FilesOK'
      <3>1. outcome'[t] = o /\ \A u \in Call \ {t} : outcome'[u] = outcome[u]
        BY <2>2 DEF ExecutorInv, CallsOK
      <3> QED
        BY <2>1, <2>3, <3>1, Sizes DEF ExecutorInv, FilesOK
    <2>8. LoopOK'
      BY <2>1 DEF ExecutorInv, LoopOK, eventLoop
    <2> QED
      BY <2>4, <2>5, <2>6, <2>7, <2>8 DEF ExecutorInv
  <1>2. CASE RemoveResult(t)
    <2>1. Goto(t, "raised", "leaving") /\ files' = files \ {QueryOf[t]} /\ phase' = phase
          /\ UNCHANGED <<pool, active, conn, outcome, flag, eventLoop>>
      BY <1>2 DEF RemoveResult, eventLoop
    <2>2. /\ pc[t] = "raised" /\ pc' \in [Call -> Stages] /\ pc'[t] = "leaving"
          /\ \A u \in Call \ {t} : pc'[u] = pc[u]
          /\ Unfinished' = Unfinished
      BY <2>1, GotoFacts DEF ExecutorInv, Stages
    <2>3. CallsOK'
      BY <2>1, <2>2 DEF ExecutorInv, CallsOK, Without, Ended
    <2>4. PoolInv'
      BY <2>1, <2>2, PoolStays DEF ExecutorInv
    <2>5. ActiveOK'
      BY <2>1, <2>2 DEF ExecutorInv, ActiveOK, Registered
    <2>6. FilesOK'
      <3>1. outcome[t] \in {"cancelled", "failed"}
        BY <2>2 DEF ExecutorInv, CallsOK
      <3> QED
        BY <2>1, <2>2, <3>1 DEF ExecutorInv, FilesOK
    <2>7. LoopOK'
      BY <2>1 DEF ExecutorInv, LoopOK, eventLoop
    <2> QED
      BY <2>3, <2>4, <2>5, <2>6, <2>7 DEF ExecutorInv
  <1> QED
    BY <1>1, <1>2
-----------------------------------------------------------------------------
(* Steps that change the pool *)

\* The first idle connection goes to one call.
LEMMA AcquireInv ==
    ASSUME ExecutorInv, NEW t \in Call, Acquire(t)
    PROVE  ExecutorInv'
  <1> DEFINE c == Head(available)
  <1>1. /\ Goto(t, "waiting", "acquired") /\ available # <<>>
        /\ conn' = [conn EXCEPT ![t] = c] /\ available' = Tail(available)
        /\ UNCHANGED <<active, outcome, flag, files, opened, closed, lost, loop, phase>>
    BY DEF Acquire, eventLoop
  <1>2. /\ pc[t] = "waiting" /\ pc' \in [Call -> Stages] /\ pc'[t] = "acquired"
        /\ \A u \in Call \ {t} : pc'[u] = pc[u]
        /\ Unfinished' = Unfinished
    BY <1>1, GotoFacts DEF ExecutorInv, Stages
  <1>3. /\ c \in Range(available) /\ c \in Conn
        /\ available' \in Seq(Conn) /\ IsInjective(available')
        /\ Range(available') = Range(available) \ {c}
        /\ Len(available') = Len(available) - 1 /\ Len(available) \in Nat
    BY <1>1, TailOK, LenProperties DEF ExecutorInv, PoolInv, QueueOK
  <1> HIDE DEF c
  <1>4. conn[t] = None /\ c # None
    BY <1>2, <1>3, Sizes DEF ExecutorInv, CallsOK, Without
  <1>5. conn' \in [Call -> Conn \cup {None}] /\ conn'[t] = c /\ \A u \in Call \ {t} : conn'[u] = conn[u]
    BY <1>1, <1>3 DEF ExecutorInv, CallsOK
  <1>6. CallsOK'
    BY <1>1, <1>2, <1>4, <1>5 DEF ExecutorInv, CallsOK, Without, Ended
  <1>7. QueueOK'
    BY <1>1, <1>2, <1>3 DEF ExecutorInv, PoolInv, QueueOK
  <1>8. Holding' = Holding \cup {t} /\ t \notin Holding
    BY <1>4, <1>5 DEF Holding
  <1>9. Held' = Held \cup {c}
    BY <1>5, <1>8 DEF Held, Holding
  <1>10. Cardinality(Holding') = Cardinality(Holding) + 1 /\ Cardinality(Holding) \in Nat
    BY <1>8, SomeCalls, FS_AddElement DEF Holding
  <1>11. HeldOK'
    <2>1. Held' \subseteq 1 .. opened'
      BY <1>1, <1>3, <1>9 DEF ExecutorInv, PoolInv, QueueOK, HeldOK
    <2>2. \A v \in Holding : conn[v] # c
      BY <1>3 DEF ExecutorInv, PoolInv, HeldOK, Held
    <2>3. \A v, u \in Holding' : conn'[v] = conn'[u] => v = u
      BY <1>5, <1>8, <2>2 DEF ExecutorInv, PoolInv, HeldOK, Holding
    <2>4. Range(available') \cap Held' = {}
      BY <1>3, <1>9 DEF ExecutorInv, PoolInv, HeldOK
    <2>5. ASSUME phase' # "closed"
          PROVE  /\ Len(available') + Cardinality(Holding') + lost' = PoolSize
                 /\ (Range(available') \cup Held') \cap closed' = {}
      <3>1. /\ Len(available) + Cardinality(Holding) + lost = PoolSize
            /\ (Range(available) \cup Held) \cap closed = {} /\ lost \in Nat
        BY <1>1, <2>5, Sizes DEF ExecutorInv, PoolInv, QueueOK, HeldOK
      <3>2. Len(available') + Cardinality(Holding') + lost' = PoolSize
        BY <1>1, <1>3, <1>10, <3>1, Sizes
      <3>3. (Range(available') \cup Held') \cap closed' = {}
        BY <1>1, <1>3, <1>9, <3>1
      <3> QED
        BY <3>2, <3>3
    <2> QED
      BY <2>1, <2>3, <2>4, <2>5 DEF HeldOK
  <1>12. ActiveOK'
    <2>1. \A u \in Call : pc[u] \in Registered => u # t /\ pc'[u] = pc[u] /\ conn'[u] = conn[u]
      BY <1>2, <1>5 DEF Registered
    <2> QED
      BY <1>1, <2>1 DEF ExecutorInv, ActiveOK
  <1>13. FilesOK'
    BY <1>1, <1>2 DEF ExecutorInv, FilesOK
  <1>14. LoopOK'
    BY <1>1 DEF ExecutorInv, LoopOK
  <1> QED
    BY <1>6, <1>7, <1>11, <1>12, <1>13, <1>14 DEF ExecutorInv, PoolInv

\* What comes back: the connection of t, the next one to be opened, or none.
Returned(t) ==
    \/ available' = Append(available, conn[t]) /\ UNCHANGED <<opened, closed, lost>>
    \/ /\ available' = Append(available, opened + 1) /\ opened' = opened + 1
       /\ closed' = closed \cup {conn[t]} /\ UNCHANGED lost
    \/ /\ lost < MaxLost /\ lost' = lost + 1 /\ closed' = closed \cup {conn[t]}
       /\ UNCHANGED <<available, opened>>

\* With one call less to come, there is room for one more connection.
LEMMA ReturnedFits ==
    ASSUME CallsOK, PoolInv, NEW t \in Holding, Returned(t), t \in Unfinished,
           Unfinished' = Unfinished \ {t}, Holding' = Holding \ {t},
           Held' = Held \ {conn[t]}, \A u \in Holding' : conn'[u] = conn[u], phase' = phase
    PROVE  PoolInv'
  <1> DEFINE c == conn[t]
  <1>1. /\ c \in Held /\ c \in Conn /\ c \in 1 .. opened /\ c \notin Range(available)
        /\ t \in Call /\ opened \in Nat
    BY Sizes DEF Holding, Held, CallsOK, PoolInv, QueueOK, HeldOK
  <1>2. Cardinality(Unfinished') = Cardinality(Unfinished) - 1 /\ Cardinality(Unfinished) \in Nat
    BY SomeCalls, FS_RemoveElement DEF Unfinished
  <1>3. Cardinality(Holding') = Cardinality(Holding) - 1 /\ Cardinality(Holding) \in Nat
    BY SomeCalls, FS_RemoveElement DEF Holding
  <1>4. /\ \A v, u \in Holding' : conn'[v] = conn'[u] => v = u
        /\ Held' \subseteq Held /\ Held \subseteq 1 .. opened
    BY DEF PoolInv, HeldOK
  <1>5. ASSUME phase' # "closed"
        PROVE  /\ Len(available) + Cardinality(Holding) + lost = PoolSize
               /\ (Range(available) \cup Held) \cap closed = {}
    BY <1>5 DEF PoolInv, HeldOK
  <1>6. Len(available) \in Nat /\ lost \in Nat /\ Cardinality(Call) \in Nat /\ PoolSize \in Nat
    BY LenProperties, Sizes DEF PoolInv, QueueOK
  <1> HIDE DEF c
  <1>7. CASE available' = Append(available, c) /\ UNCHANGED <<opened, closed, lost>>
    <2>1. /\ available' \in Seq(Conn) /\ IsInjective(available')
          /\ Range(available') = Range(available) \cup {c}
          /\ Len(available') = Len(available) + 1
      BY <1>1, <1>7, AppendOK DEF PoolInv, QueueOK
    <2>2. QueueOK'
      BY <1>1, <1>2, <1>6, <1>7, <2>1 DEF PoolInv, QueueOK
    <2>3. Range(available') \cap Held' = {}
      BY <2>1 DEF c, PoolInv, HeldOK
    <2>4. ASSUME phase' # "closed"
          PROVE  /\ Len(available') + Cardinality(Holding') + lost' = PoolSize
                 /\ (Range(available') \cup Held') \cap closed' = {}
      BY <1>1, <1>3, <1>4, <1>5, <1>6, <1>7, <2>1, <2>4
    <2>5. HeldOK'
      BY <1>4, <1>7, <2>3, <2>4 DEF HeldOK
    <2> QED
      BY <2>2, <2>5 DEF PoolInv
  <1>8. CASE /\ available' = Append(available, opened + 1) /\ opened' = opened + 1
             /\ closed' = closed \cup {c} /\ UNCHANGED lost
    <2>1. opened + 1 \in Conn
      <3>1. t \in Unfinished /\ Cardinality(Unfinished) >= 1
        BY <1>2, SomeCalls DEF Unfinished
      <3> QED
        BY <1>1, <1>2, <1>6, <3>1, Sizes DEF PoolInv, QueueOK
    <2>2. opened + 1 \notin Range(available) /\ opened + 1 \notin Held /\ opened + 1 # c
          /\ opened + 1 \notin closed
      BY <1>1, <1>4 DEF PoolInv, QueueOK
    <2>3. /\ available' \in Seq(Conn) /\ IsInjective(available')
          /\ Range(available') = Range(available) \cup {opened + 1}
          /\ Len(available') = Len(available) + 1
      BY <1>8, <2>1, <2>2, AppendOK DEF PoolInv, QueueOK
    <2>4. 1 .. opened \subseteq 1 .. opened + 1 /\ opened + 1 \in 1 .. opened + 1
      BY <1>1
    <2>5. QueueOK'
      <3>1. /\ available' \in Seq(Conn) /\ IsInjective(available')
            /\ opened' \in Conn /\ lost' \in 0 .. MaxLost
        BY <1>8, <2>1, <2>3 DEF PoolInv, QueueOK
      <3>2. Range(available') \subseteq 1 .. opened' /\ closed' \subseteq 1 .. opened'
        BY <1>1, <1>8, <2>3, <2>4 DEF PoolInv, QueueOK
      <3>3. opened' + Cardinality(Unfinished') <= PoolSize + Cardinality(Call)
        BY <1>1, <1>2, <1>6, <1>8 DEF PoolInv, QueueOK
      <3> QED
        BY <3>1, <3>2, <3>3 DEF QueueOK
    <2>6. Range(available') \cap Held' = {}
      BY <2>2, <2>3 DEF PoolInv, HeldOK
    <2>7. ASSUME phase' # "closed"
          PROVE  /\ Len(available') + Cardinality(Holding') + lost' = PoolSize
                 /\ (Range(available') \cup Held') \cap closed' = {}
      <3>1. Len(available') + Cardinality(Holding') + lost' = PoolSize
        BY <1>3, <1>5, <1>6, <1>8, <2>3, <2>7
      <3>2. (Range(available') \cup Held') \cap closed' = {}
        BY <1>1, <1>5, <1>8, <2>2, <2>3, <2>7 DEF c
      <3> QED
        BY <3>1, <3>2
    <2>8. HeldOK'
      BY <1>4, <1>8, <2>4, <2>6, <2>7 DEF HeldOK
    <2> QED
      BY <2>5, <2>8 DEF PoolInv
  <1>9. CASE /\ lost < MaxLost /\ lost' = lost + 1 /\ closed' = closed \cup {c}
             /\ UNCHANGED <<available, opened>>
    <2>1. QueueOK'
      BY <1>1, <1>2, <1>6, <1>9, Sizes DEF PoolInv, QueueOK
    <2>2. ASSUME phase' # "closed"
          PROVE  /\ Len(available') + Cardinality(Holding') + lost' = PoolSize
                 /\ (Range(available') \cup Held') \cap closed' = {}
      <3>1. Len(available') + Cardinality(Holding') + lost' = PoolSize
        BY <1>3, <1>5, <1>6, <1>9, <2>2
      <3>2. (Range(available') \cup Held') \cap closed' = {}
        BY <1>1, <1>5, <1>9, <2>2 DEF c
      <3> QED
        BY <3>1, <3>2
    <2>3. HeldOK'
      BY <1>4, <1>9, <2>2 DEF PoolInv, HeldOK
    <2> QED
      BY <2>1, <2>3 DEF PoolInv
  <1> QED
    BY <1>7, <1>8, <1>9 DEF Returned, c

LEMMA ReleaseInv ==
    ASSUME ExecutorInv, NEW t \in Call, Release(t)
    PROVE  ExecutorInv'
  <1>1. /\ Goto(t, "releasing", "done") /\ conn' = [conn EXCEPT ![t] = None]
        /\ UNCHANGED <<active, flag, files, loop, phase>> /\ Returned(t)
    BY DEF Release, ReleaseSame, ReleaseFresh, ReleaseNone, Returned, eventLoop
  <1>2. /\ pc[t] = "releasing" /\ pc' \in [Call -> Stages] /\ pc'[t] = "done"
        /\ \A u \in Call \ {t} : pc'[u] = pc[u]
        /\ Unfinished' = Unfinished \ {t} /\ t \in Unfinished
    BY <1>1, GotoFacts DEF ExecutorInv, Stages
  <1>3. /\ outcome' \in [Call -> {"none", "completed", "cancelled", "failed"}]
        /\ \A u \in Call \ {t} : outcome'[u] = outcome[u]
        /\ outcome'[t] = outcome[t] \/ (outcome[t] = "cancelled" /\ outcome'[t] = "failed")
    BY DEF Release, ReleaseSame, ReleaseFresh, ReleaseNone, ExecutorInv, CallsOK
  <1>4. conn' \in [Call -> Conn \cup {None}] /\ conn'[t] = None /\ \A u \in Call \ {t} : conn'[u] = conn[u]
    BY <1>1 DEF ExecutorInv, CallsOK
  <1>5. CallsOK'
    BY <1>2, <1>3, <1>4 DEF ExecutorInv, CallsOK, Without, Ended
  <1>6. t \in Holding /\ Holding' = Holding \ {t}
    BY <1>2, <1>4 DEF ExecutorInv, CallsOK, Without, Holding
  <1>7. \A u \in Holding' : conn'[u] = conn[u]
    BY <1>4, <1>6 DEF Holding
  <1>8. Held' = Held \ {conn[t]}
    <2>1. Held' = {conn[u] : u \in Holding \ {t}}
      BY <1>6, <1>7 DEF Held
    <2>2. \A u \in Holding : conn[u] = conn[t] <=> u = t
      BY <1>6 DEF ExecutorInv, PoolInv, HeldOK
    <2>3. Held = {conn[u] : u \in Holding}
      BY DEF Held
    <2> QED
      BY <1>6, <2>1, <2>2, <2>3
  <1>9. PoolInv'
    BY <1>1, <1>2, <1>6, <1>7, <1>8, ReturnedFits DEF ExecutorInv
  <1>10. ActiveOK'
    <2>1. \A u \in Call : pc[u] \in Registered => u # t /\ pc'[u] = pc[u] /\ conn'[u] = conn[u]
      BY <1>2, <1>4 DEF Registered
    <2> QED
      BY <1>1, <2>1 DEF ExecutorInv, ActiveOK
  <1>11. FilesOK'
    BY <1>1, <1>2, <1>3 DEF ExecutorInv, FilesOK
  <1>12. LoopOK'
    BY <1>1 DEF ExecutorInv, LoopOK
  <1> QED
    BY <1>5, <1>9, <1>10, <1>11, <1>12 DEF ExecutorInv

\* Closing takes the idle connections, and whatever calls hold is theirs.
LEMMA CloseInv ==
    ASSUME ExecutorInv, Close
    PROVE  ExecutorInv'
  <1>1. /\ phase = "stopping" /\ phase' = "closed"
        /\ closed' = closed \cup Range(available) \cup (Range(active) \ {None})
        /\ available' = <<>> /\ active' = [q \in Query |-> None]
        /\ UNCHANGED <<pc, conn, outcome, flag, files, opened, lost, loop>>
    BY DEF Close
  <1>2. Held' = Held /\ Holding' = Holding /\ Unfinished' = Unfinished
    BY <1>1 DEF Held, Holding, Unfinished
  <1>3. Range(active) \ {None} \subseteq Held
    <2> SUFFICES ASSUME NEW q \in Query, active[q] # None PROVE active[q] \in Held
      BY DEF ExecutorInv, ActiveOK, Range
    <2>1. PICK t \in Call : pc[t] \in Registered /\ conn[t] = active[q]
      BY DEF ExecutorInv, ActiveOK
    <2> QED
      BY <2>1 DEF Held, Holding
  <1>4. <<>> \in Seq(Conn) /\ Len(<<>>) = 0 /\ DOMAIN <<>> = 1 .. Len(<<>>)
    BY EmptySeq, LenProperties
  <1>5. Range(<<>>) = {} /\ IsInjective(<<>>)
    BY <1>4 DEF Range, IsInjective
  <1>6. QueueOK'
    BY <1>1, <1>2, <1>3, <1>4, <1>5 DEF ExecutorInv, PoolInv, QueueOK, HeldOK
  <1>7. HeldOK'
    BY <1>1, <1>2, <1>5 DEF ExecutorInv, PoolInv, HeldOK
  <1>8. CallsOK'
    BY <1>1 DEF ExecutorInv, CallsOK
  <1>9. ActiveOK'
    BY <1>1 DEF ActiveOK
  <1>10. FilesOK' /\ LoopOK'
    BY <1>1 DEF ExecutorInv, FilesOK, LoopOK
  <1> QED
    BY <1>6, <1>7, <1>8, <1>9, <1>10 DEF ExecutorInv, PoolInv

\* The event loop changes no call and no connection but its flag.
LEMMA LoopInv ==
    ASSUME ExecutorInv,
           CancelAll \/ Interrupt \/ \E q \in Query : CancelRequest(q) \/ LookUp(q)
    PROVE  ExecutorInv'
  <1>1. UNCHANGED <<pool, active, pc, conn, outcome, files>>
    BY DEF CancelAll, Interrupt, CancelRequest, LookUp
  <1>2. phase' = phase \/ (phase = "serving" /\ phase' = "stopping")
    BY DEF CancelAll, Interrupt, CancelRequest, LookUp
  <1>3. Unfinished' = Unfinished
    BY <1>1 DEF Unfinished
  <1>4. PoolInv'
    BY <1>1, <1>2, <1>3, PoolStays DEF ExecutorInv
  <1>5. LoopOK'
    <2>1. flag' \in [Conn -> BOOLEAN]
      BY DEF ExecutorInv, LoopOK, CancelAll, Interrupt, CancelRequest, LookUp
    <2>2. loop' \in [todo : SUBSET Query, conn : Conn \cup {None}]
      <3>1. CASE CancelAll
        BY <3>1 DEF ExecutorInv, LoopOK, CancelAll
      <3>2. CASE Interrupt
        BY <3>2 DEF ExecutorInv, LoopOK, Interrupt, Idle
      <3>3. ASSUME NEW q \in Query, CancelRequest(q)
            PROVE  loop' \in [todo : SUBSET Query, conn : Conn \cup {None}]
        BY <3>3 DEF ExecutorInv, LoopOK, CancelRequest
      <3>4. ASSUME NEW q \in Query, LookUp(q)
            PROVE  loop' \in [todo : SUBSET Query, conn : Conn \cup {None}]
        BY <3>4 DEF ExecutorInv, LoopOK, ActiveOK, LookUp
      <3> QED
        BY <3>1, <3>2, <3>3, <3>4
    <2> QED
      BY <1>2, <2>1, <2>2 DEF ExecutorInv, LoopOK
  <1>6. CallsOK' /\ ActiveOK' /\ FilesOK'
    BY <1>1 DEF ExecutorInv, CallsOK, ActiveOK, FilesOK
  <1> QED
    BY <1>4, <1>5, <1>6 DEF ExecutorInv
-----------------------------------------------------------------------------
(* The invariant *)

\* The warm pool: the connections from 1 to PoolSize.
LEMMA WarmPool ==
    ASSUME Init
    PROVE  /\ available \in Seq(Conn) /\ IsInjective(available)
           /\ Range(available) = 1 .. PoolSize /\ Len(available) = PoolSize
           /\ 1 .. PoolSize \subseteq Conn
  <1>1. PoolSize \in Nat \ {0} /\ 1 .. PoolSize \subseteq Conn
    BY Sizes
  <1>2. available = [i \in 1 .. PoolSize |-> i]
    BY DEF Init
  <1>3. available \in [1 .. PoolSize -> Conn]
    BY <1>1, <1>2
  <1>4. available \in Seq(Conn)
    BY <1>1, <1>3, SeqDef
  <1>5. Len(available) = PoolSize
    BY <1>1, <1>2
  <1> QED
    BY <1>1, <1>2, <1>4, <1>5 DEF IsInjective, Range

LEMMA ExecutorInitInv == Init => ExecutorInv
  <1> SUFFICES ASSUME Init PROVE ExecutorInv
    OBVIOUS
  <1>1. /\ active = [q \in Query |-> None] /\ pc = [t \in Call |-> "idle"]
        /\ conn = [t \in Call |-> None] /\ outcome = [t \in Call |-> "none"]
        /\ flag = [c \in Conn |-> FALSE] /\ files = {}
        /\ opened = PoolSize /\ closed = {} /\ lost = 0 /\ loop = Idle /\ phase = "serving"
    BY DEF Init
  <1>2. Unfinished = Call /\ Holding = {} /\ Held = {}
    BY <1>1 DEF Unfinished, Holding, Held
  <1>3. CallsOK
    BY <1>1 DEF CallsOK, Stages, Without, Ended
  <1>4. QueueOK
    BY <1>1, <1>2, WarmPool, Sizes DEF QueueOK
  <1>5. HeldOK
    <2>1. Cardinality(Holding) = 0
      BY <1>2, FS_EmptySet
    <2> QED
      BY <1>1, <1>2, <2>1, WarmPool, Sizes DEF HeldOK
  <1>6. ActiveOK /\ FilesOK
    BY <1>1 DEF ActiveOK, FilesOK
  <1>7. LoopOK
    BY <1>1 DEF LoopOK, Idle
  <1> QED
    BY <1>3, <1>4, <1>5, <1>6, <1>7 DEF ExecutorInv, PoolInv

LEMMA ExecutorNextInv == ExecutorInv /\ [Next]_vars => ExecutorInv'
  <1> SUFFICES ASSUME ExecutorInv, [Next]_vars PROVE ExecutorInv'
    OBVIOUS
  <1>1. ASSUME NEW t \in Call, Execute(t) \/ CallStep(t)
        PROVE  ExecutorInv'
    BY <1>1, WalkInv, AcquireInv, StartInv, EndsInv, RaisesInv, ReleaseInv DEF CallStep
  <1>2. CASE CancelAll \/ Interrupt \/ \E q \in Query : CancelRequest(q) \/ LookUp(q)
    BY <1>2, LoopInv
  <1>3. CASE Close
    BY <1>3, CloseInv
  <1>4. CASE UNCHANGED vars
    <2>1. /\ UNCHANGED <<pool, active, pc, conn, outcome, files>>
          /\ UNCHANGED <<flag, loop, phase>>
      BY <1>4 DEF vars, pool
    <2>2. Unfinished' = Unfinished
      BY <2>1 DEF Unfinished
    <2>3. PoolInv'
      BY <2>1, <2>2, PoolStays DEF ExecutorInv
    <2> QED
      BY <2>1, <2>3 DEF ExecutorInv, CallsOK, ActiveOK, FilesOK, LoopOK
  <1> QED
    BY <1>1, <1>2, <1>3, <1>4 DEF Next

LEMMA ExecutorInvImplies ==
    ExecutorInv => TypeOK /\ PoolConserved /\ ActiveIsHeld /\ ResultMatchesOutcome
  <1> SUFFICES ASSUME ExecutorInv PROVE TypeOK /\ PoolConserved /\ ActiveIsHeld /\ ResultMatchesOutcome
    OBVIOUS
  <1>1. closed \subseteq Conn
    BY Sizes DEF ExecutorInv, PoolInv, QueueOK
  <1>2. TypeOK
    BY <1>1 DEF ExecutorInv, PoolInv, CallsOK, QueueOK, ActiveOK, FilesOK, LoopOK, TypeOK,
                Stages, Without, Ended
  <1>3. PoolConserved
    BY DEF ExecutorInv, PoolInv, QueueOK, HeldOK, PoolConserved
  <1>4. ActiveIsHeld
    BY DEF ExecutorInv, ActiveOK, ActiveIsHeld, Holding
  <1>5. ResultMatchesOutcome
    <2> SUFFICES ASSUME NEW q \in Returning, NEW t \in Call, QueryOf[t] = q,
                        \A u \in Call : QueryOf[u] = q => pc[u] = "done"
                 PROVE  /\ (\A u \in Call : QueryOf[u] = q => outcome[u] = "completed") => q \in files
                        /\ (\A u \in Call : QueryOf[u] = q => outcome[u] # "completed") => q \notin files
      BY DEF ResultMatchesOutcome
    <2> QED
      BY DEF ExecutorInv, FilesOK
  <1> QED
    BY <1>2, <1>3, <1>4, <1>5
-----------------------------------------------------------------------------
(* The pool *)

LEMMA HeldIsHeld == Pool!HeldByCalls = Held
  BY DEF Pool!HeldByCalls, Held, Holding

LEMMA PoolInits == Init => Pool!PoolInit
  <1> SUFFICES ASSUME Init PROVE Pool!PoolInit
    OBVIOUS
  <1>1. Range(available) = 1 .. PoolSize /\ 1 .. PoolSize \subseteq Conn
    BY WarmPool
  <1>2. Cardinality(1 .. PoolSize) = PoolSize
    BY Sizes, FS_Interval
  <1>3. Pool!Cardinality(1 .. PoolSize) = Cardinality(1 .. PoolSize)
    BY Zenon DEF Pool!Cardinality, Cardinality
  <1>4. conn = [t \in Call |-> None] /\ phase = "serving"
    BY DEF Init
  <1> QED
    BY <1>1, <1>2, <1>3, <1>4 DEF Pool!PoolInit

LEMMA PoolSteps == ExecutorInv /\ [Next]_vars => [Pool!PoolNext]_Pool!poolVars
  <1> SUFFICES ASSUME ExecutorInv, [Next]_vars
               PROVE  Pool!PoolNext \/ UNCHANGED Pool!poolVars
    OBVIOUS
  <1>1. ASSUME UNCHANGED <<available, conn>>, phase = "closed" <=> phase' = "closed"
        PROVE  UNCHANGED Pool!poolVars
    BY <1>1 DEF Pool!poolVars
  <1>2. ASSUME NEW t \in Call, Acquire(t) PROVE Pool!Take(t)
    <2>1. /\ Goto(t, "waiting", "acquired") /\ available # <<>> /\ phase' = phase
          /\ conn' = [conn EXCEPT ![t] = Head(available)] /\ available' = Tail(available)
      BY <1>2 DEF Acquire, eventLoop
    <2>2. Head(available) \in Range(available)
          /\ Range(available') = Range(available) \ {Head(available)}
      BY <2>1, TailOK DEF ExecutorInv, PoolInv, QueueOK
    <2>3. conn[t] = None
      BY <2>1 DEF Goto, ExecutorInv, CallsOK, Without
    <2> QED
      BY <2>1, <2>2, <2>3 DEF Pool!Take
  <1>3. ASSUME NEW t \in Call, Release(t) PROVE Pool!GiveBack(t)
    <2>1. /\ Goto(t, "releasing", "done") /\ conn' = [conn EXCEPT ![t] = None] /\ phase' = phase
          /\ Returned(t)
      BY <1>3 DEF Release, ReleaseSame, ReleaseFresh, ReleaseNone, Returned, eventLoop
    <2>2. conn[t] # None /\ conn[t] \in Conn
      BY <2>1 DEF Goto, ExecutorInv, CallsOK, Without
    <2>3. conn[t] \in Held /\ conn[t] \notin Range(available)
      BY <2>2 DEF ExecutorInv, PoolInv, HeldOK, Held, Holding
    <2>4. \/ \E c \in {conn[t]} \cup (Conn \ (Range(available) \cup Held)) :
               Range(available') = Range(available) \cup {c}
          \/ Range(available') = Range(available)
      <3>1. CASE available' = Append(available, conn[t])
        <4>1. Range(available') = Range(available) \cup {conn[t]}
          BY <2>2, <2>3, <3>1, AppendOK DEF ExecutorInv, PoolInv, QueueOK
        <4> QED
          BY <4>1
      <3>2. CASE available' = Append(available, opened + 1) /\ opened' = opened + 1
        <4>1. opened \in Nat /\ opened + 1 \notin 1 .. opened
          BY Sizes DEF ExecutorInv, PoolInv, QueueOK
        <4>2. opened + 1 \notin Range(available) /\ opened + 1 \notin Held
          BY <4>1 DEF ExecutorInv, PoolInv, QueueOK, HeldOK
        <4>3. opened + 1 \in Conn
          BY <1>3, <3>2, ReleaseInv DEF ExecutorInv, PoolInv, QueueOK
        <4>4. Range(available') = Range(available) \cup {opened + 1}
          BY <3>2, <4>2, <4>3, AppendOK DEF ExecutorInv, PoolInv, QueueOK
        <4> QED
          BY <4>2, <4>3, <4>4
      <3>3. CASE UNCHANGED available
        BY <3>3
      <3> QED
        BY <2>1, <3>1, <3>2, <3>3 DEF Returned
    <2> QED
      BY <2>1, <2>2, <2>4, HeldIsHeld DEF Pool!GiveBack
  <1>4. ASSUME Close PROVE Pool!Shut
    <2>1. phase = "stopping" /\ phase' = "closed" /\ available' = <<>> /\ conn' = conn
      BY <1>4 DEF Close
    <2>2. Range(<<>>) = {}
      <3>1. DOMAIN <<>> = {}
        OBVIOUS
      <3> QED
        BY <3>1 DEF Range
    <2> QED
      BY <2>1, <2>2 DEF Pool!Shut
  <1>5. ASSUME NEW t \in Call, Execute(t) \/ CallStep(t)
        PROVE  Pool!PoolNext \/ UNCHANGED Pool!poolVars
    <2>1. CASE Acquire(t) \/ Release(t)
      BY <1>2, <1>3, <2>1 DEF Pool!PoolNext
    <2>2. CASE ~(Acquire(t) \/ Release(t))
      <3>1. UNCHANGED <<available, conn, phase>>
        BY <1>5, <2>2 DEF CallStep, Execute, RegisterCall, StartStatement, CopyEnds, QueryEnds,
                          StatementRaises, RemoveResult, Unregister, pool, eventLoop
      <3> QED
        BY <1>1, <3>1
    <2> QED
      BY <2>1, <2>2
  <1>6. CASE CancelAll \/ Interrupt \/ \E q \in Query : CancelRequest(q) \/ LookUp(q)
    <2>1. UNCHANGED <<available, conn>> /\ (phase = "closed" <=> phase' = "closed")
      BY <1>6 DEF CancelAll, Interrupt, CancelRequest, LookUp, pool
    <2> QED
      BY <1>1, <2>1
  <1>7. CASE UNCHANGED vars
    BY <1>1, <1>7 DEF vars
  <1> QED
    BY <1>4, <1>5, <1>6, <1>7 DEF Next, Pool!PoolNext
-----------------------------------------------------------------------------
\* Queue, connections, calls, files and event loop hold what their code can put
\* there, and a call has a connection exactly between acquire and release.
THEOREM ExecutorTypeCorrect == Spec => []TypeOK
  <1>1. ExecutorInv => TypeOK
    BY ExecutorInvImplies
  <1> QED
    BY <1>1, ExecutorInitInv, ExecutorNextInv, PTL DEF Spec

\* However calls are interrupted and reconnects fail, no connection is shared or
\* leaked, and none that is closed is in use before the pool is closed.
THEOREM PoolIsConserved == Spec => []PoolConserved
  <1>1. ExecutorInv => PoolConserved
    BY ExecutorInvImplies
  <1> QED
    BY <1>1, ExecutorInitInv, ExecutorNextInv, PTL DEF Spec

\* What cancel() finds registered is held by a call of the very query.
THEOREM ActiveAreHeld == Spec => []ActiveIsHeld
  <1>1. ExecutorInv => ActiveIsHeld
    BY ExecutorInvImplies
  <1> QED
    BY <1>1, ExecutorInitInv, ExecutorNextInv, PTL DEF Spec

\* A result file is there if every call of its query completed, and gone if none
\* did.
THEOREM ResultsMatch == Spec => []ResultMatchesOutcome
  <1>1. ExecutorInv => ResultMatchesOutcome
    BY ExecutorInvImplies
  <1> QED
    BY <1>1, ExecutorInitInv, ExecutorNextInv, PTL DEF Spec

\* The queue and the threads' variables are a pool that gives every call a
\* connection of its own.
THEOREM ExecutorImplementsPool == Spec => ImplementsPool
  BY PoolInits, PoolSteps, ExecutorInitInv, ExecutorNextInv, PTL
     DEF Spec, ImplementsPool, Pool!PoolSpec
=============================================================================
