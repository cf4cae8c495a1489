----------------------------- MODULE MCExecutor -----------------------------
(* Small instances of Executor. *)
EXTENDS Executor, TLC

CONSTANTS q1, q2, t1, t2, t3

\* The coordinator dispatched q1 twice; q1 returns rows and q2 does not.
TwiceAndOnce == t1 :> q1 @@ t2 :> q1 @@ t3 :> q2

\* Each query is dispatched once.
OnceEach == t1 :> q1 @@ t2 :> q2
=============================================================================
