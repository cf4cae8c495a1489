--------------------------- MODULE ConnectionPool ---------------------------
(***************************************************************************)
(* What the pool of DuckDBExecutor promises to the calls of execute():      *)
(* each works on a connection that nobody else has, and gives that          *)
(* connection or a fresh one back, except when it cannot be reopened.       *)
(* Shutting the pool takes what is free, and nothing from a call.           *)
(***************************************************************************)
EXTENDS Naturals, FiniteSets

CONSTANTS
    Conn,       \* connections
    Call,       \* the calls that use them
    Size,       \* connections that are free at first
    None        \* no connection

VARIABLES
    free,       \* connections that a call may take
    held,       \* held[t]: the connection of call t, or None
    shut        \* the pool has been shut

poolVars == <<free, held, shut>>

HeldByCalls == {held[t] : t \in Call} \ {None}

PoolInit ==
    /\ free \in SUBSET Conn /\ Cardinality(free) = Size
    /\ held = [t \in Call |-> None]
    /\ shut = FALSE

Take(t) ==
    /\ held[t] = None
    /\ \E c \in free : held' = [held EXCEPT ![t] = c] /\ free' = free \ {c}
    /\ UNCHANGED shut

\* What comes back is the connection itself, one that nobody has, or nothing.
GiveBack(t) ==
    /\ held[t] # None
    /\ held' = [held EXCEPT ![t] = None]
    /\ \/ \E c \in {held[t]} \cup (Conn \ (free \cup HeldByCalls)) : free' = free \cup {c}
       \/ UNCHANGED free
    /\ UNCHANGED shut

Shut ==
    /\ ~shut
    /\ shut' = TRUE
    /\ free' = {}
    /\ UNCHANGED held

PoolNext == (\E t \in Call : Take(t) \/ GiveBack(t)) \/ Shut

PoolSpec == PoolInit /\ [][PoolNext]_poolVars
=============================================================================
