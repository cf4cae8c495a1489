---------------------------- MODULE ResultReader ----------------------------
(***************************************************************************)
(* The admin connection of DuckDBExecutor. Pages of results                 *)
(* (read_result_page) and the catalog (introspect_catalog) are read in      *)
(* threads of their own, which take turns by _admin_lock: the connection    *)
(* has one current result, that of the last statement anybody executed on   *)
(* it, and a reader takes the number of rows, the columns and the rows from *)
(* three statements one after another.                                      *)
(*                                                                         *)
(* What a statement returns is told by the query whose file it reads.       *)
(***************************************************************************)
EXTENDS Naturals

CONSTANTS
    Reader,     \* the threads that may read
    QueryId,    \* the queries that have a result file
    Catalog,    \* what introspect_catalog reads
    None        \* nothing

ASSUME ReaderAssumption ==
    /\ Catalog \notin QueryId
    /\ None \notin QueryId \cup {Catalog} \cup Reader

VARIABLES
    lock,       \* the reader that holds _admin_lock, or None
    cursor,     \* what the current result of the admin connection is about
    reading     \* reading[r]: what r reads, how far it is and what it has got

readerVars == <<lock, cursor, reading>>

Subject == QueryId \cup {Catalog}

NotReading == [of |-> None, offset |-> 0, at |-> "idle",
               total |-> None, columns |-> None, rows |-> None]

ReaderInit ==
    /\ lock = None
    /\ cursor = None
    /\ reading = [r \in Reader |-> NotReading]

Asked(q, o) == [NotReading EXCEPT !.of = q, !.offset = o, !.at = "asked"]

\* Mutant: nobody waits for the lock.
TakeLockAnyway(r) == lock' = r

TakeLock(r) == lock = None /\ lock' = r

\* r goes on to the stage at, and executes its next statement.
Execute(r, at) ==
    /\ reading' = [reading EXCEPT ![r].at = at]
    /\ cursor' = reading[r].of

\* SELECT count(*); introspect_catalog has one statement only.
StartReading(r) ==
    /\ reading[r].at = "asked"
    /\ TakeLock(r)
    /\ Execute(r, IF reading[r].of = Catalog THEN "rows" ELSE "total")

\* The count is fetched, and SELECT * LIMIT 0 describes the columns.
FetchTotal(r) ==
    /\ reading[r].at = "total"
    /\ reading' = [reading EXCEPT ![r].at = "columns", ![r].total = cursor]
    /\ cursor' = reading[r].of
    /\ UNCHANGED lock

\* The description is read, and the rows of the page are selected.
FetchColumns(r) ==
    /\ reading[r].at = "columns"
    /\ reading' = [reading EXCEPT ![r].at = "rows", ![r].columns = cursor]
    /\ cursor' = reading[r].of
    /\ UNCHANGED lock

Unlock(r) == lock' = IF lock = r THEN None ELSE lock

FetchRows(r) ==
    /\ reading[r].at = "rows"
    /\ reading' = [reading EXCEPT ![r].at = "read", ![r].rows = cursor]
    /\ Unlock(r)
    /\ UNCHANGED cursor

\* The file is not there, or a statement raises.
ReadFails(r) ==
    /\ reading[r].at \in {"asked", "total", "columns", "rows"}
    /\ reading' = [reading EXCEPT ![r].at = "failed"]
    /\ Unlock(r)
    /\ UNCHANGED cursor

Introspect(r) ==
    /\ reading[r] = NotReading
    /\ reading' = [reading EXCEPT ![r] = Asked(Catalog, 0)]
    /\ UNCHANGED <<lock, cursor>>

\* A page of a result is asked for.
Ask(r, q, o) ==
    /\ reading[r] = NotReading
    /\ reading' = [reading EXCEPT ![r] = Asked(q, o)]
    /\ UNCHANGED <<lock, cursor>>

ReadStep(r) == StartReading(r) \/ FetchTotal(r) \/ FetchColumns(r) \/ FetchRows(r)

\* The answer of r has been used.
Use(r) ==
    /\ reading[r].at \in {"read", "failed"}
    /\ reading' = [reading EXCEPT ![r] = NotReading]
    /\ UNCHANGED <<lock, cursor>>

\* Readers by themselves, whoever asks.
ReaderNext ==
    \E r \in Reader :
        \/ Introspect(r)
        \/ \E q \in QueryId, o \in Nat : Ask(r, q, o)
        \/ ReadStep(r)
        \/ ReadFails(r)
        \/ Use(r)

ReaderSpec == ReaderInit /\ [][ReaderNext]_readerVars
-----------------------------------------------------------------------------
ReaderTypeOK ==
    /\ lock \in Reader \cup {None}
    /\ cursor \in Subject \cup {None}
    /\ reading \in [Reader ->
           [of : Subject \cup {None}, offset : Nat,
            at : {"idle", "asked", "total", "columns", "rows", "read", "failed"},
            total : Subject \cup {None}, columns : Subject \cup {None},
            rows : Subject \cup {None}]]

\* Whoever else reads at the same time, a page is made of the count, the columns
\* and the rows of one result, the one that was asked for.
PagesAreWhole ==
    \A r \in Reader :
        reading[r].at = "read" =>
            /\ reading[r].rows = reading[r].of
            /\ reading[r].of # Catalog =>
                 reading[r].total = reading[r].of /\ reading[r].columns = reading[r].of
=============================================================================
