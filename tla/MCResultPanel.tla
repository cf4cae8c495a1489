--------------------------- MODULE MCResultPanel ---------------------------
(* Small instances of ResultPanel. *)
EXTENDS ResultPanel

CONSTANT c1

\* The result of the first query takes two pages, that of the second one.
TwoPagesThenOne == [q \in QueryId |-> 3 - q]
=============================================================================
