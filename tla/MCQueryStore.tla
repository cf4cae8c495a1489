---------------------------- MODULE MCQueryStore ----------------------------
(* Small instances of QueryStore: values for its constants. *)
EXTENDS QueryStore, TLC

TwoSlots == [w \in Worker |-> 2]

\* A worker with two cpus that may come back with one; three queries ask for two,
\* one for nothing (NULL).
OneOrTwoCpus == {[r \in Resource |-> n] : n \in 1 .. 2}
MixedNeed == [q \in QueryId |-> [r \in Resource |-> <<2, 2, 2, NoLimit>>[q]]]

Symmetry == Permutations(Worker) \cup Permutations(Claimer)
=============================================================================
