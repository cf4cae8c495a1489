----------------------------- MODULE MCLauncher -----------------------------
(* Small instances of Launcher. *)
EXTENDS Launcher, TLC

\* No resource is limited: a query counts as one slot of its worker.
NoCapacities == {[r \in {} |-> 0]}
NoNeed == [q \in QueryId |-> [r \in {} |-> 0]]

OneSlot == [w \in Worker |-> 1]
TwoSlots == [w \in Worker |-> 2]
=============================================================================
