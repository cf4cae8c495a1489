----------------------------- MODULE MCSession -----------------------------
(* Small instances of Session. *)
EXTENDS Session, TLC

CONSTANTS b1, b2, i1, i2, a1

Symmetry == Permutations(Browser) \cup Permutations(Slot)
=============================================================================
