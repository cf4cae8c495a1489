----------------------------- MODULE MCEventHub -----------------------------
(* Small instances of EventHub. *)
EXTENDS EventHub, TLC

CONSTANTS w1, h1, h2, p1, p2
=============================================================================
