------------------------------ MODULE MCEditor ------------------------------
(* Small instances of Editor. *)
EXTENDS Editor

CONSTANTS s1, s2, s3
=============================================================================
