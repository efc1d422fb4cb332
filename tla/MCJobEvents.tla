----------------------------- MODULE MCJobEvents -----------------------------
(* Instances of JobEvents small enough for TLC. *)
EXTENDS JobEvents

CONSTANTS l1, l2
=============================================================================
