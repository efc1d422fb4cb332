------------------------------ MODULE MCIngest ------------------------------
(* Instances of Ingest small enough for TLC. *)
EXTENDS Ingest

CONSTANT w1

(* Two talkers: a message without a create time and two of the same time   *)
(* for the first, one for the second.                                      *)
TwoTalkers == [m \in 1..4 |-> IF m = 4 THEN 2 ELSE 1]
Untimed    == [m \in 1..4 |-> IF m = 1 THEN 0 ELSE 1]
=============================================================================
