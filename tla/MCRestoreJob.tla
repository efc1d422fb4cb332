---------------------------- MODULE MCRestoreJob ----------------------------
(* Instances of RestoreJob small enough for TLC. *)
EXTENDS RestoreJob, TLC

CONSTANTS j1, j2, j3, e1, alice, bob

(* Two jobs of alice, who has no conversations, and one of bob, who has one. *)
Accounts == [j \in {j1, j2, j3} |-> IF j = j3 THEN bob ELSE alice]
Selected == [j \in {j1, j2, j3} |-> IF j = j3 THEN 1 ELSE 0]

(* Alice's jobs are alike. *)
Twins == Permutations({j1, j2})
=============================================================================
