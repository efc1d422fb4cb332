----------------------------- MODULE MCBackupJob -----------------------------
(* Instances of BackupJob small enough for TLC. *)
EXTENDS BackupJob

CONSTANTS j1, j2, j3, alice, bob

(* Two calls of Start for one account and, in the larger instance, one for *)
(* another account.                                                        *)
OneAccount  == [j \in {j1, j2} |-> alice]
TwoAccounts == [j \in {j1, j2, j3} |-> IF j = j3 THEN bob ELSE alice]
=============================================================================
