------------------------------ MODULE JobLedger ------------------------------
(***************************************************************************)
(* What the backup and the restore service promise about their job tables: *)
(* a job is admitted only when its account has no active job, then moves   *)
(* through the stages one at a time, in the service's order, and ends      *)
(* once, as done, failed or cancelled.  Goroutines, progress, lost writes  *)
(* and restarts are all invisible at this level: modules BackupJob and     *)
(* RestoreJob show that their tables of rows behave like this one.         *)
(***************************************************************************)
EXTENDS JobStatus

CONSTANTS Job,        \* job identifiers
          AccountOf,  \* the account each job is started for
          Successor   \* the service's stages: where each status leads

VARIABLE ledger       \* the status the table holds for each job

Init == ledger = [j \in Job |-> "absent"]

ActiveFor(j) == {k \in Job : AccountOf[k] = AccountOf[j] /\ ledger[k] \in Active}

Admit(j) ==
  /\ ledger[j] = "absent"
  /\ ActiveFor(j) = {}
  /\ ledger' = [ledger EXCEPT ![j] = "queued"]

Advance(j) ==
  /\ ledger[j] \in Active
  /\ ledger' = [ledger EXCEPT ![j] = Successor[@]]

Abort(j) ==
  /\ ledger[j] \in Active
  /\ \E s \in {"failed", "cancelled"} : ledger' = [ledger EXCEPT ![j] = s]

Next == \E j \in Job : Admit(j) \/ Advance(j) \/ Abort(j)

Spec == Init /\ [][Next]_ledger
=============================================================================
