------------------------------ MODULE JobStatus ------------------------------
(***************************************************************************)
(* The vocabulary of job statuses shared by the backup and the restore     *)
(* service (internal/domain/job.go).                                       *)
(***************************************************************************)

(* JobStatus.Terminal: the three statuses no job leaves. *)
Terminal == {"done", "failed", "cancelled"}

(* The statuses of a job that is admitted and not over. *)
Active == {"queued", "transfer", "organize", "index"}
=============================================================================
