------------------------------ MODULE BackupJob ------------------------------
(***************************************************************************)
(* The backup job service, internal/app/backup/service.go, over the job    *)
(* table of the meta database (internal/store/sqlite/meta.go).             *)
(*                                                                         *)
(* Start is three steps of the calling request: the conflict check, the    *)
(* insertion of the row, the registration of the runtime job and its       *)
(* goroutine.  The goroutine, run, alternates between a status change      *)
(* under rt.mu and the write of the row outside it; while it streams, a    *)
(* second goroutine merges progress events into the job under rt.mu and    *)
(* writes its own copies of the row.  Requests cancel jobs; the process    *)
(* can be killed at any time, or leave through Close, and New settles the  *)
(* rows it finds before the service answers again.                         *)
(*                                                                         *)
(* Each identifier of Job stands for one call of Start.  AccountOf is the  *)
(* account that call names.  Errors of Start that precede the conflict     *)
(* check (unknown account, not logged in, no session) change no state.     *)
(***************************************************************************)
EXTENDS Naturals, JobStatus

CONSTANTS Job,              \* one identifier per call of Start
          Account,          \* accounts
          AccountOf,        \* the account each call names
          MaxChunks,        \* bound: chunks in a device stream
          ProgressCap,      \* capacity of the stream's progress channel
          Faulty,           \* jobs whose row writes may fail
          ConcurrentStarts  \* whether two Starts may be in flight together

ASSUME ConstantsOK ==
  /\ AccountOf \in [Job -> Account]
  /\ MaxChunks \in Nat
  /\ ProgressCap \in Nat \ {0}
  /\ Faulty \subseteq Job
  /\ ConcurrentStarts \in BOOLEAN

VARIABLES
  row,       \* backup_jobs: the durable record of each job
  up,        \* whether New has returned and requests are served
  closing,   \* whether the service's root context is cancelled (Close)
  awaited,   \* the jobs a running Close waits for
  start,     \* how far each call of Start has come
  job,       \* rt.job, the in-memory record; Absent while not in s.jobs
  ctx,       \* whether the job's context is cancelled
  pc,        \* where the run goroutine is
  stream,    \* the device stream: none, open, or how it ended
  sent,      \* progress events the stream has put on its channel
  seen,      \* progress events the progress goroutine has taken
  progress,  \* the copy of rt.job that goroutine is about to write
  lost       \* history: jobs one of whose row writes has failed

store  == <<row, lost>>
server == <<up, closing, awaited>>
device == <<stream, sent, seen>>
vars   == <<store, server, start, job, ctx, pc, device, progress>>

(* Service.run's calls of setStatus, in program order.  A job that is over *)
(* has no successor: its status maps to itself.                            *)
Successor == [s \in Active \cup Terminal |->
                CASE s = "queued"   -> "transfer"
                  [] s = "transfer" -> "organize"
                  [] s = "organize" -> "index"
                  [] s = "index"    -> "done"
                  [] OTHER          -> s]

Records == [status   : Active \cup Terminal \cup {"absent"},
            sessions : 0..MaxChunks,
            error    : {"none", "cancelled", "fault", "interrupted"}]

Absent == [status |-> "absent", sessions |-> 0, error |-> "none"]
Queued == [status |-> "queued", sessions |-> 0, error |-> "none"]

TypeOK ==
  /\ row      \in [Job -> Records]
  /\ up       \in BOOLEAN
  /\ closing  \in BOOLEAN
  /\ awaited  \in SUBSET Job
  /\ start    \in [Job -> {"idle", "checked", "put"}]
  /\ job      \in [Job -> Records]
  /\ ctx      \in [Job -> BOOLEAN]
  /\ pc       \in [Job -> {"none", "set", "persist", "connect", "transfer",
                           "organize", "organized", "settle", "exited"}]
  /\ stream   \in [Job -> {"none", "open", "ok", "failed", "cancelled"}]
  /\ sent     \in [Job -> 0..MaxChunks]
  /\ seen     \in [Job -> 0..MaxChunks]
  /\ progress \in [Job -> Records]
  /\ lost     \in SUBSET Job

(* No process memory: what a new process starts from. *)
Forget ==
  /\ closing'  = FALSE
  /\ awaited'  = {}
  /\ start'    = [j \in Job |-> "idle"]
  /\ job'      = [j \in Job |-> Absent]
  /\ ctx'      = [j \in Job |-> FALSE]
  /\ pc'       = [j \in Job |-> "none"]
  /\ stream'   = [j \in Job |-> "none"]
  /\ sent'     = [j \in Job |-> 0]
  /\ seen'     = [j \in Job |-> 0]
  /\ progress' = [j \in Job |-> Absent]

Init ==
  /\ row      = [j \in Job |-> Absent]
  /\ up       = TRUE
  /\ closing  = FALSE
  /\ awaited  = {}
  /\ start    = [j \in Job |-> "idle"]
  /\ job      = [j \in Job |-> Absent]
  /\ ctx      = [j \in Job |-> FALSE]
  /\ pc       = [j \in Job |-> "none"]
  /\ stream   = [j \in Job |-> "none"]
  /\ sent     = [j \in Job |-> 0]
  /\ seen     = [j \in Job |-> 0]
  /\ progress = [j \in Job |-> Absent]
  /\ lost     = {}

-----------------------------------------------------------------------------
(* The job table. *)

(* PutBackupJob succeeds: insert, or overwrite the whole row. *)
Put(j, rec) ==
  /\ row' = [row EXCEPT ![j] = rec]
  /\ UNCHANGED lost

(* PutBackupJob returns an error and leaves the row as it was. *)
PutFails(j) ==
  /\ j \in Faulty
  /\ lost' = lost \cup {j}
  /\ UNCHANGED row

(* A caller that ignores PutBackupJob's result: _ = s.persist(rt, job). *)
TryPut(j, rec) == Put(j, rec) \/ PutFails(j)

-----------------------------------------------------------------------------
(* Start, in the goroutine of the request. *)

(* Mutant: jobs still queued or already indexing are overlooked. *)
BusyRivals(j) ==
  {k \in Job : AccountOf[k] = AccountOf[j] /\ row[k].status \in {"transfer", "organize"}}

Rivals(j) == {k \in Job : AccountOf[k] = AccountOf[j] /\ row[k].status \in Active}

(* ListBackupJobs, and no active job among the account's rows. *)
StartCheck(j) ==
  /\ up
  /\ start[j] = "idle" /\ job[j] = Absent /\ row[j] = Absent
  /\ ConcurrentStarts \/ \A k \in Job : start[k] = "idle"
  /\ Rivals(j) = {}
  /\ start' = [start EXCEPT ![j] = "checked"]
  /\ UNCHANGED <<store, server, job, ctx, pc, device, progress>>

(* PutBackupJob of the queued job; on an error Start returns it. *)
StartPut(j) ==
  /\ start[j] = "checked"
  /\ \/ Put(j, Queued) /\ start' = [start EXCEPT ![j] = "put"]
     \/ PutFails(j)    /\ start' = [start EXCEPT ![j] = "idle"]
  /\ UNCHANGED <<server, job, ctx, pc, device, progress>>

(* s.jobs[job.ID] = rt and go s.run: a child of a cancelled root context   *)
(* is born cancelled.                                                      *)
StartRegister(j) ==
  /\ start[j] = "put"
  /\ start' = [start EXCEPT ![j] = "idle"]
  /\ job'   = [job EXCEPT ![j] = Queued]
  /\ ctx'   = [ctx EXCEPT ![j] = closing]
  /\ pc'    = [pc EXCEPT ![j] = "set"]
  /\ UNCHANGED <<store, server, device, progress>>

-----------------------------------------------------------------------------
(* The run goroutine. *)

(* finish: the locked part.  Every caller but a failed write of "done"     *)
(* finds the job active, so the write of the row and the return follow.    *)
Finish(j, status, error) ==
  /\ job' = [job EXCEPT ![j].status = status, ![j].error = error]
  /\ pc'  = [pc EXCEPT ![j] = "settle"]

(* setStatus, the locked part. *)
SetStatus(j) ==
  /\ pc[j] = "set"
  /\ IF ctx[j]
     THEN Finish(j, "cancelled", "cancelled")
     ELSE /\ job' = [job EXCEPT ![j].status = Successor[@]]
          /\ pc'  = [pc EXCEPT ![j] = "persist"]
  /\ UNCHANGED <<store, server, start, ctx, device, progress>>

(* Where run goes on once a status is stored. *)
Resume == [s \in Active \cup Terminal |->
             CASE s = "transfer" -> "connect"
               [] s = "organize" -> "organize"
               [] s = "index"    -> "set"
               [] OTHER          -> "exited"]

(* setStatus, the write of the row.  When it fails, fail(rt, err) ends the *)
(* job, unless the status being stored was "done": then finish returns at  *)
(* once and run with it.                                                   *)
PersistStatus(j) ==
  /\ pc[j] = "persist"
  /\ \/ /\ Put(j, job[j])
        /\ pc' = [pc EXCEPT ![j] = Resume[job[j].status]]
        /\ UNCHANGED job
     \/ /\ PutFails(j)
        /\ IF job[j].status \in Terminal
           THEN pc' = [pc EXCEPT ![j] = "exited"] /\ UNCHANGED job
           ELSE Finish(j, "failed", "fault")
  /\ UNCHANGED <<server, start, ctx, device, progress>>

(* Session, cursors and StartBackup: the phone's package has arrived. *)
Connect(j) ==
  /\ pc[j] = "connect"
  /\ stream' = [stream EXCEPT ![j] = "open"]
  /\ pc'     = [pc EXCEPT ![j] = "transfer"]
  /\ UNCHANGED <<store, server, start, job, ctx, sent, seen, progress>>

(* Any of those calls returns an error of its own. *)
ConnectFails(j) ==
  /\ pc[j] = "connect"
  /\ Finish(j, "failed", "fault")
  /\ UNCHANGED <<store, server, start, ctx, device, progress>>

(* Mutant: the wait for the package does not watch the job's context. *)
DeafWait(j) ==
  /\ pc[j] = "connect" /\ ctx[j] /\ stream[j] = "open"
  /\ Finish(j, "failed", "cancelled")
  /\ UNCHANGED <<store, server, start, ctx, device, progress>>

(* ListCursors or waitPackage returns because the job's context is         *)
(* cancelled; run passes the error to fail, not to finishErr.              *)
ConnectCancelled(j) ==
  /\ pc[j] = "connect" /\ ctx[j]
  /\ Finish(j, "failed", "cancelled")
  /\ UNCHANGED <<store, server, start, ctx, device, progress>>

(* Mutant: transfer does not wait for the progress goroutine. *)
StreamOver(j) == stream[j] \notin {"none", "open"}

(* transfer returns: the stream is over (stream.Wait) and the progress     *)
(* goroutine has taken and written everything (wg.Wait).                   *)
Drained(j) == stream[j] \notin {"none", "open"} /\ seen[j] = sent[j] /\ progress[j] = Absent

TransferDone(j) ==
  /\ pc[j] = "transfer" /\ Drained(j)
  /\ stream[j] = "ok" /\ ~ctx[j]
  /\ pc' = [pc EXCEPT ![j] = "set"]
  /\ UNCHANGED <<store, server, start, job, ctx, device, progress>>

TransferCancelled(j) ==
  /\ pc[j] = "transfer" /\ Drained(j)
  /\ stream[j] = "cancelled" \/ ctx[j]
  /\ Finish(j, "cancelled", "cancelled")
  /\ UNCHANGED <<store, server, start, ctx, device, progress>>

TransferFailed(j) ==
  /\ pc[j] = "transfer" /\ Drained(j)
  /\ stream[j] = "failed"
  /\ Finish(j, "failed", "fault")
  /\ UNCHANGED <<store, server, start, ctx, device, progress>>

(* Mutants: the counts are added; the last count wins. *)
Added(m, n) == m + n
Newest(m, n) == n

Larger(m, n) == IF m < n THEN n ELSE m

(* organize succeeds; module Ingest has its inside.  It can still succeed  *)
(* when the context is cancelled after its last look at it.                *)
Organize(j) ==
  /\ pc[j] = "organize"
  /\ \E n \in 0..MaxChunks : job' = [job EXCEPT ![j].sessions = Larger(@, n)]
  /\ pc' = [pc EXCEPT ![j] = "organized"]
  /\ UNCHANGED <<store, server, start, ctx, device, progress>>

OrganizeCancelled(j) ==
  /\ pc[j] = "organize" /\ ctx[j]
  /\ Finish(j, "cancelled", "cancelled")
  /\ UNCHANGED <<store, server, start, ctx, device, progress>>

OrganizeFails(j) ==
  /\ pc[j] = "organize"
  /\ Finish(j, "failed", "fault")
  /\ UNCHANGED <<store, server, start, ctx, device, progress>>

(* organize's last act: write the session count, ignoring the result. *)
PersistOrganized(j) ==
  /\ pc[j] = "organized"
  /\ TryPut(j, job[j])
  /\ pc' = [pc EXCEPT ![j] = "set"]
  /\ UNCHANGED <<server, start, job, ctx, device, progress>>

(* finish, the write of the row; its result is ignored, rt.done closes. *)
Settle(j) ==
  /\ pc[j] = "settle"
  /\ TryPut(j, job[j])
  /\ pc' = [pc EXCEPT ![j] = "exited"]
  /\ UNCHANGED <<server, start, job, ctx, device, progress>>

-----------------------------------------------------------------------------
(* The device stream's goroutine, and the goroutine reading its progress.  *)

(* A chunk is queued and its progress event sent; the send blocks, outside *)
(* the select on the context, while the channel is full.                   *)
SendChunk(j) ==
  /\ stream[j] = "open"
  /\ sent[j] < MaxChunks
  /\ sent[j] < seen[j] + ProgressCap
  /\ sent' = [sent EXCEPT ![j] = @ + 1]
  /\ UNCHANGED <<store, server, start, job, ctx, pc, stream, seen, progress>>

(* The stream ends: exhausted, broken, or because its context, a child of  *)
(* the job's, is cancelled.                                                *)
EndStream(j) ==
  /\ stream[j] = "open"
  /\ \E how \in {"ok", "failed"} \cup (IF ctx[j] THEN {"cancelled"} ELSE {}) :
       stream' = [stream EXCEPT ![j] = how]
  /\ UNCHANGED <<store, server, start, job, ctx, pc, sent, seen, progress>>

(* One event: under rt.mu, raise the session count while transferring and  *)
(* take the copy to be written.                                            *)
TakeProgress(j) ==
  /\ seen[j] < sent[j] /\ progress[j] = Absent
  /\ seen' = [seen EXCEPT ![j] = @ + 1]
  /\ IF job[j].status = "transfer"
     THEN /\ job' = [job EXCEPT ![j].sessions = Larger(@, seen[j] + 1)]
          /\ progress' = [progress EXCEPT ![j] = job'[j]]
     ELSE UNCHANGED <<job, progress>>
  /\ UNCHANGED <<store, server, start, ctx, pc, stream, sent>>

(* The copy is written outside rt.mu, ignoring the result. *)
PersistProgress(j) ==
  /\ progress[j] # Absent
  /\ TryPut(j, progress[j])
  /\ progress' = [progress EXCEPT ![j] = Absent]
  /\ UNCHANGED <<server, start, job, ctx, pc, device>>

-----------------------------------------------------------------------------
(* Requests and process life. *)

(* Cancel of a registered, active job: stream.Cancel and rt.cancel.  An    *)
(* active row without a registered job exists only inside Start, before    *)
(* the caller knows the identifier (NoOrphanRow), so Cancel's other branch *)
(* has no state to act on.                                                 *)
Cancel(j) ==
  /\ up
  /\ job[j].status \in Active
  /\ ~ctx[j]
  /\ ctx' = [ctx EXCEPT ![j] = TRUE]
  /\ UNCHANGED <<store, server, start, job, pc, device, progress>>

(* Close: cancel the root context, collect the registered jobs. *)
Close ==
  /\ up /\ ~closing
  /\ closing' = TRUE
  /\ awaited' = {j \in Job : job[j] # Absent}
  /\ ctx'     = [j \in Job |-> ctx[j] \/ job[j] # Absent]
  /\ UNCHANGED <<store, up, start, job, pc, device, progress>>

(* Close returns once every collected job's goroutine has, and the process *)
(* exits.                                                                  *)
CloseReturns ==
  /\ up /\ closing
  /\ \A j \in awaited : pc[j] = "exited"
  /\ up' = FALSE
  /\ Forget
  /\ UNCHANGED store

(* The process is killed. *)
Crash ==
  /\ up
  /\ up' = FALSE
  /\ Forget
  /\ UNCHANGED store

(* Mutant: an interrupted job is queued again. *)
Requeue(j) ==
  /\ ~up
  /\ row[j].status \in Active
  /\ row' = [row EXCEPT ![j].status = "queued"]
  /\ UNCHANGED <<lost, server, start, job, ctx, pc, device, progress>>

(* recover, one row.  If the write fails New returns the error and the     *)
(* process has to be started again.                                        *)
Recover(j) ==
  /\ ~up
  /\ row[j].status \in Active
  /\ row' = [row EXCEPT ![j].status = "failed", ![j].error = "interrupted"]
  /\ UNCHANGED <<lost, server, start, job, ctx, pc, device, progress>>

(* Mutant: New does not wait for recover. *)
RestartAtOnce ==
  /\ ~up
  /\ up' = TRUE
  /\ UNCHANGED <<store, closing, awaited, start, job, ctx, pc, device, progress>>

(* New returns, and the server listens. *)
Restart ==
  /\ ~up
  /\ \A j \in Job : row[j].status \notin Active
  /\ up' = TRUE
  /\ UNCHANGED <<store, closing, awaited, start, job, ctx, pc, device, progress>>

-----------------------------------------------------------------------------
Starting(j) == StartCheck(j) \/ StartPut(j) \/ StartRegister(j)

Running(j) ==
  \/ SetStatus(j) \/ PersistStatus(j)
  \/ ConnectCancelled(j)
  \/ TransferDone(j) \/ TransferCancelled(j) \/ TransferFailed(j)
  \/ Organize(j) \/ OrganizeCancelled(j) \/ OrganizeFails(j) \/ PersistOrganized(j)
  \/ Settle(j)

Streaming(j) == SendChunk(j) \/ EndStream(j)

Watching(j) == TakeProgress(j) \/ PersistProgress(j)

Next ==
  \/ \E j \in Job :
       \/ Starting(j)
       \/ Running(j) \/ Connect(j) \/ ConnectFails(j)
       \/ Streaming(j) \/ Watching(j)
       \/ Cancel(j) \/ Recover(j)
  \/ Close \/ CloseReturns \/ Crash \/ Restart

(* Goroutines that can run do run; a stream whose package is in memory     *)
(* needs nobody else.  Requests, the phone and the operator owe nothing.   *)
Fairness ==
  /\ \A j \in Job : /\ WF_vars(StartRegister(j))
                    /\ WF_vars(Running(j))
                    /\ WF_vars(Streaming(j))
                    /\ WF_vars(Watching(j))
                    /\ WF_vars(Recover(j))
  /\ WF_vars(Restart)

Spec == Init /\ [][Next]_vars /\ Fairness

(* The phone delivers its package, or the wait for it fails. *)
PhoneAnswers == \A j \in Job : WF_vars(Connect(j) \/ ConnectFails(j))

-----------------------------------------------------------------------------
(* Once a goroutine has returned, the table holds exactly what the service  *)
(* answers from memory: no late progress write, no write out of order, can  *)
(* overwrite the outcome.  Only a write the database refused excuses it.    *)
(* (finish and transfer's wg.Wait, service.go:404, 524-539.)                *)
DurableOutcome ==
  \A j \in Job : pc[j] = "exited" /\ j \notin lost => row[j] = job[j]

(* While requests are served, an active row belongs to a runtime job or to  *)
(* a Start between its insertion and its registration: no row is left that  *)
(* nobody will ever finish, and Cancel always finds the runtime job.        *)
(* (New's recover, service.go:106-122; Cancel's nil branch, 200-208.)       *)
NoOrphanRow ==
  \A j \in Job : up /\ row[j].status \in Active /\ job[j] = Absent => start[j] = "put"

(* An account has at most one active job, Start's ErrConflict              *)
(* (service.go:20, 141-149).  Holds when Starts do not overlap.             *)
OneActivePerAccount ==
  \A j, k \in Job :
    AccountOf[j] = AccountOf[k] /\ row[j].status \in Active /\ row[k].status \in Active
      => j = k

(* The session count a client reads from the table never goes down while a *)
(* job runs, whichever goroutine writes the row (service.go:358-379, 450-  *)
(* 457), and survives a restart.                                           *)
ProgressNeverRegresses ==
  [][\A j \in Job : row'[j].sessions >= row[j].sessions]_row

(* The table, read as a ledger, follows the promised lifecycle.             *)
Ledger == INSTANCE JobLedger WITH ledger <- [j \in Job |-> row[j].status]

(* Rows are admitted one per account, advance one stage at a time and end   *)
(* once: the job table implements JobLedger (Starts not overlapping).       *)
LedgerSpec == Ledger!Spec

(* A cancelled job's goroutine returns, so the Cancel request that waits    *)
(* for rt.done is answered, with no help from the phone                     *)
(* (service.go:209-229).  A kill of the process also ends it.               *)
CancelCompletes ==
  \A j \in Job : ctx[j] ~> pc[j] \in {"none", "exited"}

(* When the phone answers, every admitted job is over some day, kills and   *)
(* restarts included, so its account can start another one (run,            *)
(* service.go:292-349, and recover).  Only a refused write of the job's row *)
(* excuses it.                                                              *)
EveryJobSettles ==
  PhoneAnswers =>
    \A j \in Job : row[j].status \in Active ~> row[j].status \in Terminal \/ j \in lost
=============================================================================
