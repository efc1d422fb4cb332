----------------------------- MODULE RestoreJob -----------------------------
(***************************************************************************)
(* The restore service, internal/app/restore/service.go, with the one      *)
(* directory the sidecar session gives every account's restores.           *)
(*                                                                         *)
(* Start is the backup service's: check, insert, register.  The goroutine, *)
(* run, loads a snapshot of the account, writes it as a package into the   *)
(* directory, and asks the session to restore what the directory then      *)
(* holds (sidecar.go, StartRestore); a second goroutine merges progress.   *)
(* There is no Cancel: a job's context ends only with the service's.       *)
(* Export writes a package from the request's own goroutine, without a job,*)
(* into the directory the request names: the one that matters here is the  *)
(* session's, which nothing forbids.                                       *)
(*                                                                         *)
(* The directory is abstracted to whose package a reader would find there. *)
(* A write clears it first and commits last; writes that overlap remove    *)
(* each other's files.  Module PackageDir has the files themselves.        *)
(***************************************************************************)
EXTENDS Naturals, JobStatus

CONSTANTS Job,               \* one identifier per call of Start
          Export,            \* one identifier per request of an export
          Account,           \* accounts
          AccountOf,         \* the account each call names
          Sessions,          \* conversations each job's selector selects
          MaxSessions,       \* bound: the most of them
          ProgressCap,       \* capacity of the stream's progress channel
          Faulty,            \* jobs whose row writes may fail
          ConcurrentStarts,  \* whether Starts of one account may overlap
          Nobody, Other      \* directories without a package, or with no job's

ASSUME ConstantsOK ==
  /\ AccountOf \in [Job -> Account]
  /\ MaxSessions \in Nat
  /\ Sessions \in [Job -> 0..MaxSessions]
  /\ ProgressCap \in Nat \ {0}
  /\ Faulty \subseteq Job
  /\ ConcurrentStarts \in BOOLEAN
  /\ Job \cap Export = {}
  /\ Nobody \notin Job \cup Export /\ Other \notin Job \cup Export /\ Nobody # Other

VARIABLES
  row,       \* restore_jobs: the durable record of each job
  up,        \* whether New has returned and requests are served
  closing,   \* whether the root context, parent of every job's, is cancelled
  start,     \* how far each call of Start has come
  job,       \* rt.job; Absent while not in s.jobs
  pc,        \* where the run goroutine is
  stream,    \* the restore stream: none, open, or how it ended
  sent,      \* progress events the stream has put on its channel
  seen,      \* progress events the progress goroutine has taken
  progress,  \* the copy of rt.job that goroutine is about to write
  package,   \* whose package the directory holds
  exporting, \* the exports that write into it
  crossed,   \* history: writers whose package another touched before the hand-over
  served,    \* history: whose package the session restored for the job
  lost       \* history: jobs one of whose row writes has failed

store   == <<row, lost>>
server  == <<up, closing>>
device  == <<stream, sent, seen>>
phone   == <<package, exporting, crossed, served>>
vars    == <<store, server, start, job, pc, device, progress, phone>>

(* run's calls of setStatus, in program order. *)
Successor == [s \in Active \cup Terminal |->
                CASE s = "queued"   -> "organize"
                  [] s = "organize" -> "transfer"
                  [] s = "transfer" -> "done"
                  [] OTHER          -> s]

Records == [status   : Active \cup Terminal \cup {"absent"},
            sessions : 0..MaxSessions,
            error    : {"none", "cancelled", "fault", "interrupted"}]

Absent == [status |-> "absent", sessions |-> 0, error |-> "none"]
Queued == [status |-> "queued", sessions |-> 0, error |-> "none"]

TypeOK ==
  /\ row      \in [Job -> Records]
  /\ up       \in BOOLEAN
  /\ closing  \in BOOLEAN
  /\ start    \in [Job -> {"idle", "checked", "put"}]
  /\ job      \in [Job -> Records]
  /\ pc       \in [Job -> {"none", "set", "persist", "load", "write", "writing",
                           "counted", "connect", "watch", "settle", "exited"}]
  /\ stream   \in [Job -> {"none", "open", "ok", "failed", "cancelled"}]
  /\ sent     \in [Job -> 0..MaxSessions]
  /\ seen     \in [Job -> 0..MaxSessions]
  /\ progress \in [Job -> Records]
  /\ package  \in Job \cup {Nobody, Other}
  /\ exporting \in SUBSET Export
  /\ crossed  \in SUBSET (Job \cup Export)
  /\ served   \in [Job -> Job \cup {Nobody, Other}]
  /\ lost     \in SUBSET Job

Init ==
  /\ row      = [j \in Job |-> Absent]
  /\ up       = TRUE
  /\ closing  = FALSE
  /\ start    = [j \in Job |-> "idle"]
  /\ job      = [j \in Job |-> Absent]
  /\ pc       = [j \in Job |-> "none"]
  /\ stream   = [j \in Job |-> "none"]
  /\ sent     = [j \in Job |-> 0]
  /\ seen     = [j \in Job |-> 0]
  /\ progress = [j \in Job |-> Absent]
  /\ package  = Nobody
  /\ exporting = {}
  /\ crossed  = {}
  /\ served   = [j \in Job |-> Nobody]
  /\ lost     = {}

-----------------------------------------------------------------------------
(* The job table: PutRestoreJob stores the whole row, or fails. *)

Put(j, rec) ==
  /\ row' = [row EXCEPT ![j] = rec]
  /\ UNCHANGED lost

PutFails(j) ==
  /\ j \in Faulty
  /\ lost' = lost \cup {j}
  /\ UNCHANGED row

(* A caller that ignores the result: _ = s.persist(job). *)
TryPut(j, rec) == Put(j, rec) \/ PutFails(j)

-----------------------------------------------------------------------------
(* Start, in the goroutine of the request. *)

Siblings(j) == {k \in Job : AccountOf[k] = AccountOf[j]}

(* Mutant: a job that transfers already is overlooked. *)
EarlyRivals(j) == {k \in Siblings(j) : row[k].status \in {"queued", "organize"}}

Rivals(j) == {k \in Siblings(j) : row[k].status \in Active}

StartCheck(j) ==
  /\ up
  /\ start[j] = "idle" /\ job[j] = Absent /\ row[j] = Absent
  /\ ConcurrentStarts \/ \A k \in Siblings(j) : start[k] = "idle"
  /\ Rivals(j) = {}
  /\ start' = [start EXCEPT ![j] = "checked"]
  /\ UNCHANGED <<store, server, job, pc, device, progress, phone>>

StartPut(j) ==
  /\ start[j] = "checked"
  /\ \/ Put(j, Queued) /\ start' = [start EXCEPT ![j] = "put"]
     \/ PutFails(j)    /\ start' = [start EXCEPT ![j] = "idle"]
  /\ UNCHANGED <<server, job, pc, device, progress, phone>>

StartRegister(j) ==
  /\ start[j] = "put"
  /\ start' = [start EXCEPT ![j] = "idle"]
  /\ job'   = [job EXCEPT ![j] = Queued]
  /\ pc'    = [pc EXCEPT ![j] = "set"]
  /\ UNCHANGED <<store, server, device, progress, phone>>

-----------------------------------------------------------------------------
(* The run goroutine. *)

(* finish: the locked part; the write of the row and the return follow. *)
Finish(j, status, error) ==
  /\ job' = [job EXCEPT ![j].status = status, ![j].error = error]
  /\ pc'  = [pc EXCEPT ![j] = "settle"]

(* setStatus, up to the unlock. *)
SetStatus(j) ==
  /\ pc[j] = "set"
  /\ IF closing
     THEN Finish(j, "cancelled", "cancelled")
     ELSE /\ job' = [job EXCEPT ![j].status = Successor[@]]
          /\ pc'  = [pc EXCEPT ![j] = "persist"]
  /\ UNCHANGED <<store, server, start, device, progress, phone>>

(* Where run goes on once a status is stored. *)
Resume == [s \in Active \cup Terminal |->
             CASE s = "organize" -> "load"
               [] s = "transfer" -> "connect"
               [] OTHER          -> "exited"]

(* setStatus, the write of the row; a failed write of "done" is kept. *)
PersistStatus(j) ==
  /\ pc[j] = "persist"
  /\ \/ /\ Put(j, job[j])
        /\ pc' = [pc EXCEPT ![j] = Resume[job[j].status]]
        /\ UNCHANGED job
     \/ /\ PutFails(j)
        /\ IF job[j].status \in Terminal
           THEN pc' = [pc EXCEPT ![j] = "exited"] /\ UNCHANGED job
           ELSE Finish(j, "failed", "fault")
  /\ UNCHANGED <<server, start, device, progress, phone>>

(* OpenAccount, loadSnapshot and the session are all there. *)
Load(j) ==
  /\ pc[j] = "load"
  /\ pc' = [pc EXCEPT ![j] = "write"]
  /\ UNCHANGED <<store, server, start, job, device, progress, phone>>

(* One of them is not: among them a selected conversation that does not    *)
(* exist, and a context cancelled under a query.                           *)
LoadFails(j) ==
  /\ pc[j] = "load"
  /\ Finish(j, "failed", "fault")
  /\ UNCHANGED <<store, server, start, device, progress, phone>>

Writers == {j \in Job : pc[j] = "writing"} \cup exporting

(* From the first file it writes until the session has read the package, a *)
(* job counts on the directory; an export does while it writes.            *)
Holding == exporting \cup
  {j \in Job : \/ pc[j] \in {"writing", "counted", "connect"}
               \/ (pc[j] = "set" /\ job[j].status = "organize")
               \/ (pc[j] = "persist" /\ job[j].status = "transfer")}

(* Mutant: a package that is there is taken for the one to be written. *)
WriteOnce(j) ==
  /\ pc[j] = "write"
  /\ IF package = Nobody
     THEN pc' = [pc EXCEPT ![j] = "writing"] /\ crossed' = crossed \cup Holding
     ELSE pc' = [pc EXCEPT ![j] = "counted"] /\ UNCHANGED crossed
  /\ UNCHANGED <<store, server, start, job, device, progress, package, exporting, served>>

(* backupfmt.Write, by a job or an export.  It begins by clearing the       *)
(* directory, whoever counts on it.                                        *)
ClearDir(x) ==
  /\ package' = Nobody
  /\ crossed' = crossed \cup Holding \cup (IF Writers = {} THEN {} ELSE {x})

(* It commits last.  When others have touched the files, what is there is   *)
(* theirs, a mixture, or this package after all.                           *)
CommitDir(x) ==
  /\ package' \in IF x \in crossed THEN {package, Other, x} ELSE {x}
  /\ crossed' = crossed \cup (Holding \ {x})

(* It fails and clears the directory again. *)
UndoDir(x) ==
  /\ package' = Nobody
  /\ crossed' = (crossed \cup Holding) \ {x}

WriteBegin(j) ==
  /\ pc[j] = "write"
  /\ pc' = [pc EXCEPT ![j] = "writing"]
  /\ ClearDir(j)
  /\ UNCHANGED <<store, server, start, job, device, progress, exporting, served>>

(* The package is there, and its sessions are counted. *)
WriteEnd(j) ==
  /\ pc[j] = "writing"
  /\ pc'  = [pc EXCEPT ![j] = "counted"]
  /\ job' = [job EXCEPT ![j].sessions = Sessions[j]]
  /\ CommitDir(j)
  /\ UNCHANGED <<store, server, start, device, progress, exporting, served>>

WriteFails(j) ==
  /\ pc[j] = "writing"
  /\ Finish(j, "failed", "fault")
  /\ UndoDir(j)
  /\ UNCHANGED <<store, server, start, device, progress, exporting, served>>

(* The count is stored, the result ignored. *)
PersistCount(j) ==
  /\ pc[j] = "counted"
  /\ TryPut(j, job[j])
  /\ pc' = [pc EXCEPT ![j] = "set"]
  /\ UNCHANGED <<server, start, job, device, progress, phone>>

(* Nobody looks at the stream any more. *)
Release(j) ==
  /\ stream'  = [stream EXCEPT ![j] = "none"]
  /\ sent'    = [sent EXCEPT ![j] = 0]
  /\ seen'    = [seen EXCEPT ![j] = 0]
  /\ served'  = [served EXCEPT ![j] = Nobody]
  /\ crossed' = crossed \ {j}
  /\ UNCHANGED <<package, exporting>>

(* StartRestore: the session reads what the directory holds. *)
Connect(j) ==
  /\ pc[j] = "connect" /\ package # Nobody
  /\ served' = [served EXCEPT ![j] = package]
  /\ stream' = [stream EXCEPT ![j] = "open"]
  /\ pc'     = [pc EXCEPT ![j] = "watch"]
  /\ UNCHANGED <<store, server, start, job, sent, seen, progress, package, exporting, crossed>>

(* Nothing to read, or nothing that can be decoded. *)
ConnectFails(j) ==
  /\ pc[j] = "connect"
  /\ Finish(j, "failed", "fault")
  /\ Release(j)
  /\ UNCHANGED <<store, server, start, progress>>

(* Mutant: watch does not wait for the progress goroutine. *)
StreamOver(j) == stream[j] \notin {"none", "open"}

(* watch returns: stream.Wait has, and the progress goroutine is through. *)
Drained(j) == stream[j] \notin {"none", "open"} /\ seen[j] = sent[j] /\ progress[j] = Absent

WatchDone(j) ==
  /\ pc[j] = "watch" /\ Drained(j)
  /\ stream[j] = "ok" /\ ~closing
  /\ pc' = [pc EXCEPT ![j] = "set"]
  /\ Release(j)
  /\ UNCHANGED <<store, server, start, job, progress>>

WatchCancelled(j) ==
  /\ pc[j] = "watch" /\ Drained(j)
  /\ stream[j] = "cancelled" \/ (stream[j] = "ok" /\ closing)
  /\ Finish(j, "cancelled", "cancelled")
  /\ Release(j)
  /\ UNCHANGED <<store, server, start, progress>>

WatchFailed(j) ==
  /\ pc[j] = "watch" /\ Drained(j)
  /\ stream[j] = "failed"
  /\ Finish(j, "failed", "fault")
  /\ Release(j)
  /\ UNCHANGED <<store, server, start, progress>>

(* finish, the write of the row; its result is ignored, rt.done closes. *)
Settle(j) ==
  /\ pc[j] = "settle"
  /\ TryPut(j, job[j])
  /\ pc' = [pc EXCEPT ![j] = "exited"]
  /\ UNCHANGED <<server, start, job, device, progress, phone>>

-----------------------------------------------------------------------------
(* The restore stream's goroutine, and the goroutine reading its progress. *)

(* The conversations of the package read; the selector may want fewer. *)
Reported(j) == IF served[j] \in Job THEN Sessions[served[j]] ELSE MaxSessions

SendProgress(j) ==
  /\ stream[j] = "open"
  /\ sent[j] < Reported(j)
  /\ sent[j] < seen[j] + ProgressCap
  /\ sent' = [sent EXCEPT ![j] = @ + 1]
  /\ UNCHANGED <<store, server, start, job, pc, stream, seen, progress, phone>>

EndStream(j) ==
  /\ stream[j] = "open"
  /\ \E how \in {"ok", "failed"} \cup (IF closing THEN {"cancelled"} ELSE {}) :
       stream' = [stream EXCEPT ![j] = how]
  /\ UNCHANGED <<store, server, start, job, pc, sent, seen, progress, phone>>

(* One event, under rt.mu: a larger count is taken over and a copy made. *)
TakeProgress(j) ==
  /\ seen[j] < sent[j] /\ progress[j] = Absent
  /\ seen' = [seen EXCEPT ![j] = @ + 1]
  /\ IF job[j].status \in Active /\ seen[j] + 1 > job[j].sessions
     THEN /\ job' = [job EXCEPT ![j].sessions = seen[j] + 1]
          /\ progress' = [progress EXCEPT ![j] = job'[j]]
     ELSE UNCHANGED <<job, progress>>
  /\ UNCHANGED <<store, server, start, pc, stream, sent, phone>>

(* The copy is written outside rt.mu, ignoring the result. *)
PersistProgress(j) ==
  /\ progress[j] # Absent
  /\ TryPut(j, progress[j])
  /\ progress' = [progress EXCEPT ![j] = Absent]
  /\ UNCHANGED <<server, start, job, pc, device, phone>>

-----------------------------------------------------------------------------
(* Export: it looks at no job and keeps none. *)

ExportBegin(e) ==
  /\ up /\ e \notin exporting
  /\ exporting' = exporting \cup {e}
  /\ ClearDir(e)
  /\ UNCHANGED <<store, server, start, job, pc, device, progress, served>>

(* It commits, and the files are listed; or it fails and clears them. *)
ExportEnd(e) ==
  /\ e \in exporting
  /\ exporting' = exporting \ {e}
  /\ package' \in IF e \in crossed THEN {package, Other, Nobody} ELSE {Other, Nobody}
  /\ crossed' = (crossed \cup Holding) \ {e}
  /\ UNCHANGED <<store, server, start, job, pc, device, progress, served>>

-----------------------------------------------------------------------------
(* Process life. *)

(* Close: cancel the root context. *)
Close ==
  /\ up /\ ~closing
  /\ closing' = TRUE
  /\ UNCHANGED <<store, up, start, job, pc, device, progress, phone>>

(* The process ends, and with it all but the table and the directory: a     *)
(* kill at any time, or Close's return once the jobs' goroutines have.      *)
Exit ==
  /\ up
  /\ up'       = FALSE
  /\ closing'  = FALSE
  /\ start'    = [j \in Job |-> "idle"]
  /\ job'      = [j \in Job |-> Absent]
  /\ pc'       = [j \in Job |-> "none"]
  /\ stream'   = [j \in Job |-> "none"]
  /\ sent'     = [j \in Job |-> 0]
  /\ seen'     = [j \in Job |-> 0]
  /\ progress' = [j \in Job |-> Absent]
  /\ exporting' = {}
  /\ crossed'  = {}
  /\ served'   = [j \in Job |-> Nobody]
  /\ UNCHANGED <<store, package>>

(* recover, one row. *)
Recover(j) ==
  /\ ~up
  /\ row[j].status \in Active
  /\ row' = [row EXCEPT ![j].status = "failed", ![j].error = "interrupted"]
  /\ UNCHANGED <<lost, server, start, job, pc, device, progress, phone>>

(* New returns, and the server listens. *)
Restart ==
  /\ ~up
  /\ \A j \in Job : row[j].status \notin Active
  /\ up' = TRUE
  /\ UNCHANGED <<store, closing, start, job, pc, device, progress, phone>>

-----------------------------------------------------------------------------
Starting(j) == StartCheck(j) \/ StartPut(j) \/ StartRegister(j)

Running(j) ==
  \/ SetStatus(j) \/ PersistStatus(j)
  \/ Load(j) \/ LoadFails(j)
  \/ WriteBegin(j) \/ WriteEnd(j) \/ WriteFails(j) \/ PersistCount(j)
  \/ Connect(j) \/ ConnectFails(j)
  \/ WatchDone(j) \/ WatchCancelled(j) \/ WatchFailed(j)
  \/ Settle(j)

Streaming(j) == SendProgress(j) \/ EndStream(j)

Watching(j) == TakeProgress(j) \/ PersistProgress(j)

Next ==
  \/ \E j \in Job : Starting(j) \/ Running(j) \/ Streaming(j) \/ Watching(j) \/ Recover(j)
  \/ \E e \in Export : ExportBegin(e) \/ ExportEnd(e)
  \/ Close \/ Exit \/ Restart

Spec == Init /\ [][Next]_vars

-----------------------------------------------------------------------------
(* Once a goroutine has returned, the table holds what the service answers  *)
(* from memory, unless a write of the row was refused (watch's wg.Wait,     *)
(* service.go:308; finish, 356-369).                                        *)
DurableOutcome ==
  \A j \in Job : pc[j] = "exited" /\ j \notin lost => row[j] = job[j]

(* What the session restores for a job is the very package the job wrote,   *)
(* so one account's history is not restored in the name of another          *)
(* (service.go:243-276, sidecar.go:94-116).  Excused are the jobs whose     *)
(* files another restore or an export touched before the session read them. *)
RestoredItsOwn ==
  \A j \in Job : stream[j] # "none" /\ j \notin crossed => served[j] = j

(* The table of restores follows the promised lifecycle, in restore's own   *)
(* order of stages, when Starts of an account do not overlap.               *)
Ledger == INSTANCE JobLedger WITH ledger <- [j \in Job |-> row[j].status]

LedgerSpec == Ledger!Spec
=============================================================================
