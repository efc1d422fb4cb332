--------------------------- MODULE BackupJobProofs ---------------------------
(***************************************************************************)
(* Proofs about BackupJob, for any number of jobs, accounts, chunks and    *)
(* failing writes.  The safety properties are not inductive: they follow   *)
(* from IInv, which ties each goroutine's position to what its row and its *)
(* in-memory record can hold.                                              *)
(***************************************************************************)
EXTENDS BackupJob, TLAPS

(* The row and the record at each position of run. *)
StageOK(j) ==
  /\ pc[j] = "none" => job[j] = Absent
  /\ pc[j] = "set" => job[j].status \in Active /\ row[j].status = job[j].status
  /\ pc[j] = "persist" => row[j].status \in Active /\ job[j].status = Successor[row[j].status]
  /\ pc[j] \in {"connect", "transfer"} => row[j].status = "transfer" /\ job[j].status = "transfer"
  /\ pc[j] \in {"organize", "organized"} => row[j].status = "organize" /\ job[j].status = "organize"
  /\ pc[j] = "settle" => row[j].status \in Active /\ job[j].status \in {"failed", "cancelled"}
  /\ pc[j] = "exited" => job[j].status \in Terminal /\ (j \notin lost => row[j] = job[j])

(* Progress is outstanding only while run waits in transfer, and no copy   *)
(* of the record runs ahead of the record or behind the row.               *)
ProgressOK(j) ==
  /\ pc[j] # "transfer" => stream[j] # "open" /\ seen[j] = sent[j] /\ progress[j] = Absent
  /\ pc[j] \notin {"none", "exited"} => row[j].sessions <= job[j].sessions
  /\ progress[j] # Absent =>
       /\ progress[j].status = "transfer"
       /\ row[j].sessions <= progress[j].sessions
       /\ progress[j].sessions <= job[j].sessions

(* What a call of Start has done so far. *)
StartOK(j) ==
  /\ start[j] # "idle" => up /\ pc[j] = "none"
  /\ start[j] = "checked" => row[j] = Absent
  /\ start[j] = "put" => row[j] = Queued
  /\ up /\ pc[j] = "none" /\ row[j].status \in Active => start[j] = "put"
  /\ ~up => pc[j] = "none"

JobOK(j) == StageOK(j) /\ ProgressOK(j) /\ StartOK(j)

IInv == TypeOK /\ \A j \in Job : JobOK(j)

(* The records the actions build are records.                              *)
LEMMA Constructors ==
  /\ Absent \in Records /\ Queued \in Records /\ 0 \in 0..MaxChunks
  /\ \A rec \in Records, s \in Active \cup Terminal, e \in {"none", "cancelled", "fault", "interrupted"} :
        [rec EXCEPT !.status = s, !.error = e] \in Records
<1>1. 0 \in 0..MaxChunks BY ConstantsOK
<1>2. Absent \in Records BY <1>1 DEF Records, Absent
<1>3. Queued \in Records BY <1>1 DEF Records, Queued, Active
<1>4. \A rec \in Records, s \in Active \cup Terminal, e \in {"none", "cancelled", "fault", "interrupted"} :
        [rec EXCEPT !.status = s, !.error = e] \in Records
  BY DEF Records
<1> QED BY <1>1, <1>2, <1>3, <1>4

(* A step that leaves what concerns job k alone keeps its invariant.       *)
LEMMA Frame ==
  ASSUME NEW k \in Job, JobOK(k), k \in lost => k \in lost',
         UNCHANGED <<row[k], up, start[k], job[k], pc[k], stream[k], sent[k], seen[k], progress[k]>>
  PROVE  JobOK(k)'
BY DEF JobOK, StageOK, ProgressOK, StartOK

(* IInv, in the form the leaves below can use.                             *)
LEMMA Parts == IInv => TypeOK /\ \A j \in Job : JobOK(j) /\ StageOK(j) /\ ProgressOK(j) /\ StartOK(j)
BY DEF IInv, JobOK

(* A step of job j preserves IInv: j by parts, the others by Frame.        *)
LEMMA Whole ==
  ASSUME NEW j \in Job, TypeOK', StageOK(j)', ProgressOK(j)', StartOK(j)', \A k \in Job \ {j} : JobOK(k)'
  PROVE  IInv'
BY DEF IInv, JobOK

(* What the locked part of finish does to the records.                     *)
LEMMA FinishRecord ==
  ASSUME TypeOK, NEW j \in Job,
         NEW s \in {"failed", "cancelled"}, NEW e \in {"cancelled", "fault"}, Finish(j, s, e)
  PROVE  /\ job' \in [Job -> Records] /\ pc' = [pc EXCEPT ![j] = "settle"]
         /\ job'[j].status = s /\ job'[j].sessions = job[j].sessions
         /\ \A k \in Job \ {j} : job'[k] = job[k]
<1> DEFINE rec == [job[j] EXCEPT !.status = s, !.error = e]
<1>1. job[j] \in Records BY DEF TypeOK
<1>2. rec \in Records /\ rec.status = s /\ rec.sessions = job[j].sessions
  <2>1. s \in Active \cup Terminal /\ e \in {"none", "cancelled", "fault", "interrupted"}
    BY DEF Active, Terminal
  <2>2. rec \in Records BY <1>1, <2>1, Constructors
  <2> QED BY <1>1, <2>2 DEF Records
<1>3. job' = [job EXCEPT ![j] = rec] BY DEF Finish, TypeOK, Records
<1>4. job \in [Job -> Records] BY DEF TypeOK
<1>5. pc' = [pc EXCEPT ![j] = "settle"] BY DEF Finish
<1> HIDE DEF rec
<1> QED BY <1>2, <1>3, <1>4, <1>5

(* Every way to the failed or cancelled end, in one lemma.                 *)
LEMMA FinishInv ==
  ASSUME IInv, NEW j \in Job,
         NEW s \in {"failed", "cancelled"}, NEW e \in {"cancelled", "fault"}, Finish(j, s, e),
         pc[j] \in {"set", "persist", "connect", "transfer", "organize"},
         seen[j] = sent[j], progress[j] = Absent, stream[j] # "open",
         lost' \in SUBSET Job, lost \subseteq lost',
         UNCHANGED <<row, server, start, ctx, device, progress>>
  PROVE  IInv'
<1>1. /\ job' \in [Job -> Records] /\ pc' = [pc EXCEPT ![j] = "settle"]
      /\ job'[j].status = s /\ job'[j].sessions = job[j].sessions
      /\ \A k \in Job \ {j} : job'[k] = job[k]
  BY FinishRecord, Parts
<1>2. TypeOK' BY <1>1, Parts DEF TypeOK, server, device
<1>3. StageOK(j)' BY <1>1, Parts DEF TypeOK, StageOK, Active, Terminal, Successor
<1>4. ProgressOK(j)' BY <1>1, Parts DEF TypeOK, ProgressOK, device
<1>5. StartOK(j)' BY <1>1, Parts DEF TypeOK, StartOK, server
<1>6. \A k \in Job \ {j} : JobOK(k)' BY <1>1, Frame, Parts DEF TypeOK, server, device
<1> QED BY <1>2, <1>3, <1>4, <1>5, <1>6, Whole

(* A write of the table, whether it succeeds or is refused.                *)
LEMMA TryPutFacts ==
  ASSUME TypeOK, NEW j \in Job, NEW rec \in Records, TryPut(j, rec)
  PROVE  /\ row' \in [Job -> Records] /\ lost' \in SUBSET Job /\ lost \subseteq lost'
         /\ \A k \in Job \ {j} : row'[k] = row[k]
         /\ row'[j] = rec \/ (row'[j] = row[j] /\ j \in lost')
<1>1. row \in [Job -> Records] /\ lost \in SUBSET Job BY DEF TypeOK
<1>2. CASE Put(j, rec) BY <1>1, <1>2 DEF Put
<1>3. CASE PutFails(j) BY <1>1, <1>3 DEF PutFails
<1> QED BY <1>2, <1>3 DEF TryPut

(* The record of a registered job has a real status.                       *)
LEMMA RegisteredStatus ==
  ASSUME IInv, NEW j \in Job, pc[j] # "none" PROVE job[j].status \in Active \cup Terminal
<1>1. \A s \in Active : Successor[s] \in Active \cup Terminal BY DEF Successor, Active, Terminal
<1>2. CASE pc[j] = "persist" BY <1>1, <1>2, Parts DEF StageOK
<1>3. CASE pc[j] # "persist" BY <1>3, Parts DEF TypeOK, StageOK, Active, Terminal
<1> QED BY <1>2, <1>3

(* Start: the call has not registered anything before.                     *)
LEMMA StartCheckInv == ASSUME IInv, NEW j \in Job, StartCheck(j) PROVE IInv'
<1>1. TypeOK' BY Parts DEF TypeOK, StartCheck, store, server, device
<1>2. pc[j] = "none" BY RegisteredStatus DEF StartCheck, Absent, Active, Terminal
<1>3. StageOK(j)' BY <1>2, Parts DEF StageOK, StartCheck, store, server, device
<1>4. ProgressOK(j)' BY <1>2, Parts DEF ProgressOK, StartCheck, store, server, device
<1>5. StartOK(j)' BY <1>2, Parts DEF TypeOK, StartOK, StartCheck, Absent, Active, store, server, device
<1>6. \A k \in Job \ {j} : JobOK(k)' BY Frame, Parts DEF TypeOK, StartCheck, store, server, device
<1> QED BY <1>1, <1>3, <1>4, <1>5, <1>6, Whole

(* Start: the row appears, or the write is refused.                        *)
LEMMA StartPutInv == ASSUME IInv, NEW j \in Job, StartPut(j) PROVE IInv'
<1>1. pc[j] = "none" /\ row[j] = Absent /\ up BY Parts DEF StartOK, StartPut
<1>2. CASE /\ Put(j, Queued)
           /\ start' = [start EXCEPT ![j] = "put"]
  <2> USE <1>2
  <2>1. TypeOK' BY Parts, Constructors DEF TypeOK, StartPut, Put, server, device
  <2>2. StageOK(j)' BY <1>1, Parts DEF StageOK, StartPut, Put, server, device
  <2>3. ProgressOK(j)' BY <1>1, Parts DEF ProgressOK, StartPut, Put, server, device
  <2>4. StartOK(j)' BY <1>1, Parts DEF TypeOK, StartOK, StartPut, Put, server, device
  <2>5. \A k \in Job \ {j} : JobOK(k)' BY Frame, Parts DEF TypeOK, StartPut, Put, server, device
  <2> QED BY <2>1, <2>2, <2>3, <2>4, <2>5, Whole
<1>3. CASE /\ PutFails(j)
           /\ start' = [start EXCEPT ![j] = "idle"]
  <2> USE <1>3
  <2>1. TypeOK' BY Parts DEF TypeOK, StartPut, PutFails, server, device
  <2>2. StageOK(j)' BY <1>1, Parts DEF StageOK, StartPut, PutFails, server, device
  <2>3. ProgressOK(j)' BY <1>1, Parts DEF ProgressOK, StartPut, PutFails, server, device
  <2>4. StartOK(j)'
    BY <1>1, Parts DEF TypeOK, StartOK, StartPut, PutFails, Absent, Active, server, device
  <2>5. \A k \in Job \ {j} : JobOK(k)' BY Frame, Parts DEF TypeOK, StartPut, PutFails, server, device
  <2> QED BY <2>1, <2>2, <2>3, <2>4, <2>5, Whole
<1> QED BY <1>2, <1>3 DEF StartPut

(* Start: the record equals the row it has just inserted.                  *)
LEMMA StartRegisterInv == ASSUME IInv, NEW j \in Job, StartRegister(j) PROVE IInv'
<1>1. pc[j] = "none" /\ row[j] = Queued /\ up BY Parts DEF StartOK, StartRegister
<1>2. TypeOK' BY Parts, Constructors DEF TypeOK, StartRegister, store, server, device
<1>3. StageOK(j)' BY <1>1, Parts DEF TypeOK, StageOK, StartRegister, Queued, Active, store
<1>4. ProgressOK(j)'
  BY <1>1, Parts DEF TypeOK, ProgressOK, StartRegister, Queued, store, device
<1>5. StartOK(j)' BY <1>1, Parts DEF TypeOK, StartOK, StartRegister, store, server
<1>6. \A k \in Job \ {j} : JobOK(k)' BY Frame, Parts DEF TypeOK, StartRegister, store, server, device
<1> QED BY <1>2, <1>3, <1>4, <1>5, <1>6, Whole

(* setStatus moves the record one stage ahead of the row.                  *)
LEMMA SetStatusInv == ASSUME IInv, NEW j \in Job, SetStatus(j) PROVE IInv'
<1>1. pc[j] = "set" /\ job[j] \in Records /\ job[j].status \in Active
  BY Parts DEF TypeOK, SetStatus, StageOK
<1>2. seen[j] = sent[j] /\ progress[j] = Absent /\ stream[j] # "open" BY <1>1, Parts DEF ProgressOK
<1>3. CASE ctx[j]
  BY <1>1, <1>2, <1>3, FinishInv, Parts DEF SetStatus, TypeOK, store
<1>4. CASE ~ctx[j]
  <2> DEFINE rec == [job[j] EXCEPT !.status = Successor[@]]
  <2>1. rec \in Records /\ rec.status = Successor[job[j].status] /\ rec.sessions = job[j].sessions
    BY <1>1 DEF Records, Active, Terminal, Successor
  <2>2. job' = [job EXCEPT ![j] = rec] /\ pc' = [pc EXCEPT ![j] = "persist"]
    BY <1>4 DEF SetStatus
  <2> HIDE DEF rec
  <2>3. TypeOK' BY <2>1, <2>2, Parts DEF TypeOK, SetStatus, store, server, device
  <2>4. StageOK(j)' BY <1>1, <2>1, <2>2, Parts DEF TypeOK, StageOK, SetStatus, store
  <2>5. ProgressOK(j)' BY <1>1, <2>1, <2>2, Parts DEF TypeOK, ProgressOK, SetStatus, store, device
  <2>6. StartOK(j)' BY <1>1, <2>2, Parts DEF TypeOK, StartOK, SetStatus, store, server
  <2>7. \A k \in Job \ {j} : JobOK(k)'
    BY <2>2, Frame, Parts DEF TypeOK, SetStatus, store, server, device
  <2> QED BY <2>3, <2>4, <2>5, <2>6, <2>7, Whole
<1> QED BY <1>3, <1>4

(* The row catches up, or the job ends.                                    *)
LEMMA PersistStatusInv == ASSUME IInv, NEW j \in Job, PersistStatus(j) PROVE IInv'
<1>1. /\ pc[j] = "persist" /\ job[j] \in Records
      /\ row[j].status \in Active /\ job[j].status = Successor[row[j].status]
  BY Parts DEF TypeOK, PersistStatus, StageOK
<1>2. /\ seen[j] = sent[j] /\ progress[j] = Absent /\ stream[j] # "open"
      /\ row[j].sessions <= job[j].sessions
  BY <1>1, Parts DEF ProgressOK
<1>3. CASE Put(j, job[j]) /\ pc' = [pc EXCEPT ![j] = Resume[job[j].status]] /\ UNCHANGED job
  <2>1. row' = [row EXCEPT ![j] = job[j]] /\ lost' = lost BY <1>3 DEF Put
  <2>2. /\ Resume[job[j].status] \in {"connect", "organize", "set", "exited"}
        /\ Resume[job[j].status] = "connect" => job[j].status = "transfer"
        /\ Resume[job[j].status] = "organize" => job[j].status = "organize"
        /\ Resume[job[j].status] = "set" => job[j].status = "index"
        /\ Resume[job[j].status] = "exited" => job[j].status = "done"
    BY <1>1 DEF Resume, Active, Terminal, Successor
  <2>3. TypeOK' BY <1>1, <1>3, <2>1, <2>2, Parts DEF TypeOK, PersistStatus, server, device
  <2>4. StageOK(j)'
    BY <1>1, <1>3, <2>1, <2>2, Parts DEF TypeOK, StageOK, Active, Terminal
  <2>5. ProgressOK(j)'
    BY <1>1, <1>2, <1>3, <2>1, <2>2, Parts DEF TypeOK, Records, ProgressOK, PersistStatus, device
  <2>6. StartOK(j)' BY <1>1, <1>3, <2>1, <2>2, Parts DEF TypeOK, StartOK, PersistStatus, server
  <2>7. \A k \in Job \ {j} : JobOK(k)'
    BY <1>3, <2>1, Frame, Parts DEF TypeOK, PersistStatus, server, device
  <2> QED BY <2>3, <2>4, <2>5, <2>6, <2>7, Whole
<1>4. CASE PutFails(j) /\ job[j].status \in Terminal /\ pc' = [pc EXCEPT ![j] = "exited"] /\ UNCHANGED job
  <2>1. row' = row /\ lost' = lost \cup {j} BY <1>4 DEF PutFails
  <2>2. TypeOK' BY <1>4, <2>1, Parts DEF TypeOK, PersistStatus, server, device
  <2>3. StageOK(j)' BY <1>4, <2>1, Parts DEF TypeOK, StageOK
  <2>4. ProgressOK(j)' BY <1>2, <1>4, <2>1, Parts DEF TypeOK, ProgressOK, PersistStatus, device
  <2>5. StartOK(j)' BY <1>1, <1>4, <2>1, Parts DEF TypeOK, StartOK, PersistStatus, server
  <2>6. \A k \in Job \ {j} : JobOK(k)'
    BY <1>4, <2>1, Frame, Parts DEF TypeOK, PersistStatus, server, device
  <2> QED BY <2>2, <2>3, <2>4, <2>5, <2>6, Whole
<1>5. CASE PutFails(j) /\ Finish(j, "failed", "fault")
  BY <1>1, <1>2, <1>5, FinishInv, Parts DEF TypeOK, PersistStatus, PutFails
<1> QED BY <1>3, <1>4, <1>5 DEF PersistStatus

(* The stream opens.                                                       *)
LEMMA ConnectInv == ASSUME IInv, NEW j \in Job, Connect(j) PROVE IInv'
<1>1. TypeOK' BY Parts DEF TypeOK, Connect, store, server
<1>2. StageOK(j)' BY Parts DEF TypeOK, StageOK, Connect, store
<1>3. ProgressOK(j)' BY Parts DEF TypeOK, ProgressOK, Connect, store
<1>4. StartOK(j)' BY Parts DEF TypeOK, StartOK, Connect, store, server
<1>5. \A k \in Job \ {j} : JobOK(k)' BY Frame, Parts DEF TypeOK, Connect, store, server
<1> QED BY <1>1, <1>2, <1>3, <1>4, <1>5, Whole

(* It does not.                                                            *)
LEMMA ConnectEndsInv ==
  ASSUME IInv, NEW j \in Job, ConnectFails(j) \/ ConnectCancelled(j) PROVE IInv'
<1>1. pc[j] = "connect" BY DEF ConnectFails, ConnectCancelled
<1>2. seen[j] = sent[j] /\ progress[j] = Absent /\ stream[j] # "open" BY <1>1, Parts DEF ProgressOK
<1> QED BY <1>1, <1>2, FinishInv, Parts DEF TypeOK, ConnectFails, ConnectCancelled, store

(* transfer returns only when no progress is outstanding.                  *)
LEMMA TransferDoneInv == ASSUME IInv, NEW j \in Job, TransferDone(j) PROVE IInv'
<1>1. TypeOK' BY Parts DEF TypeOK, TransferDone, store, server, device
<1>2. StageOK(j)' BY Parts DEF TypeOK, StageOK, TransferDone, Active, store
<1>3. ProgressOK(j)' BY Parts DEF TypeOK, ProgressOK, TransferDone, Drained, store, device
<1>4. StartOK(j)' BY Parts DEF TypeOK, StartOK, TransferDone, store, server
<1>5. \A k \in Job \ {j} : JobOK(k)' BY Frame, Parts DEF TypeOK, TransferDone, store, server, device
<1> QED BY <1>1, <1>2, <1>3, <1>4, <1>5, Whole

(* The same when it ends in an error.                                      *)
LEMMA TransferEndsInv ==
  ASSUME IInv, NEW j \in Job, TransferCancelled(j) \/ TransferFailed(j) PROVE IInv'
<1>1. pc[j] = "transfer" /\ Drained(j) BY DEF TransferCancelled, TransferFailed
<1> QED BY <1>1, FinishInv, Parts DEF Drained, TypeOK, TransferCancelled, TransferFailed, store

(* organize can only raise the count.                                      *)
LEMMA OrganizeInv == ASSUME IInv, NEW j \in Job, Organize(j) PROVE IInv'
<1>1. pc[j] = "organize" /\ job[j] \in Records BY Parts DEF TypeOK, Organize
<1>2. PICK n \in 0..MaxChunks : job' = [job EXCEPT ![j].sessions = Larger(@, n)] BY DEF Organize
<1> DEFINE rec == [job[j] EXCEPT !.sessions = Larger(@, n)]
<1>3. rec \in Records /\ rec.status = job[j].status /\ rec.sessions >= job[j].sessions
  BY <1>1, ConstantsOK DEF Records, Larger
<1>4. job' = [job EXCEPT ![j] = rec] /\ pc' = [pc EXCEPT ![j] = "organized"] BY <1>2 DEF Organize
<1> HIDE DEF rec
<1>5. TypeOK' BY <1>3, <1>4, Parts DEF TypeOK, Organize, store, server, device
<1>6. StageOK(j)' BY <1>1, <1>3, <1>4, Parts DEF TypeOK, StageOK, Organize, store
<1>7. ProgressOK(j)'
  <2>1. row[j].sessions <= rec.sessions
    <3>1. row[j].sessions <= job[j].sessions /\ row[j] \in Records
      BY <1>1, Parts DEF TypeOK, ProgressOK
    <3> QED BY <3>1, <1>1, <1>3, ConstantsOK DEF Records
  <2>2. job'[j] = rec /\ pc'[j] = "organized" BY <1>4, Parts DEF TypeOK
  <2> QED BY <1>1, <2>1, <2>2, Parts DEF ProgressOK, Organize, store, device
<1>8. StartOK(j)' BY <1>1, <1>4, Parts DEF TypeOK, StartOK, Organize, store, server
<1>9. \A k \in Job \ {j} : JobOK(k)'
  BY <1>4, Frame, Parts DEF TypeOK, Organize, store, server, device
<1> QED BY <1>5, <1>6, <1>7, <1>8, <1>9, Whole

(* organize ends in an error.                                              *)
LEMMA OrganizeEndsInv ==
  ASSUME IInv, NEW j \in Job, OrganizeCancelled(j) \/ OrganizeFails(j) PROVE IInv'
<1>1. pc[j] = "organize" BY DEF OrganizeCancelled, OrganizeFails
<1>2. seen[j] = sent[j] /\ progress[j] = Absent /\ stream[j] # "open" BY <1>1, Parts DEF ProgressOK
<1> QED BY <1>1, <1>2, FinishInv, Parts DEF TypeOK, OrganizeCancelled, OrganizeFails, store

(* The ignored write keeps the stage.                                      *)
LEMMA PersistOrganizedInv == ASSUME IInv, NEW j \in Job, PersistOrganized(j) PROVE IInv'
<1>1. /\ pc[j] = "organized" /\ job[j] \in Records /\ row[j] \in Records
      /\ row[j].status = "organize" /\ job[j].status = "organize"
  BY Parts DEF TypeOK, StageOK, PersistOrganized
<1>2. /\ row' \in [Job -> Records] /\ lost' \in SUBSET Job /\ lost \subseteq lost'
      /\ \A k \in Job \ {j} : row'[k] = row[k]
      /\ row'[j] = job[j] \/ row'[j] = row[j]
  BY <1>1, TryPutFacts, Parts DEF PersistOrganized
<1>3. TypeOK' BY <1>2, Parts DEF TypeOK, PersistOrganized, server, device
<1>4. StageOK(j)' BY <1>1, <1>2, Parts DEF TypeOK, StageOK, PersistOrganized, Active
<1>5. ProgressOK(j)'
  <2>1. /\ UNCHANGED <<job, stream, sent, seen, progress>> /\ pc'[j] = "set"
        /\ row'[j].sessions <= job[j].sessions
    <3>1. job[j].sessions \in Nat /\ row[j].sessions <= job[j].sessions
      BY <1>1, Parts DEF Records, ProgressOK
    <3>2. row'[j].sessions <= job[j].sessions BY <1>2, <3>1
    <3> QED BY <3>2, Parts DEF TypeOK, PersistOrganized, device
  <2> QED BY <1>1, <2>1, Parts DEF ProgressOK
<1>6. StartOK(j)' BY <1>1, <1>2, Parts DEF TypeOK, StartOK, PersistOrganized, server
<1>7. \A k \in Job \ {j} : k \in lost' => k \in lost
  BY DEF PersistOrganized, TryPut, Put, PutFails
<1>8. \A k \in Job \ {j} : JobOK(k)'
  BY <1>2, <1>7, Frame, Parts DEF TypeOK, PersistOrganized, server, device
<1> QED BY <1>3, <1>4, <1>5, <1>6, <1>8, Whole

(* After the last write row and record agree, or the write was lost.       *)
LEMMA SettleInv == ASSUME IInv, NEW j \in Job, Settle(j) PROVE IInv'
<1>1. /\ pc[j] = "settle" /\ job[j] \in Records /\ row[j] \in Records
      /\ row[j].status \in Active /\ job[j].status \in {"failed", "cancelled"}
  BY Parts DEF TypeOK, StageOK, Settle
<1>2. /\ row' \in [Job -> Records] /\ lost' \in SUBSET Job /\ lost \subseteq lost'
      /\ \A k \in Job \ {j} : row'[k] = row[k]
      /\ row'[j] = job[j] \/ (row'[j] = row[j] /\ j \in lost')
  BY <1>1, TryPutFacts, Parts DEF Settle
<1>3. TypeOK' BY <1>2, Parts DEF TypeOK, Settle, server, device
<1>4. StageOK(j)' BY <1>1, <1>2, Parts DEF TypeOK, StageOK, Settle, Terminal
<1>5. ProgressOK(j)' BY <1>1, <1>2, Parts DEF TypeOK, ProgressOK, Settle, device
<1>6. StartOK(j)' BY <1>1, <1>2, Parts DEF TypeOK, StartOK, Settle, server
<1>7. \A k \in Job \ {j} : k \in lost' => k \in lost BY DEF Settle, TryPut, Put, PutFails
<1>8. \A k \in Job \ {j} : JobOK(k)'
  BY <1>2, <1>7, Frame, Parts DEF TypeOK, Settle, server, device
<1> QED BY <1>3, <1>4, <1>5, <1>6, <1>8, Whole

(* The stream moves only while run is in transfer.                         *)
LEMMA SendChunkInv == ASSUME IInv, NEW j \in Job, SendChunk(j) PROVE IInv'
<1>1. pc[j] = "transfer" BY Parts DEF ProgressOK, SendChunk
<1>2. TypeOK' BY ConstantsOK, Parts DEF TypeOK, SendChunk, store, server
<1>3. StageOK(j)' BY Parts DEF StageOK, SendChunk, store
<1>4. ProgressOK(j)' BY <1>1, Parts DEF ProgressOK, SendChunk, store
<1>5. StartOK(j)' BY Parts DEF StartOK, SendChunk, store, server
<1>6. \A k \in Job \ {j} : JobOK(k)' BY Frame, Parts DEF TypeOK, SendChunk, store, server
<1> QED BY <1>2, <1>3, <1>4, <1>5, <1>6, Whole

(* The same for its end.                                                   *)
LEMMA EndStreamInv == ASSUME IInv, NEW j \in Job, EndStream(j) PROVE IInv'
<1>1. pc[j] = "transfer" BY Parts DEF ProgressOK, EndStream
<1>2. TypeOK' BY Parts DEF TypeOK, EndStream, store, server
<1>3. StageOK(j)' BY Parts DEF StageOK, EndStream, store
<1>4. ProgressOK(j)' BY <1>1, Parts DEF ProgressOK, EndStream, store
<1>5. StartOK(j)' BY Parts DEF StartOK, EndStream, store, server
<1>6. \A k \in Job \ {j} : JobOK(k)' BY Frame, Parts DEF TypeOK, EndStream, store, server
<1> QED BY <1>2, <1>3, <1>4, <1>5, <1>6, Whole

(* The copy taken under the lock is the record itself.                     *)
LEMMA TakeProgressInv == ASSUME IInv, NEW j \in Job, TakeProgress(j) PROVE IInv'
<1>1. pc[j] = "transfer" BY Parts DEF TypeOK, ProgressOK, TakeProgress
<1>2. /\ job[j] \in Records /\ row[j].status = "transfer" /\ job[j].status = "transfer"
      /\ row[j] \in Records /\ row[j].sessions <= job[j].sessions
  BY <1>1, Parts DEF TypeOK, StageOK, ProgressOK
<1>3. seen[j] + 1 \in 0..MaxChunks BY ConstantsOK, Parts DEF TypeOK, TakeProgress
<1> DEFINE rec == [job[j] EXCEPT !.sessions = Larger(@, seen[j] + 1)]
<1>4. rec \in Records /\ rec.status = "transfer" /\ rec.sessions >= job[j].sessions
  BY <1>2, <1>3, ConstantsOK DEF Records, Larger
<1>5. job' = [job EXCEPT ![j] = rec] /\ progress' = [progress EXCEPT ![j] = job'[j]]
  BY <1>2 DEF TakeProgress
<1> HIDE DEF rec
<1>6. job'[j] = rec /\ progress'[j] = rec BY <1>5, Parts DEF TypeOK
<1>7. TypeOK'
  BY <1>3, <1>4, <1>5, <1>6, Parts DEF TypeOK, TakeProgress, store, server
<1>8. StageOK(j)' BY <1>1, <1>2, <1>4, <1>6, Parts DEF StageOK, TakeProgress, store
<1>9. ProgressOK(j)'
  BY <1>1, <1>2, <1>4, <1>6, ConstantsOK DEF Records, ProgressOK, TakeProgress, store
<1>10. StartOK(j)' BY Parts DEF StartOK, TakeProgress, store, server
<1>11. \A k \in Job \ {j} : JobOK(k)'
  BY <1>5, Frame, Parts DEF TypeOK, TakeProgress, store, server
<1> QED BY <1>7, <1>8, <1>9, <1>10, <1>11, Whole

(* An old copy lies between the row and the record.                        *)
LEMMA PersistProgressInv == ASSUME IInv, NEW j \in Job, PersistProgress(j) PROVE IInv'
<1>1. pc[j] = "transfer" BY Parts DEF ProgressOK, PersistProgress
<1>2. /\ job[j] \in Records /\ row[j].status = "transfer" /\ job[j].status = "transfer"
      /\ progress[j].status = "transfer" /\ progress[j] \in Records
      /\ row[j].sessions <= job[j].sessions /\ progress[j].sessions <= job[j].sessions
  BY <1>1, Parts DEF TypeOK, StageOK, ProgressOK, PersistProgress
<1>3. /\ row' \in [Job -> Records] /\ lost' \in SUBSET Job /\ lost \subseteq lost'
      /\ \A k \in Job \ {j} : row'[k] = row[k]
      /\ row'[j] = progress[j] \/ row'[j] = row[j]
  BY <1>2, TryPutFacts, Parts DEF PersistProgress
<1>4. progress' = [progress EXCEPT ![j] = Absent] BY DEF PersistProgress
<1>5. TypeOK'
  <2>1. progress' \in [Job -> Records] BY <1>4, Constructors, Parts DEF TypeOK
  <2> QED BY <1>3, <2>1, Parts DEF TypeOK, PersistProgress, server, device
<1>6. StageOK(j)' BY <1>1, <1>2, <1>3, Parts DEF StageOK, PersistProgress
<1>7. progress'[j] = Absent BY <1>4, Parts DEF TypeOK
<1>8. ProgressOK(j)' BY <1>1, <1>2, <1>3, <1>7 DEF ProgressOK, PersistProgress, device
<1>9. StartOK(j)' BY <1>1, <1>2, <1>3, Parts DEF StartOK, PersistProgress, server
<1>10. \A k \in Job \ {j} : k \in lost' => k \in lost
  BY DEF PersistProgress, TryPut, Put, PutFails
<1>11. \A k \in Job \ {j} : JobOK(k)'
  BY <1>3, <1>4, <1>10, Frame, Parts DEF TypeOK, PersistProgress, server, device
<1> QED BY <1>5, <1>6, <1>8, <1>9, <1>11, Whole

(* Cancel touches the context only.                                        *)
LEMMA CancelInv == ASSUME IInv, NEW j \in Job, Cancel(j) PROVE IInv'
<1>1. TypeOK' BY Parts DEF TypeOK, Cancel, store, server, device
<1>2. \A k \in Job : JobOK(k)' BY Frame, Parts DEF Cancel, store, server, device
<1> QED BY <1>1, <1>2 DEF IInv

(* recover finds no job registered.                                        *)
LEMMA RecoverInv == ASSUME IInv, NEW j \in Job, Recover(j) PROVE IInv'
<1>1. pc[j] = "none" /\ row[j] \in Records BY Parts DEF TypeOK, StartOK, Recover
<1> DEFINE rec == [row[j] EXCEPT !.status = "failed", !.error = "interrupted"]
<1>2. rec \in Records BY <1>1, Constructors DEF Terminal
<1>3. row' = [row EXCEPT ![j] = rec] BY DEF Recover
<1> HIDE DEF rec
<1>4. TypeOK'
  <2>1. row' \in [Job -> Records] BY <1>2, <1>3, Parts DEF TypeOK
  <2> QED BY <2>1, Parts DEF TypeOK, Recover, server, device
<1>5. StageOK(j)' BY <1>1, Parts DEF StageOK, Recover
<1>6. ProgressOK(j)' BY <1>1, Parts DEF ProgressOK, Recover, device
<1>7. StartOK(j)' BY <1>1, Parts DEF StartOK, Recover, server
<1>8. \A k \in Job \ {j} : JobOK(k)' BY <1>3, Frame, Parts DEF TypeOK, Recover, server, device
<1> QED BY <1>4, <1>5, <1>6, <1>7, <1>8, Whole

(* Close touches contexts only.                                            *)
LEMMA CloseInv == ASSUME IInv, Close PROVE IInv'
<1>1. TypeOK' BY Parts DEF TypeOK, Close, store, device
<1>2. \A k \in Job : JobOK(k)' BY Frame, Parts DEF Close, store, device
<1> QED BY <1>1, <1>2 DEF IInv

(* A process that is gone: no goroutine, only rows.                        *)
LEMMA ForgetInv == ASSUME IInv, Forget, up' = FALSE, UNCHANGED store PROVE IInv'
<1>1. TypeOK' BY Parts, Constructors DEF TypeOK, Forget, store
<1>2. ASSUME NEW k \in Job PROVE JobOK(k)'
  <2>1. StageOK(k)' BY DEF Forget, StageOK
  <2>2. ProgressOK(k)' BY DEF Forget, ProgressOK
  <2>3. StartOK(k)' BY DEF Forget, StartOK
  <2> QED BY <2>1, <2>2, <2>3 DEF JobOK
<1> QED BY <1>1, <1>2 DEF IInv

(* New returns only when no row is active.                                 *)
LEMMA RestartInv == ASSUME IInv, Restart PROVE IInv'
<1>1. TypeOK' BY Parts DEF TypeOK, Restart, store, device
<1>2. ASSUME NEW k \in Job PROVE JobOK(k)'
  <2>1. StageOK(k)' BY Parts DEF Restart, StageOK, store
  <2>2. ProgressOK(k)' BY Parts DEF Restart, ProgressOK, store, device
  <2>3. StartOK(k)' BY Parts DEF Restart, StartOK, store
  <2> QED BY <2>1, <2>2, <2>3 DEF JobOK
<1> QED BY <1>1, <1>2 DEF IInv

(* The empty table.                                                        *)
LEMMA InitInv == Init => IInv
<1> SUFFICES ASSUME Init PROVE IInv OBVIOUS
<1>1. TypeOK BY Constructors DEF Init, TypeOK
<1>2. ASSUME NEW k \in Job PROVE JobOK(k)
  <2>1. StageOK(k) BY DEF Init, StageOK
  <2>2. ProgressOK(k) BY DEF Init, ProgressOK
  <2>3. StartOK(k) BY DEF Init, StartOK, Absent, Active
  <2> QED BY <2>1, <2>2, <2>3 DEF JobOK
<1> QED BY <1>1, <1>2 DEF IInv

(* IInv is inductive.                                                      *)
LEMMA NextInv == IInv /\ [Next]_vars => IInv'
<1> SUFFICES ASSUME IInv, [Next]_vars PROVE IInv' OBVIOUS
<1>1. ASSUME NEW j \in Job, Starting(j) PROVE IInv'
  BY <1>1, StartCheckInv, StartPutInv, StartRegisterInv DEF Starting
<1>2. ASSUME NEW j \in Job, Running(j) PROVE IInv'
  BY <1>2, SetStatusInv, PersistStatusInv, ConnectEndsInv, TransferDoneInv, TransferEndsInv,
     OrganizeInv, OrganizeEndsInv, PersistOrganizedInv, SettleInv DEF Running
<1>3. ASSUME NEW j \in Job, Connect(j) \/ ConnectFails(j) PROVE IInv'
  BY <1>3, ConnectInv, ConnectEndsInv
<1>4. ASSUME NEW j \in Job, Streaming(j) PROVE IInv'
  BY <1>4, SendChunkInv, EndStreamInv DEF Streaming
<1>5. ASSUME NEW j \in Job, Watching(j) PROVE IInv'
  BY <1>5, TakeProgressInv, PersistProgressInv DEF Watching
<1>6. ASSUME NEW j \in Job, Cancel(j) \/ Recover(j) PROVE IInv'
  BY <1>6, CancelInv, RecoverInv
<1>7. CASE Close \/ Restart BY <1>7, CloseInv, RestartInv
<1>8. CASE CloseReturns \/ Crash BY <1>8, ForgetInv DEF CloseReturns, Crash
<1>9. CASE UNCHANGED vars
  <2>1. TypeOK' BY <1>9, Parts DEF TypeOK, vars, store, server, device
  <2>2. \A k \in Job : JobOK(k)' BY <1>9, Frame, Parts DEF vars, store, server, device
  <2> QED BY <2>1, <2>2 DEF IInv
<1> QED BY <1>1, <1>2, <1>3, <1>4, <1>5, <1>6, <1>7, <1>8, <1>9 DEF Next

-----------------------------------------------------------------------------
(* IInv holds in every reachable state. *)
THEOREM Invariance == Spec => []IInv
BY InitInv, NextInv, PTL DEF Spec

(* Every variable keeps its type: no count passes its bound, no row or      *)
(* record holds a status the service does not have.                         *)
THEOREM TypeCorrect == Spec => []TypeOK
<1>1. IInv => TypeOK BY DEF IInv
<1> QED BY <1>1, Invariance, PTL

(* No late or reordered write can replace a job's outcome in the table.     *)
THEOREM OutcomeIsDurable == Spec => []DurableOutcome
<1>1. IInv => DurableOutcome BY DEF IInv, JobOK, StageOK, DurableOutcome
<1> QED BY <1>1, Invariance, PTL

(* While requests are served, every active row has an owner in memory.      *)
THEOREM RowsAreOwned == Spec => []NoOrphanRow
<1>1. ASSUME IInv, NEW j \in Job, up, row[j].status \in Active, job[j] = Absent
      PROVE  start[j] = "put"
  <2>1. pc[j] = "none" BY <1>1, RegisteredStatus DEF Absent, Active, Terminal
  <2> QED BY <1>1, <2>1, Parts DEF StartOK
<1>2. IInv => NoOrphanRow BY <1>1 DEF NoOrphanRow
<1> QED BY <1>2, Invariance, PTL

-----------------------------------------------------------------------------
(* What one step can do to the table: nothing, insert the row of a Start   *)
(* that has passed its check, or rewrite one active row without lowering   *)
(* its count, in the same stage, the next one or as aborted.               *)
Inserts(j, rec) == StartPut(j) /\ Put(j, Queued) /\ row[j] = Absent /\ rec = Queued

Rewrites(j, rec) ==
  /\ row[j].status \in Active
  /\ rec.status \in {row[j].status, Successor[row[j].status], "failed", "cancelled"}

RowStep(j, rec) ==
  /\ row' = [row EXCEPT ![j] = rec]
  /\ rec.sessions >= row[j].sessions
  /\ Inserts(j, rec) \/ Rewrites(j, rec)

TableStep == row' = row \/ \E j \in Job, rec \in Records : RowStep(j, rec)

(* No step does anything else to the table.                                *)
LEMMA RowSteps == ASSUME IInv, [Next]_vars PROVE TableStep
<1>1. ASSUME NEW j \in Job, StartPut(j) PROVE TableStep
  <2>1. row[j] = Absent BY <1>1, Parts DEF StartOK, StartPut
  <2>2. CASE Put(j, Queued)
    <3>1. RowStep(j, Queued)
      BY <1>1, <2>1, <2>2 DEF RowStep, Inserts, Put, Queued, Absent
    <3> QED BY <3>1, Constructors DEF TableStep
  <2>3. CASE PutFails(j) BY <2>3 DEF PutFails, TableStep
  <2> QED BY <1>1, <2>2, <2>3 DEF StartPut
<1>2. ASSUME NEW j \in Job, PersistStatus(j) PROVE TableStep
  <2>1. /\ job[j] \in Records /\ row[j] \in Records /\ row[j].sessions <= job[j].sessions
        /\ row[j].status \in Active /\ job[j].status = Successor[row[j].status]
    BY <1>2, Parts DEF TypeOK, StageOK, ProgressOK, PersistStatus
  <2>2. CASE Put(j, job[j])
    <3>1. RowStep(j, job[j]) BY <2>1, <2>2 DEF RowStep, Rewrites, Put, Records
    <3> QED BY <3>1, <2>1 DEF TableStep
  <2>3. CASE PutFails(j) BY <2>3 DEF PutFails, TableStep
  <2> QED BY <1>2, <2>2, <2>3 DEF PersistStatus
<1>3. ASSUME NEW j \in Job, PersistOrganized(j) \/ Settle(j) PROVE TableStep
  <2>1. /\ job[j] \in Records /\ row[j] \in Records /\ row[j].sessions <= job[j].sessions
        /\ row[j].status \in Active
        /\ job[j].status \in {row[j].status, "failed", "cancelled"}
    BY <1>3, Parts DEF TypeOK, StageOK, ProgressOK, PersistOrganized, Settle, Active
  <2>2. CASE Put(j, job[j])
    <3>1. RowStep(j, job[j]) BY <2>1, <2>2 DEF RowStep, Rewrites, Put, Records
    <3> QED BY <3>1, <2>1 DEF TableStep
  <2>3. CASE PutFails(j) BY <2>3 DEF PutFails, TableStep
  <2> QED BY <1>3, <2>2, <2>3 DEF PersistOrganized, Settle, TryPut
<1>4. ASSUME NEW j \in Job, PersistProgress(j) PROVE TableStep
  <2>1. pc[j] = "transfer" /\ progress[j] # Absent BY <1>4, Parts DEF ProgressOK, PersistProgress
  <2>2. /\ progress[j] \in Records /\ row[j] \in Records
        /\ row[j].sessions <= progress[j].sessions
        /\ row[j].status = "transfer" /\ progress[j].status = "transfer"
    BY <2>1, Parts DEF TypeOK, StageOK, ProgressOK
  <2>3. CASE Put(j, progress[j])
    <3>1. RowStep(j, progress[j]) BY <2>2, <2>3 DEF RowStep, Rewrites, Put, Records, Active
    <3> QED BY <3>1, <2>2 DEF TableStep
  <2>4. CASE PutFails(j) BY <2>4 DEF PutFails, TableStep
  <2> QED BY <1>4, <2>3, <2>4 DEF PersistProgress, TryPut
<1>5. ASSUME NEW j \in Job, Recover(j) PROVE TableStep
  <2> DEFINE rec == [row[j] EXCEPT !.status = "failed", !.error = "interrupted"]
  <2>1. row[j] \in Records BY Parts DEF TypeOK
  <2>2. rec \in Records BY <2>1, Constructors DEF Terminal
  <2>3. rec.status = "failed" /\ rec.sessions = row[j].sessions BY <2>1 DEF Records
  <2>4. row' = [row EXCEPT ![j] = rec] /\ row[j].status \in Active BY <1>5 DEF Recover
  <2> HIDE DEF rec
  <2>5. row[j].sessions \in Nat BY <2>1 DEF Records
  <2>6. RowStep(j, rec) BY <2>3, <2>4, <2>5 DEF RowStep, Rewrites
  <2> QED BY <2>2, <2>6 DEF TableStep
<1>6. ASSUME NEW j \in Job, StartCheck(j) \/ StartRegister(j) PROVE row' = row
  BY <1>6 DEF StartCheck, StartRegister, store
<1>7. ASSUME NEW j \in Job,
             \/ SetStatus(j) \/ Connect(j) \/ ConnectFails(j) \/ ConnectCancelled(j)
             \/ TransferDone(j) \/ TransferCancelled(j) \/ TransferFailed(j)
             \/ Organize(j) \/ OrganizeCancelled(j) \/ OrganizeFails(j)
      PROVE  row' = row
  BY <1>7 DEF SetStatus, Connect, ConnectFails, ConnectCancelled, TransferDone, TransferCancelled,
     TransferFailed, Organize, OrganizeCancelled, OrganizeFails, store
<1>8. ASSUME NEW j \in Job, Streaming(j) \/ TakeProgress(j) \/ Cancel(j) PROVE row' = row
  BY <1>8 DEF Streaming, SendChunk, EndStream, TakeProgress, Cancel, store
<1>9. CASE Close \/ CloseReturns \/ Crash \/ Restart \/ UNCHANGED vars
  BY <1>9 DEF Close, CloseReturns, Crash, Restart, vars, store, TableStep
<1>10. row' = row => TableStep BY DEF TableStep
<1>11. ASSUME NEW j \in Job, Starting(j) \/ Running(j) PROVE TableStep
  BY <1>1, <1>2, <1>3, <1>6, <1>7, <1>10, <1>11 DEF Starting, Running
<1>12. ASSUME NEW j \in Job, Connect(j) \/ ConnectFails(j) \/ Streaming(j) \/ Watching(j)
       PROVE  TableStep
  BY <1>4, <1>7, <1>8, <1>10, <1>12 DEF Watching
<1>13. ASSUME NEW j \in Job, Cancel(j) \/ Recover(j) PROVE TableStep
  BY <1>5, <1>8, <1>10, <1>13
<1> QED BY <1>9, <1>10, <1>11, <1>12, <1>13 DEF Next

(* The session count of a row never goes down.                              *)
THEOREM CountsOnlyGrow == Spec => ProgressNeverRegresses
<1>1. ASSUME IInv, [Next]_vars
      PROVE  \A j \in Job : row'[j].sessions >= row[j].sessions
  <2>1. \A j \in Job : row[j] \in Records /\ row[j].sessions \in Nat
    BY <1>1, Parts DEF TypeOK, Records
  <2>2. CASE row' = row BY <2>1, <2>2
  <2>3. ASSUME NEW k \in Job, NEW rec \in Records, RowStep(k, rec)
        PROVE  \A j \in Job : row'[j].sessions >= row[j].sessions
    BY <2>1, <2>3, <1>1, Parts DEF RowStep, TypeOK
  <2> QED BY <1>1, <2>2, <2>3, RowSteps DEF TableStep
<1>2. IInv /\ [Next]_vars => [\A j \in Job : row'[j].sessions >= row[j].sessions]_row BY <1>1
<1> QED BY <1>2, Invariance, PTL DEF Spec, ProgressNeverRegresses

-----------------------------------------------------------------------------
(* When Starts do not overlap, one account never has two active rows: an    *)
(* insertion follows its check with no other insertion in between.          *)
Exclusive == \A j, k \in Job : start[j] # "idle" /\ start[k] # "idle" => j = k

Checked == \A j \in Job : start[j] = "checked" => Rivals(j) = {}

SerialInv == IInv /\ Exclusive /\ Checked /\ OneActivePerAccount

(* No call of Start moves forward and no row becomes active. *)
Quiet ==
  \A j \in Job :
    /\ start'[j] # "idle" => start[j] # "idle"
    /\ start'[j] = "checked" => start[j] = "checked"
    /\ row'[j].status \in Active => row[j].status \in Active

(* A quiet step keeps the rows of an account apart.                        *)
LEMMA QuietSerial == ASSUME SerialInv, IInv', Quiet PROVE SerialInv'
<1>1. Exclusive' BY DEF SerialInv, Exclusive, Quiet
<1>2. Checked' BY DEF SerialInv, Checked, Quiet, Rivals
<1>3. OneActivePerAccount' BY DEF SerialInv, OneActivePerAccount, Quiet
<1> QED BY <1>1, <1>2, <1>3 DEF SerialInv

(* Passing the check leaves every other Start idle.                        *)
LEMMA StartCheckSerial ==
  ASSUME SerialInv, IInv', ~ConcurrentStarts, NEW j \in Job, StartCheck(j) PROVE SerialInv'
<1>1. /\ \A k \in Job : start[k] = "idle"
      /\ Rivals(j) = {} /\ row' = row /\ start' = [start EXCEPT ![j] = "checked"]
  BY DEF StartCheck, store
<1>2. \A k \in Job \ {j} : start'[k] = "idle" BY <1>1, Parts DEF SerialInv, TypeOK
<1>3. Exclusive' BY <1>2 DEF Exclusive
<1>4. Checked' BY <1>1, <1>2 DEF Checked, Rivals
<1>5. OneActivePerAccount' BY <1>1 DEF SerialInv, OneActivePerAccount
<1> QED BY <1>3, <1>4, <1>5 DEF SerialInv

(* The row inserted meets no rival.                                        *)
LEMMA StartPutSerial ==
  ASSUME SerialInv, IInv', NEW j \in Job, StartPut(j), Put(j, Queued) PROVE SerialInv'
<1>1. start[j] = "checked" /\ Rivals(j) = {} BY DEF StartPut, SerialInv, Checked
<1>2. \A k \in Job \ {j} : start[k] = "idle" BY <1>1 DEF SerialInv, Exclusive
<1>3. /\ \A k \in Job \ {j} : start'[k] = "idle" /\ row'[k] = row[k]
      /\ start'[j] \in {"idle", "put"}
  BY <1>2, Parts DEF StartPut, Put, TypeOK, SerialInv
<1>4. Exclusive' BY <1>3 DEF Exclusive
<1>5. Checked' BY <1>3 DEF Checked
<1>6. OneActivePerAccount' BY <1>1, <1>3 DEF SerialInv, OneActivePerAccount, Rivals
<1> QED BY <1>4, <1>5, <1>6 DEF SerialInv

(* Every other step is quiet.  RowSteps gives the rows; the calls of Start *)
(* only return or are forgotten.                                           *)
LEMMA NextSerial ==
  ASSUME SerialInv, ~ConcurrentStarts, [Next]_vars PROVE SerialInv'
<1>1. IInv /\ IInv' BY NextInv DEF SerialInv
<1>2. CASE \E j \in Job : StartCheck(j) BY <1>1, <1>2, StartCheckSerial
<1>3. CASE \E j \in Job : StartPut(j) /\ Put(j, Queued) BY <1>1, <1>3, StartPutSerial
<1>4. CASE ~(\E j \in Job : StartCheck(j)) /\ ~(\E j \in Job : StartPut(j) /\ Put(j, Queued))
  <2>1. \A k \in Job : start'[k] # "idle" => start[k] # "idle" /\ start'[k] = start[k]
    <3>1. ASSUME NEW j \in Job, start' = [start EXCEPT ![j] = "idle"]
          PROVE  \A k \in Job : start'[k] # "idle" => start[k] # "idle" /\ start'[k] = start[k]
      BY <1>1, <3>1, Parts DEF TypeOK
    <3>2. ASSUME NEW j \in Job, StartPut(j) \/ StartRegister(j) PROVE start' = [start EXCEPT ![j] = "idle"]
      BY <1>4, <3>2 DEF StartPut, StartRegister
    <3>3. CASE start' = start BY <3>3
    <3>4. CASE Forget BY <3>4 DEF Forget
    <3>5. ASSUME NEW j \in Job, Running(j) \/ Connect(j) \/ ConnectFails(j) PROVE start' = start
      BY <3>5 DEF Running, SetStatus, PersistStatus, Connect, ConnectFails, ConnectCancelled,
         TransferDone, TransferCancelled, TransferFailed, Organize, OrganizeCancelled,
         OrganizeFails, PersistOrganized, Settle
    <3>6. ASSUME NEW j \in Job, Streaming(j) \/ Watching(j) \/ Cancel(j) \/ Recover(j)
          PROVE  start' = start
      BY <3>6 DEF Streaming, Watching, SendChunk, EndStream, TakeProgress, PersistProgress,
         Cancel, Recover
    <3>7. CASE Close \/ Restart \/ UNCHANGED vars
      BY <3>3, <3>7 DEF Close, Restart, vars
    <3>8. CASE CloseReturns \/ Crash BY <3>4, <3>8 DEF CloseReturns, Crash
    <3> QED BY <1>4, <3>1, <3>2, <3>3, <3>5, <3>6, <3>7, <3>8 DEF Next, Starting
  <2>2. \A k \in Job : row'[k].status \in Active => row[k].status \in Active
    <3>1. CASE row' = row BY <3>1
    <3>2. ASSUME NEW j \in Job, NEW rec \in Records, RowStep(j, rec), Rewrites(j, rec)
          PROVE  \A k \in Job : row'[k].status \in Active => row[k].status \in Active
      BY <1>1, <3>2, Parts DEF RowStep, Rewrites, TypeOK
    <3>3. ASSUME NEW j \in Job, NEW rec \in Records, RowStep(j, rec), Inserts(j, rec) PROVE FALSE
      BY <1>4, <3>3 DEF Inserts
    <3> QED BY <1>1, <3>1, <3>2, <3>3, RowSteps DEF TableStep, RowStep
  <2>3. Quiet BY <2>1, <2>2 DEF Quiet
  <2> QED BY <1>1, <2>3, QuietSerial
<1> QED BY <1>2, <1>3, <1>4

(* The empty table again.                                                  *)
LEMMA InitSerial == Init => SerialInv
<1> SUFFICES ASSUME Init PROVE SerialInv OBVIOUS
<1>1. IInv BY InitInv
<1>2. Exclusive /\ Checked BY DEF Init, Exclusive, Checked
<1>3. OneActivePerAccount BY DEF Init, OneActivePerAccount, Absent, Active
<1> QED BY <1>1, <1>2, <1>3 DEF SerialInv

(* The invariant of services whose Starts do not overlap.                  *)
LEMMA SerialInvariance == ASSUME ~ConcurrentStarts PROVE Spec => []SerialInv
<1>1. SerialInv /\ [Next]_vars => SerialInv' BY NextSerial
<1> QED BY <1>1, InitSerial, PTL DEF Spec

(* OneActivePerAccount, for any number of jobs and accounts, provided no    *)
(* two calls of Start are in flight together.                              *)
THEOREM AtMostOneActive ==
  ASSUME ~ConcurrentStarts PROVE Spec => []OneActivePerAccount
<1>1. SerialInv => OneActivePerAccount BY DEF SerialInv
<1> QED BY <1>1, SerialInvariance, PTL

-----------------------------------------------------------------------------
(* The rows implement the ledger: an insertion admits, a stored status      *)
(* advances, a failure, a cancellation or a recovery aborts, and everything *)
(* else, progress and lost writes included, is invisible.                   *)
Statuses == [j \in Job |-> row[j].status]

(* An empty table is an empty ledger.                                      *)
LEMMA LedgerInit == Init => Ledger!Init
BY DEF Init, Ledger!Init, Absent

(* Every step of the service is a step of the ledger or a stutter.         *)
LEMMA LedgerStep ==
  ASSUME SerialInv, ~ConcurrentStarts, [Next]_vars PROVE [Ledger!Next]_Statuses
<1>1. IInv BY DEF SerialInv
<1>2. CASE row' = row BY <1>2 DEF Statuses
<1>3. ASSUME NEW j \in Job, NEW rec \in Records, RowStep(j, rec), Inserts(j, rec)
      PROVE  Ledger!Admit(j)
  <2>1. start[j] = "checked" /\ Rivals(j) = {} /\ row[j].status = "absent"
    BY <1>3 DEF Inserts, StartPut, SerialInv, Checked, Absent
  <2>2. Statuses' = [Statuses EXCEPT ![j] = "queued"]
    BY <1>1, <1>3, Parts DEF Statuses, RowStep, Inserts, TypeOK, Queued
  <2>3. Ledger!ActiveFor(j) = {} BY <2>1 DEF Ledger!ActiveFor, Rivals, Ledger!Active, Active
  <2> QED BY <2>1, <2>2, <2>3 DEF Ledger!Admit, Statuses
<1>4. ASSUME NEW j \in Job, NEW rec \in Records, RowStep(j, rec), Rewrites(j, rec)
      PROVE  Ledger!Advance(j) \/ Ledger!Abort(j) \/ UNCHANGED Statuses
  <2>1. Statuses' = [Statuses EXCEPT ![j] = rec.status] /\ Statuses[j] = row[j].status
    BY <1>1, <1>4, Parts DEF Statuses, RowStep, TypeOK
  <2>2. CASE rec.status = row[j].status BY <1>1, <2>1, <2>2 DEF Statuses
  <2>3. CASE rec.status = Successor[row[j].status]
    BY <1>4, <2>1, <2>3 DEF Ledger!Advance, Statuses, Rewrites, Ledger!Active, Active,
       Ledger!Terminal, Terminal
  <2>4. CASE rec.status \in {"failed", "cancelled"}
    BY <1>4, <2>1, <2>4 DEF Ledger!Abort, Statuses, Rewrites, Ledger!Active, Active
  <2> QED BY <1>4, <2>2, <2>3, <2>4 DEF Rewrites
<1> QED BY <1>1, <1>2, <1>3, <1>4, RowSteps DEF TableStep, RowStep, Ledger!Next

(* The job table implements JobLedger.                                      *)
THEOREM ImplementsLedger ==
  ASSUME ~ConcurrentStarts PROVE Spec => LedgerSpec
<1>1. SerialInv /\ [Next]_vars => [Ledger!Next]_Statuses BY LedgerStep
<1> QED BY <1>1, LedgerInit, SerialInvariance, PTL DEF Spec, LedgerSpec, Ledger!Spec, Statuses
=============================================================================
