--------------------------- MODULE RestoreJobProofs ---------------------------
(***************************************************************************)
(* Proofs about RestoreJob, for any number of jobs, exports, accounts and  *)
(* conversations.  IInv ties each goroutine's position to its row, its     *)
(* record and the directory: a job whose package nobody has touched finds  *)
(* it there at every step up to the hand-over.                             *)
(***************************************************************************)
EXTENDS RestoreJob, TLAPS

(* The row and the record at each position of run. *)
StageOK(j) ==
  /\ pc[j] = "none" => job[j] = Absent
  /\ pc[j] = "set" => /\ job[j].status \in {"queued", "organize", "transfer"}
                      /\ row[j].status = job[j].status
  /\ pc[j] = "persist" => /\ row[j].status \in {"queued", "organize", "transfer"}
                          /\ job[j].status = Successor[row[j].status]
  /\ pc[j] \in {"load", "write", "writing", "counted"} =>
       row[j].status = "organize" /\ job[j].status = "organize"
  /\ pc[j] \in {"connect", "watch"} => row[j].status = "transfer" /\ job[j].status = "transfer"
  /\ pc[j] = "settle" => row[j].status \in Active /\ job[j].status \in {"failed", "cancelled"}
  /\ pc[j] = "exited" => job[j].status \in Terminal /\ (j \notin lost => row[j] = job[j])

(* Only watch has a stream, and a copy of the record is in its stage.      *)
ProgressOK(j) ==
  /\ pc[j] # "watch" => stream[j] = "none" /\ sent[j] = 0 /\ seen[j] = 0 /\ progress[j] = Absent
  /\ progress[j] # Absent => progress[j].status = "transfer"

(* What a call of Start has done so far. *)
StartOK(j) ==
  /\ start[j] # "idle" => up /\ pc[j] = "none"
  /\ start[j] = "checked" => row[j] = Absent
  /\ start[j] = "put" => row[j] = Queued
  /\ up /\ pc[j] = "none" /\ row[j].status \in Active => start[j] = "put"
  /\ ~up => pc[j] = "none"

(* The package is written and not handed over yet. *)
Keeps(j) ==
  \/ pc[j] \in {"counted", "connect"}
  \/ pc[j] = "set" /\ job[j].status = "organize"
  \/ pc[j] = "persist" /\ job[j].status = "transfer"

(* A package nobody has touched is there, and is the one handed over.      *)
OwnOK(j) ==
  /\ Keeps(j) /\ j \notin crossed => package = j
  /\ stream[j] # "none" /\ j \notin crossed => served[j] = j

JobOK(j) == StageOK(j) /\ ProgressOK(j) /\ StartOK(j) /\ OwnOK(j)

IInv == TypeOK /\ \A j \in Job : JobOK(j)

(* The records the actions build are records.                              *)
LEMMA Constructors ==
  /\ Absent \in Records /\ Queued \in Records /\ 0 \in 0..MaxSessions
  /\ \A rec \in Records, s \in Active \cup Terminal, e \in {"none", "cancelled", "fault", "interrupted"} :
        [rec EXCEPT !.status = s, !.error = e] \in Records
<1>1. 0 \in 0..MaxSessions BY ConstantsOK
<1>2. Absent \in Records BY <1>1 DEF Records, Absent
<1>3. Queued \in Records BY <1>1 DEF Records, Queued, Active
<1>4. \A rec \in Records, s \in Active \cup Terminal, e \in {"none", "cancelled", "fault", "interrupted"} :
        [rec EXCEPT !.status = s, !.error = e] \in Records
  BY DEF Records
<1> QED BY <1>1, <1>2, <1>3, <1>4

(* What a step of another writer may do to job k's package: touch it only  *)
(* if k is then known to be crossed.                                       *)
DirKept(k) ==
  /\ k \in crossed => k \in crossed'
  /\ package' = package \/ (Keeps(k) => k \in crossed')

(* A step that leaves what concerns job k alone keeps its invariant.       *)
LEMMA Frame ==
  ASSUME NEW k \in Job, JobOK(k), k \in lost => k \in lost', DirKept(k),
         UNCHANGED <<row[k], up, start[k], job[k], pc[k], stream[k], sent[k], seen[k],
                     progress[k], served[k]>>
  PROVE  JobOK(k)'
<1>1. StageOK(k)' /\ ProgressOK(k)' /\ StartOK(k)' BY DEF JobOK, StageOK, ProgressOK, StartOK
<1>2. Keeps(k)' <=> Keeps(k) BY DEF Keeps
<1>3. OwnOK(k)' BY <1>2 DEF JobOK, OwnOK, DirKept
<1> QED BY <1>1, <1>3 DEF JobOK

(* IInv, in the form the leaves below can use.                             *)
LEMMA Parts ==
  IInv => TypeOK /\ \A j \in Job : JobOK(j) /\ StageOK(j) /\ ProgressOK(j) /\ StartOK(j) /\ OwnOK(j)
BY DEF IInv, JobOK

(* A step of job j preserves IInv: j by parts, the others by Frame.        *)
LEMMA Whole ==
  ASSUME NEW j \in Job, TypeOK', StageOK(j)', ProgressOK(j)', StartOK(j)', OwnOK(j)',
         \A k \in Job \ {j} : JobOK(k)'
  PROVE  IInv'
BY DEF IInv, JobOK

(* A directory left alone is kept for everyone.                            *)
LEMMA DirAlone == ASSUME UNCHANGED phone, NEW k \in Job PROVE DirKept(k)
BY DEF phone, DirKept

(* The writes cross whoever counts on the directory.                       *)
LEMMA DirWritten ==
  ASSUME NEW x, NEW k \in Job, k # x, ClearDir(x) \/ CommitDir(x) \/ UndoDir(x)
  PROVE  DirKept(k)
<1>1. Keeps(k) => k \in Holding BY DEF Keeps, Holding
<1> QED BY <1>1 DEF DirKept, ClearDir, CommitDir, UndoDir

(* Their effect stays within the types.                                    *)
LEMMA DirTypes ==
  ASSUME TypeOK, NEW x \in Job \cup Export, ClearDir(x) \/ UndoDir(x) \/ (x \in Job /\ CommitDir(x))
  PROVE  package' \in Job \cup {Nobody, Other} /\ crossed' \in SUBSET (Job \cup Export)
<1>1. Holding \subseteq Job \cup Export BY DEF TypeOK, Holding
<1>2. package \in Job \cup {Nobody, Other} /\ crossed \in SUBSET (Job \cup Export) BY DEF TypeOK
<1>3. CASE ClearDir(x) BY <1>1, <1>2, <1>3 DEF ClearDir
<1>4. CASE UndoDir(x) BY <1>1, <1>2, <1>4 DEF UndoDir
<1>5. CASE x \in Job /\ CommitDir(x) BY <1>1, <1>2, <1>5 DEF CommitDir
<1> QED BY <1>3, <1>4, <1>5

(* What the locked part of finish does to the records.                     *)
LEMMA FinishRecord ==
  ASSUME TypeOK, NEW j \in Job,
         NEW s \in {"failed", "cancelled"}, NEW e \in {"cancelled", "fault"}, Finish(j, s, e)
  PROVE  /\ job' \in [Job -> Records] /\ pc' = [pc EXCEPT ![j] = "settle"]
         /\ job'[j].status = s
         /\ \A k \in Job \ {j} : job'[k] = job[k]
<1> DEFINE rec == [job[j] EXCEPT !.status = s, !.error = e]
<1>1. job[j] \in Records BY DEF TypeOK
<1>2. rec \in Records /\ rec.status = s
  <2>1. s \in Active \cup Terminal /\ e \in {"none", "cancelled", "fault", "interrupted"}
    BY DEF Active, Terminal
  <2>2. rec \in Records BY <1>1, <2>1, Constructors
  <2> QED BY <1>1, <2>2 DEF Records
<1>3. job' = [job EXCEPT ![j] = rec] BY DEF Finish, TypeOK, Records
<1>4. job \in [Job -> Records] BY DEF TypeOK
<1>5. pc' = [pc EXCEPT ![j] = "settle"] BY DEF Finish
<1> HIDE DEF rec
<1> QED BY <1>2, <1>3, <1>4, <1>5

(* Every way to the failed or cancelled end, in one lemma.                 *)
LEMMA FinishInv ==
  ASSUME IInv, NEW j \in Job,
         NEW s \in {"failed", "cancelled"}, NEW e \in {"cancelled", "fault"}, Finish(j, s, e),
         pc[j] \in {"set", "persist", "load", "writing", "connect", "watch"},
         progress[j] = Absent,
         stream' = [stream EXCEPT ![j] = "none"], sent' = [sent EXCEPT ![j] = 0],
         seen' = [seen EXCEPT ![j] = 0], served' \in [Job -> Job \cup {Nobody, Other}],
         \A k \in Job \ {j} : served'[k] = served[k] /\ DirKept(k),
         package' \in Job \cup {Nobody, Other}, crossed' \in SUBSET (Job \cup Export),
         lost' \in SUBSET Job, lost \subseteq lost',
         UNCHANGED <<row, server, start, progress, exporting>>
  PROVE  IInv'
<1>1. /\ job' \in [Job -> Records] /\ pc' = [pc EXCEPT ![j] = "settle"]
      /\ job'[j].status = s
      /\ \A k \in Job \ {j} : job'[k] = job[k]
  BY FinishRecord, Parts
<1>2. /\ stream \in [Job -> {"none", "open", "ok", "failed", "cancelled"}]
      /\ sent \in [Job -> 0..MaxSessions] /\ seen \in [Job -> 0..MaxSessions]
      /\ pc \in [Job -> {"none", "set", "persist", "load", "write", "writing",
                         "counted", "connect", "watch", "settle", "exited"}]
  BY Parts DEF TypeOK
<1>3. TypeOK' BY <1>1, <1>2, Parts, Constructors DEF TypeOK, server
<1>4. pc'[j] = "settle" /\ stream'[j] = "none" /\ sent'[j] = 0 /\ seen'[j] = 0 BY <1>1, <1>2
<1>5. StageOK(j)' BY <1>1, <1>4, Parts DEF StageOK, Active
<1>6. ProgressOK(j)' BY <1>4, Parts DEF ProgressOK
<1>7. StartOK(j)' BY <1>4, Parts DEF StartOK, server
<1>8. OwnOK(j)' BY <1>4 DEF OwnOK, Keeps
<1>9. \A k \in Job \ {j} : JobOK(k)' BY <1>1, <1>2, Frame, Parts DEF server
<1> QED BY <1>3, <1>5, <1>6, <1>7, <1>8, <1>9, Whole

(* The same where stream and directory are left alone.                     *)
LEMMA PlainFinishInv ==
  ASSUME IInv, NEW j \in Job,
         NEW s \in {"failed", "cancelled"}, NEW e \in {"cancelled", "fault"}, Finish(j, s, e),
         pc[j] \in {"set", "persist", "load"},
         lost' \in SUBSET Job, lost \subseteq lost',
         UNCHANGED <<row, server, start, device, progress, phone>>
  PROVE  IInv'
<1>1. stream[j] = "none" /\ sent[j] = 0 /\ seen[j] = 0 /\ progress[j] = Absent BY Parts DEF ProgressOK
<1>2. /\ stream' = [stream EXCEPT ![j] = "none"] /\ sent' = [sent EXCEPT ![j] = 0]
      /\ seen' = [seen EXCEPT ![j] = 0]
  BY <1>1, Parts DEF TypeOK, device
<1>3. \A k \in Job \ {j} : served'[k] = served[k] /\ DirKept(k) BY DirAlone DEF phone
<1> QED BY <1>1, <1>2, <1>3, FinishInv, Parts DEF TypeOK, phone

(* The same where the stream is given up.                                  *)
LEMMA ReleaseFinishInv ==
  ASSUME IInv, NEW j \in Job,
         NEW s \in {"failed", "cancelled"}, NEW e \in {"cancelled", "fault"}, Finish(j, s, e),
         pc[j] \in {"connect", "watch"}, progress[j] = Absent, Release(j),
         UNCHANGED <<store, server, start, progress>>
  PROVE  IInv'
<1>1. \A k \in Job \ {j} : served'[k] = served[k] /\ DirKept(k)
  BY Parts DEF TypeOK, Release, DirKept
<1>2. served' \in [Job -> Job \cup {Nobody, Other}] BY Parts DEF TypeOK, Release
<1>3. package' \in Job \cup {Nobody, Other} /\ crossed' \in SUBSET (Job \cup Export)
  BY Parts DEF TypeOK, Release
<1>4. /\ stream' = [stream EXCEPT ![j] = "none"] /\ sent' = [sent EXCEPT ![j] = 0]
      /\ seen' = [seen EXCEPT ![j] = 0]
  BY DEF Release
<1>5. /\ pc[j] \in {"set", "persist", "load", "writing", "connect", "watch"}
      /\ lost' \in SUBSET Job /\ lost \subseteq lost' /\ UNCHANGED <<row, exporting>>
  BY Parts DEF TypeOK, store, Release
<1> QED BY <1>1, <1>2, <1>3, <1>4, <1>5, FinishInv

(* A write of the table, whether it succeeds or is refused.                *)
LEMMA TryPutFacts ==
  ASSUME TypeOK, NEW j \in Job, NEW rec \in Records, TryPut(j, rec)
  PROVE  /\ row' \in [Job -> Records] /\ lost' \in SUBSET Job /\ lost \subseteq lost'
         /\ \A k \in Job \ {j} : row'[k] = row[k]
         /\ row'[j] = rec \/ (row'[j] = row[j] /\ j \in lost')
<1>1. row \in [Job -> Records] /\ lost \in SUBSET Job BY DEF TypeOK
<1>2. CASE Put(j, rec) BY <1>1, <1>2 DEF Put
<1>3. CASE PutFails(j) BY <1>1, <1>3 DEF PutFails
<1> QED BY <1>2, <1>3 DEF TryPut

(* The record of a registered job has a real status.                       *)
LEMMA RegisteredStatus ==
  ASSUME IInv, NEW j \in Job, pc[j] # "none" PROVE job[j].status \in Active \cup Terminal
<1>1. \A s \in Active : Successor[s] \in Active \cup Terminal BY DEF Successor, Active, Terminal
<1>2. CASE pc[j] = "persist" BY <1>1, <1>2, Parts DEF StageOK, Active
<1>3. CASE pc[j] # "persist" BY <1>3, Parts DEF TypeOK, StageOK, Active, Terminal
<1> QED BY <1>2, <1>3

-----------------------------------------------------------------------------
(* Start: the call has not registered anything before.                     *)
LEMMA StartCheckInv == ASSUME IInv, NEW j \in Job, StartCheck(j) PROVE IInv'
<1> USE DEF store, server, device, phone
<1>1. TypeOK' BY Parts DEF TypeOK, StartCheck
<1>2. pc[j] = "none" BY RegisteredStatus DEF StartCheck, Absent, Active, Terminal
<1>3. StageOK(j)' BY <1>2, Parts DEF StageOK, StartCheck
<1>4. ProgressOK(j)' BY <1>2, Parts DEF ProgressOK, StartCheck
<1>5. StartOK(j)' BY <1>2, Parts DEF TypeOK, StartOK, StartCheck, Absent, Active
<1>6. OwnOK(j)' BY <1>2, Parts DEF OwnOK, Keeps, StartCheck
<1>7. \A k \in Job \ {j} : JobOK(k)' BY Frame, DirAlone, Parts DEF TypeOK, StartCheck
<1> QED BY <1>1, <1>3, <1>4, <1>5, <1>6, <1>7, Whole

(* Start: the row appears, or the write is refused.                        *)
LEMMA StartPutInv == ASSUME IInv, NEW j \in Job, StartPut(j) PROVE IInv'
<1> USE DEF server, device, phone
<1>1. pc[j] = "none" /\ row[j] = Absent /\ up BY Parts DEF StartOK, StartPut
<1>2. CASE /\ Put(j, Queued)
           /\ start' = [start EXCEPT ![j] = "put"]
  <2>1. TypeOK' BY <1>2, Parts, Constructors DEF TypeOK, StartPut, Put
  <2>2. StageOK(j)' BY <1>1, Parts DEF StageOK, StartPut
  <2>3. ProgressOK(j)' BY <1>1, Parts DEF ProgressOK, StartPut
  <2>4. StartOK(j)' BY <1>1, <1>2, Parts DEF TypeOK, StartOK, StartPut, Put
  <2>5. OwnOK(j)' BY <1>1, Parts DEF OwnOK, Keeps, StartPut
  <2>6. \A k \in Job \ {j} : JobOK(k)' BY <1>2, Frame, DirAlone, Parts DEF TypeOK, StartPut, Put
  <2> QED BY <2>1, <2>2, <2>3, <2>4, <2>5, <2>6, Whole
<1>3. CASE /\ PutFails(j)
           /\ start' = [start EXCEPT ![j] = "idle"]
  <2>1. TypeOK' BY <1>3, Parts DEF TypeOK, StartPut, PutFails
  <2>2. StageOK(j)' BY <1>1, Parts DEF StageOK, StartPut
  <2>3. ProgressOK(j)' BY <1>1, Parts DEF ProgressOK, StartPut
  <2>4. StartOK(j)' BY <1>1, <1>3, Parts DEF TypeOK, StartOK, StartPut, PutFails, Absent, Active
  <2>5. OwnOK(j)' BY <1>1, Parts DEF OwnOK, Keeps, StartPut
  <2>6. \A k \in Job \ {j} : JobOK(k)'
    BY <1>3, Frame, DirAlone, Parts DEF TypeOK, StartPut, PutFails
  <2> QED BY <2>1, <2>2, <2>3, <2>4, <2>5, <2>6, Whole
<1> QED BY <1>2, <1>3 DEF StartPut

(* Start: the record equals the row it has just inserted.                  *)
LEMMA StartRegisterInv == ASSUME IInv, NEW j \in Job, StartRegister(j) PROVE IInv'
<1> USE DEF store, server, device, phone
<1>1. pc[j] = "none" /\ row[j] = Queued /\ up BY Parts DEF StartOK, StartRegister
<1>2. TypeOK' BY Parts, Constructors DEF TypeOK, StartRegister
<1>3. job'[j] = Queued /\ pc'[j] = "set" BY Parts DEF TypeOK, StartRegister
<1>4. StageOK(j)' BY <1>1, <1>3, Parts DEF StageOK, StartRegister, Queued
<1>5. ProgressOK(j)' BY <1>1, <1>3, Parts DEF ProgressOK, StartRegister
<1>6. StartOK(j)' BY <1>1, <1>3, Parts DEF TypeOK, StartOK, StartRegister
<1>7. OwnOK(j)' BY <1>1, <1>3, <1>5, Parts DEF OwnOK, Keeps, ProgressOK, Queued
<1>8. \A k \in Job \ {j} : JobOK(k)' BY Frame, DirAlone, Parts DEF TypeOK, StartRegister
<1> QED BY <1>2, <1>4, <1>5, <1>6, <1>7, <1>8, Whole

-----------------------------------------------------------------------------
(* setStatus moves the record one stage ahead of the row.                  *)
LEMMA SetStatusInv == ASSUME IInv, NEW j \in Job, SetStatus(j) PROVE IInv'
<1>1. pc[j] = "set" /\ job[j] \in Records /\ job[j].status \in {"queued", "organize", "transfer"}
  BY Parts DEF TypeOK, SetStatus, StageOK
<1>2. stream[j] = "none" BY <1>1, Parts DEF ProgressOK
<1>3. CASE closing
  BY <1>1, <1>3, PlainFinishInv, Parts DEF SetStatus, TypeOK, store
<1>4. CASE ~closing
  <2> DEFINE rec == [job[j] EXCEPT !.status = Successor[@]]
  <2>1. rec \in Records /\ rec.status = Successor[job[j].status]
    BY <1>1 DEF Records, Active, Terminal, Successor
  <2>2. job' = [job EXCEPT ![j] = rec] /\ pc' = [pc EXCEPT ![j] = "persist"]
    BY <1>4 DEF SetStatus
  <2> HIDE DEF rec
  <2>3. TypeOK' BY <2>1, <2>2, Parts DEF TypeOK, SetStatus, store, server, device, phone
  <2>4. job'[j] = rec /\ pc'[j] = "persist" BY <2>2, Parts DEF TypeOK
  <2>5. StageOK(j)' BY <1>1, <2>1, <2>4, Parts DEF StageOK, SetStatus, store
  <2>6. ProgressOK(j)' BY <1>1, <2>4, Parts DEF ProgressOK, SetStatus, device
  <2>7. StartOK(j)' BY <1>1, <2>4, Parts DEF StartOK, SetStatus, store, server
  <2>8. OwnOK(j)'
    <3>1. Keeps(j)' => Keeps(j)
      BY <1>1, <2>1, <2>4 DEF Keeps, Successor, Active, Terminal
    <3> QED BY <1>2, <3>1, Parts DEF OwnOK, SetStatus, device, phone
  <2>9. \A k \in Job \ {j} : JobOK(k)'
    BY <2>2, Frame, DirAlone, Parts DEF TypeOK, SetStatus, store, server, device, phone
  <2> QED BY <2>3, <2>5, <2>6, <2>7, <2>8, <2>9, Whole
<1> QED BY <1>3, <1>4

(* The row catches up, or the job ends.                                    *)
LEMMA PersistStatusInv == ASSUME IInv, NEW j \in Job, PersistStatus(j) PROVE IInv'
<1>1. /\ pc[j] = "persist" /\ job[j] \in Records
      /\ row[j].status \in {"queued", "organize", "transfer"}
      /\ job[j].status = Successor[row[j].status]
  BY Parts DEF TypeOK, PersistStatus, StageOK
<1>2. stream[j] = "none" BY <1>1, Parts DEF ProgressOK
<1>3. CASE Put(j, job[j]) /\ pc' = [pc EXCEPT ![j] = Resume[job[j].status]] /\ UNCHANGED job
  <2>1. row' = [row EXCEPT ![j] = job[j]] /\ lost' = lost BY <1>3 DEF Put
  <2>2. /\ Resume[job[j].status] \in {"load", "connect", "exited"}
        /\ Resume[job[j].status] = "connect" => job[j].status = "transfer"
        /\ Resume[job[j].status] = "load" => job[j].status = "organize"
        /\ Resume[job[j].status] = "exited" => job[j].status = "done"
    BY <1>1 DEF Resume, Active, Terminal, Successor
  <2>3. TypeOK' BY <1>1, <1>3, <2>1, <2>2, Parts DEF TypeOK, PersistStatus, server, device, phone
  <2>4. row'[j] = job[j] /\ job'[j] = job[j] /\ pc'[j] = Resume[job[j].status]
    BY <1>3, <2>1, Parts DEF TypeOK
  <2>5. StageOK(j)' BY <2>2, <2>4 DEF StageOK, Terminal
  <2>6. ProgressOK(j)' BY <1>1, Parts DEF ProgressOK, PersistStatus, device
  <2>7. StartOK(j)' BY <1>1, <2>2, <2>4, Parts DEF StartOK, PersistStatus, server
  <2>8. OwnOK(j)'
    <3>1. Keeps(j)' => Keeps(j) BY <1>1, <2>2, <2>4 DEF Keeps
    <3> QED BY <1>2, <3>1, Parts DEF OwnOK, PersistStatus, device, phone
  <2>9. \A k \in Job \ {j} : JobOK(k)'
    BY <1>3, <2>1, Frame, DirAlone, Parts DEF TypeOK, PersistStatus, server, device, phone
  <2> QED BY <2>3, <2>5, <2>6, <2>7, <2>8, <2>9, Whole
<1>4. CASE PutFails(j) /\ job[j].status \in Terminal /\ pc' = [pc EXCEPT ![j] = "exited"] /\ UNCHANGED job
  <2>1. row' = row /\ lost' = lost \cup {j} BY <1>4 DEF PutFails
  <2>2. TypeOK' BY <1>4, <2>1, Parts DEF TypeOK, PersistStatus, server, device, phone
  <2>3. pc'[j] = "exited" BY <1>4, Parts DEF TypeOK
  <2>4. StageOK(j)' BY <1>4, <2>1, <2>3 DEF StageOK
  <2>5. ProgressOK(j)' BY <1>1, <2>3, Parts DEF ProgressOK, PersistStatus, device
  <2>6. StartOK(j)' BY <1>1, <2>1, <2>3, Parts DEF StartOK, PersistStatus, server
  <2>7. OwnOK(j)' BY <1>2, <2>3 DEF OwnOK, Keeps, PersistStatus, device
  <2>8. \A k \in Job \ {j} : JobOK(k)'
    BY <1>4, <2>1, Frame, DirAlone, Parts DEF TypeOK, PersistStatus, server, device, phone
  <2> QED BY <2>2, <2>4, <2>5, <2>6, <2>7, <2>8, Whole
<1>5. CASE PutFails(j) /\ Finish(j, "failed", "fault")
  BY <1>1, <1>5, PlainFinishInv, Parts DEF TypeOK, PersistStatus, PutFails
<1> QED BY <1>3, <1>4, <1>5 DEF PersistStatus

(* The account's database is there, or the job ends.                       *)
LEMMA LoadInv == ASSUME IInv, NEW j \in Job, Load(j) \/ LoadFails(j) PROVE IInv'
<1>1. pc[j] = "load" BY DEF Load, LoadFails
<1>2. CASE LoadFails(j) BY <1>1, <1>2, PlainFinishInv, Parts DEF TypeOK, LoadFails, store
<1>3. CASE Load(j)
  <2> USE <1>3 DEF store, server, device, phone
  <2>1. TypeOK' BY Parts DEF TypeOK, Load
  <2>2. pc'[j] = "write" BY Parts DEF TypeOK, Load
  <2>3. StageOK(j)' BY <1>1, <2>2, Parts DEF StageOK, Load
  <2>4. ProgressOK(j)' BY <1>1, <2>2, Parts DEF ProgressOK, Load
  <2>5. StartOK(j)' BY <1>1, <2>2, Parts DEF StartOK, Load
  <2>6. OwnOK(j)' BY <1>1, <2>2, Parts DEF OwnOK, Keeps, Load
  <2>7. \A k \in Job \ {j} : JobOK(k)' BY Frame, DirAlone, Parts DEF TypeOK, Load
  <2> QED BY <2>1, <2>3, <2>4, <2>5, <2>6, <2>7, Whole
<1> QED BY <1>2, <1>3

(* The directory is cleared: whoever counts on it is crossed.              *)
LEMMA WriteBeginInv == ASSUME IInv, NEW j \in Job, WriteBegin(j) PROVE IInv'
<1> USE DEF store, server, device
<1>1. pc[j] = "write" /\ pc'[j] = "writing" BY Parts DEF TypeOK, WriteBegin
<1>2. TypeOK' BY DirTypes, Parts DEF TypeOK, WriteBegin
<1>3. StageOK(j)' BY <1>1, Parts DEF StageOK, WriteBegin
<1>4. ProgressOK(j)' BY <1>1, Parts DEF ProgressOK, WriteBegin
<1>5. StartOK(j)' BY <1>1, Parts DEF StartOK, WriteBegin
<1>6. OwnOK(j)' BY <1>1, Parts DEF OwnOK, Keeps, ProgressOK, WriteBegin
<1>7. \A k \in Job \ {j} : JobOK(k)' BY Frame, DirWritten, Parts DEF TypeOK, WriteBegin
<1> QED BY <1>2, <1>3, <1>4, <1>5, <1>6, <1>7, Whole

(* A writer nobody crossed leaves its own package.                         *)
LEMMA WriteEndInv == ASSUME IInv, NEW j \in Job, WriteEnd(j) PROVE IInv'
<1> USE DEF store, server, device
<1>1. pc[j] = "writing" /\ job[j] \in Records BY Parts DEF TypeOK, WriteEnd
<1> DEFINE rec == [job[j] EXCEPT !.sessions = Sessions[j]]
<1>2. rec \in Records /\ rec.status = job[j].status BY <1>1, ConstantsOK DEF Records
<1>3. job' = [job EXCEPT ![j] = rec] /\ pc' = [pc EXCEPT ![j] = "counted"] BY DEF WriteEnd
<1> HIDE DEF rec
<1>4. package' \in Job \cup {Nobody, Other} /\ crossed' \in SUBSET (Job \cup Export)
  BY DirTypes, Parts DEF WriteEnd
<1>5. TypeOK' BY <1>2, <1>3, <1>4, Parts DEF TypeOK, WriteEnd
<1>6. job'[j] = rec /\ pc'[j] = "counted" BY <1>3, Parts DEF TypeOK
<1>7. StageOK(j)' BY <1>1, <1>2, <1>6, Parts DEF StageOK, WriteEnd
<1>8. ProgressOK(j)' BY <1>1, <1>6, Parts DEF ProgressOK, WriteEnd
<1>9. StartOK(j)' BY <1>1, <1>6, Parts DEF StartOK, WriteEnd
<1>10. OwnOK(j)'
  <2>1. j \notin crossed' => j \notin crossed BY DEF WriteEnd, CommitDir
  <2>2. j \notin crossed => package' = j BY DEF WriteEnd, CommitDir
  <2>3. stream'[j] = "none" BY <1>1, Parts DEF ProgressOK, WriteEnd
  <2> QED BY <2>1, <2>2, <2>3 DEF OwnOK
<1>11. \A k \in Job \ {j} : DirKept(k) BY DirWritten DEF WriteEnd
<1>12. \A k \in Job \ {j} : JobOK(k)'
  BY <1>3, <1>11, Frame, Parts DEF TypeOK, WriteEnd
<1> QED BY <1>5, <1>7, <1>8, <1>9, <1>10, <1>12, Whole

(* A failed write ends the job.                                            *)
LEMMA WriteFailsInv == ASSUME IInv, NEW j \in Job, WriteFails(j) PROVE IInv'
<1>1. pc[j] = "writing" BY DEF WriteFails
<1>2. stream[j] = "none" /\ sent[j] = 0 /\ seen[j] = 0 /\ progress[j] = Absent
  BY <1>1, Parts DEF ProgressOK
<1>3. /\ stream' = [stream EXCEPT ![j] = "none"] /\ sent' = [sent EXCEPT ![j] = 0]
      /\ seen' = [seen EXCEPT ![j] = 0]
  BY <1>2, Parts DEF TypeOK, WriteFails, device
<1>4. package' \in Job \cup {Nobody, Other} /\ crossed' \in SUBSET (Job \cup Export)
  BY DirTypes, Parts DEF WriteFails
<1>5. \A k \in Job \ {j} : served'[k] = served[k] /\ DirKept(k) BY DirWritten DEF WriteFails
<1>6. served' \in [Job -> Job \cup {Nobody, Other}] BY Parts DEF TypeOK, WriteFails
<1>7. Finish(j, "failed", "fault") /\ UNCHANGED <<row, server, start, progress, exporting>>
  BY DEF WriteFails, store
<1>8. lost' \in SUBSET Job /\ lost \subseteq lost' BY Parts DEF TypeOK, WriteFails, store
<1> QED BY <1>1, <1>2, <1>3, <1>4, <1>5, <1>6, <1>7, <1>8, FinishInv

(* The ignored write keeps the stage.                                      *)
LEMMA PersistCountInv == ASSUME IInv, NEW j \in Job, PersistCount(j) PROVE IInv'
<1> USE DEF server, device, phone
<1>1. /\ pc[j] = "counted" /\ job[j] \in Records
      /\ row[j].status = "organize" /\ job[j].status = "organize"
  BY Parts DEF TypeOK, StageOK, PersistCount
<1>2. /\ row' \in [Job -> Records] /\ lost' \in SUBSET Job /\ lost \subseteq lost'
      /\ \A k \in Job \ {j} : row'[k] = row[k]
      /\ row'[j] = job[j] \/ row'[j] = row[j]
  BY <1>1, TryPutFacts, Parts DEF PersistCount
<1>3. TypeOK' BY <1>2, Parts DEF TypeOK, PersistCount
<1>4. pc'[j] = "set" BY Parts DEF TypeOK, PersistCount
<1>5. StageOK(j)' BY <1>1, <1>2, <1>4 DEF StageOK, PersistCount
<1>6. ProgressOK(j)' BY <1>1, <1>4, Parts DEF ProgressOK, PersistCount
<1>7. StartOK(j)' BY <1>1, <1>4, Parts DEF StartOK, PersistCount
<1>8. OwnOK(j)' BY <1>1, <1>4, Parts DEF OwnOK, Keeps, PersistCount
<1>9. \A k \in Job \ {j} : JobOK(k)' BY <1>2, Frame, DirAlone, Parts DEF TypeOK, PersistCount
<1> QED BY <1>3, <1>5, <1>6, <1>7, <1>8, <1>9, Whole

-----------------------------------------------------------------------------
(* The session reads what the directory holds.                             *)
LEMMA ConnectInv == ASSUME IInv, NEW j \in Job, Connect(j) PROVE IInv'
<1> USE DEF store, server
<1>1. pc[j] = "connect" /\ package \in Job \cup {Nobody, Other} BY Parts DEF TypeOK, Connect
<1>2. TypeOK' BY <1>1, Parts DEF TypeOK, Connect
<1>3. pc'[j] = "watch" /\ served'[j] = package BY Parts DEF TypeOK, Connect
<1>4. StageOK(j)' BY <1>1, <1>3, Parts DEF StageOK, Connect
<1>5. ProgressOK(j)' BY <1>1, <1>3, Parts DEF ProgressOK, Connect
<1>6. StartOK(j)' BY <1>1, <1>3, Parts DEF StartOK, Connect
<1>7. OwnOK(j)'
  <2>1. Keeps(j) BY <1>1 DEF Keeps
  <2>2. ~Keeps(j)' BY <1>3 DEF Keeps
  <2>3. j \notin crossed' => j \notin crossed BY DEF Connect
  <2> QED BY <1>3, <2>1, <2>2, <2>3, Parts DEF OwnOK
<1>8. \A k \in Job \ {j} : DirKept(k) BY DEF DirKept, Connect
<1>9. \A k \in Job \ {j} : JobOK(k)' BY <1>8, Frame, Parts DEF TypeOK, Connect
<1> QED BY <1>2, <1>4, <1>5, <1>6, <1>7, <1>9, Whole

(* Every way in which run gives the stream up with an error.               *)
LEMMA WatchEndsInv ==
  ASSUME IInv, NEW j \in Job, ConnectFails(j) \/ WatchCancelled(j) \/ WatchFailed(j) PROVE IInv'
<1>1. pc[j] \in {"connect", "watch"} /\ Release(j) /\ UNCHANGED <<store, server, start, progress>>
  BY DEF ConnectFails, WatchCancelled, WatchFailed
<1>2. progress[j] = Absent
  BY Parts DEF ConnectFails, WatchCancelled, WatchFailed, Drained, ProgressOK
<1>3. Finish(j, "failed", "fault") \/ Finish(j, "cancelled", "cancelled")
  BY DEF ConnectFails, WatchCancelled, WatchFailed
<1> QED BY <1>1, <1>2, <1>3, ReleaseFinishInv

(* watch returns only when no progress is outstanding.                     *)
LEMMA WatchDoneInv == ASSUME IInv, NEW j \in Job, WatchDone(j) PROVE IInv'
<1> USE DEF store, server
<1>1. pc[j] = "watch" /\ progress[j] = Absent BY DEF WatchDone, Drained
<1>2. TypeOK' BY Parts, Constructors DEF TypeOK, WatchDone, Release
<1>3. pc'[j] = "set" /\ stream'[j] = "none" /\ sent'[j] = 0 /\ seen'[j] = 0
  BY Parts DEF TypeOK, WatchDone, Release
<1>4. StageOK(j)' BY <1>1, <1>3, Parts DEF StageOK, WatchDone
<1>5. ProgressOK(j)' BY <1>1, <1>3 DEF ProgressOK, WatchDone
<1>6. StartOK(j)' BY <1>1, <1>3, Parts DEF StartOK, WatchDone
<1>7. OwnOK(j)' BY <1>1, <1>3, Parts DEF OwnOK, Keeps, StageOK, WatchDone
<1>8. \A k \in Job \ {j} : DirKept(k) BY DEF DirKept, WatchDone, Release
<1>9. \A k \in Job \ {j} : JobOK(k)' BY <1>8, Frame, Parts DEF TypeOK, WatchDone, Release
<1> QED BY <1>2, <1>4, <1>5, <1>6, <1>7, <1>9, Whole

(* After the last write row and record agree, or the write was lost.       *)
LEMMA SettleInv == ASSUME IInv, NEW j \in Job, Settle(j) PROVE IInv'
<1> USE DEF server, device, phone
<1>1. /\ pc[j] = "settle" /\ job[j] \in Records
      /\ row[j].status \in Active /\ job[j].status \in {"failed", "cancelled"}
  BY Parts DEF TypeOK, StageOK, Settle
<1>2. /\ row' \in [Job -> Records] /\ lost' \in SUBSET Job /\ lost \subseteq lost'
      /\ \A k \in Job \ {j} : row'[k] = row[k]
      /\ row'[j] = job[j] \/ (row'[j] = row[j] /\ j \in lost')
  BY <1>1, TryPutFacts, Parts DEF Settle
<1>3. TypeOK' BY <1>2, Parts DEF TypeOK, Settle
<1>4. pc'[j] = "exited" BY Parts DEF TypeOK, Settle
<1>5. StageOK(j)' BY <1>1, <1>2, <1>4 DEF StageOK, Settle, Terminal
<1>6. ProgressOK(j)' BY <1>1, <1>4, Parts DEF ProgressOK, Settle
<1>7. StartOK(j)' BY <1>1, <1>4, Parts DEF StartOK, Settle
<1>8. OwnOK(j)' BY <1>1, <1>4, Parts DEF OwnOK, Keeps, Settle
<1>9. \A k \in Job \ {j} : JobOK(k)' BY <1>2, Frame, DirAlone, Parts DEF TypeOK, Settle
<1> QED BY <1>3, <1>5, <1>6, <1>7, <1>8, <1>9, Whole

(* The stream moves only while run watches it.                             *)
LEMMA StreamingInv == ASSUME IInv, NEW j \in Job, Streaming(j) PROVE IInv'
<1> USE DEF store, server, phone
<1>1. pc[j] = "watch" /\ stream[j] # "none" BY Parts DEF ProgressOK, Streaming, SendProgress, EndStream
<1>2. TypeOK'
  <2>1. CASE SendProgress(j)
    <3>1. Reported(j) \in 0..MaxSessions BY ConstantsOK DEF Reported
    <3>2. sent[j] \in 0..MaxSessions BY Parts DEF TypeOK
    <3>3. sent[j] + 1 \in 0..MaxSessions
      BY <2>1, <3>1, <3>2, ConstantsOK DEF SendProgress
    <3> QED BY <2>1, <3>3, Parts DEF TypeOK, SendProgress
  <2>2. CASE EndStream(j) BY <2>2, Parts DEF TypeOK, EndStream
  <2> QED BY <2>1, <2>2 DEF Streaming
<1>3. StageOK(j)' BY Parts DEF StageOK, Streaming, SendProgress, EndStream
<1>4. ProgressOK(j)' BY <1>1, Parts DEF ProgressOK, Streaming, SendProgress, EndStream
<1>5. StartOK(j)' BY Parts DEF StartOK, Streaming, SendProgress, EndStream
<1>6. OwnOK(j)' BY <1>1, Parts DEF OwnOK, Keeps, Streaming, SendProgress, EndStream
<1>7. \A k \in Job \ {j} : JobOK(k)'
  BY Frame, DirAlone, Parts DEF TypeOK, Streaming, SendProgress, EndStream
<1> QED BY <1>2, <1>3, <1>4, <1>5, <1>6, <1>7, Whole

(* The copy taken under the lock is the record itself, in transfer.        *)
LEMMA TakeProgressInv == ASSUME IInv, NEW j \in Job, TakeProgress(j) PROVE IInv'
<1> USE DEF store, server, phone
<1>1. pc[j] = "watch" BY Parts DEF TypeOK, ProgressOK, TakeProgress
<1>2. job[j] \in Records /\ row[j].status = "transfer" /\ job[j].status = "transfer"
  BY <1>1, Parts DEF TypeOK, StageOK
<1>3. seen[j] + 1 \in 0..MaxSessions BY ConstantsOK, Parts DEF TypeOK, TakeProgress
<1>4. /\ job' \in [Job -> Records] /\ progress' \in [Job -> Records]
      /\ job'[j].status = "transfer"
      /\ progress'[j] # Absent => progress'[j].status = "transfer"
      /\ \A k \in Job \ {j} : job'[k] = job[k] /\ progress'[k] = progress[k]
  <2>1. CASE UNCHANGED <<job, progress>> BY <1>2, <2>1, Parts DEF TypeOK, TakeProgress
  <2>2. CASE job' = [job EXCEPT ![j].sessions = seen[j] + 1] /\ progress' = [progress EXCEPT ![j] = job'[j]]
    <3> DEFINE rec == [job[j] EXCEPT !.sessions = seen[j] + 1]
    <3>1. rec \in Records /\ rec.status = "transfer" BY <1>2, <1>3 DEF Records
    <3>2. job' = [job EXCEPT ![j] = rec] BY <2>2
    <3> HIDE DEF rec
    <3>3. job'[j] = rec BY <3>2, Parts DEF TypeOK
    <3> QED BY <2>2, <3>1, <3>2, <3>3, Parts DEF TypeOK
  <2> QED BY <2>1, <2>2 DEF TakeProgress
<1>5. TypeOK' BY <1>3, <1>4, Parts DEF TypeOK, TakeProgress
<1>6. StageOK(j)' BY <1>1, <1>2, <1>4, Parts DEF StageOK, TakeProgress
<1>7. ProgressOK(j)' BY <1>1, <1>4 DEF ProgressOK, TakeProgress
<1>8. StartOK(j)' BY Parts DEF StartOK, TakeProgress
<1>9. OwnOK(j)' BY <1>1, Parts DEF OwnOK, Keeps, TakeProgress
<1>10. \A k \in Job \ {j} : JobOK(k)' BY <1>4, Frame, DirAlone, Parts DEF TypeOK, TakeProgress
<1> QED BY <1>5, <1>6, <1>7, <1>8, <1>9, <1>10, Whole

(* The copy keeps the row in transfer.                                     *)
LEMMA PersistProgressInv == ASSUME IInv, NEW j \in Job, PersistProgress(j) PROVE IInv'
<1> USE DEF server, device, phone
<1>1. pc[j] = "watch" BY Parts DEF ProgressOK, PersistProgress
<1>2. /\ row[j].status = "transfer" /\ job[j].status = "transfer"
      /\ progress[j].status = "transfer" /\ progress[j] \in Records
  BY <1>1, Parts DEF TypeOK, StageOK, ProgressOK, PersistProgress
<1>3. /\ row' \in [Job -> Records] /\ lost' \in SUBSET Job /\ lost \subseteq lost'
      /\ \A k \in Job \ {j} : row'[k] = row[k]
      /\ row'[j] = progress[j] \/ row'[j] = row[j]
  BY <1>2, TryPutFacts, Parts DEF PersistProgress
<1>4. progress' = [progress EXCEPT ![j] = Absent] BY DEF PersistProgress
<1>5. TypeOK'
  <2>1. progress' \in [Job -> Records] BY <1>4, Constructors, Parts DEF TypeOK
  <2> QED BY <1>3, <2>1, Parts DEF TypeOK, PersistProgress
<1>6. StageOK(j)' BY <1>1, <1>2, <1>3 DEF StageOK, PersistProgress
<1>7. progress'[j] = Absent BY <1>4, Parts DEF TypeOK
<1>8. ProgressOK(j)' BY <1>1, <1>7 DEF ProgressOK, PersistProgress
<1>9. StartOK(j)' BY <1>1, <1>2, <1>3, Parts DEF StartOK, PersistProgress
<1>10. OwnOK(j)' BY <1>1, Parts DEF OwnOK, Keeps, PersistProgress
<1>11. \A k \in Job \ {j} : JobOK(k)'
  BY <1>3, <1>4, Frame, DirAlone, Parts DEF TypeOK, PersistProgress
<1> QED BY <1>5, <1>6, <1>8, <1>9, <1>10, <1>11, Whole

-----------------------------------------------------------------------------
(* An export is one more writer: no job's files, every job's directory.    *)
LEMMA ExportInv ==
  ASSUME IInv, NEW e \in Export, ExportBegin(e) \/ ExportEnd(e) PROVE IInv'
<1> USE DEF store, server, device
<1>1. e \notin Job BY ConstantsOK
<1>2. TypeOK'
  <2>1. Holding \subseteq Job \cup Export BY Parts DEF TypeOK, Holding
  <2>2. CASE ExportBegin(e) BY <2>2, DirTypes, Parts DEF TypeOK, ExportBegin
  <2>3. CASE ExportEnd(e) BY <2>1, <2>3, Parts DEF TypeOK, ExportEnd
  <2> QED BY <2>2, <2>3
<1>3. ASSUME NEW k \in Job PROVE DirKept(k)
  <2>1. Keeps(k) => k \in Holding BY DEF Keeps, Holding
  <2>2. CASE ExportBegin(e) BY <1>1, <2>2, DirWritten DEF ExportBegin
  <2>3. CASE ExportEnd(e) BY <1>1, <2>1, <2>3 DEF ExportEnd, DirKept
  <2> QED BY <2>2, <2>3
<1>4. \A k \in Job : JobOK(k)' BY <1>3, Frame, Parts DEF ExportBegin, ExportEnd
<1> QED BY <1>2, <1>4 DEF IInv

(* recover finds no job registered.                                        *)
LEMMA RecoverInv == ASSUME IInv, NEW j \in Job, Recover(j) PROVE IInv'
<1> USE DEF server, device, phone
<1>1. pc[j] = "none" /\ row[j] \in Records BY Parts DEF TypeOK, StartOK, Recover
<1> DEFINE rec == [row[j] EXCEPT !.status = "failed", !.error = "interrupted"]
<1>2. rec \in Records BY <1>1, Constructors DEF Terminal
<1>3. row' = [row EXCEPT ![j] = rec] BY DEF Recover
<1> HIDE DEF rec
<1>4. TypeOK'
  <2>1. row' \in [Job -> Records] BY <1>2, <1>3, Parts DEF TypeOK
  <2> QED BY <2>1, Parts DEF TypeOK, Recover
<1>5. StageOK(j)' BY <1>1, Parts DEF StageOK, Recover
<1>6. ProgressOK(j)' BY <1>1, Parts DEF ProgressOK, Recover
<1>7. StartOK(j)' BY <1>1, Parts DEF StartOK, Recover
<1>8. OwnOK(j)' BY <1>1, Parts DEF OwnOK, Keeps, Recover
<1>9. \A k \in Job \ {j} : JobOK(k)' BY <1>3, Frame, DirAlone, Parts DEF TypeOK, Recover
<1> QED BY <1>4, <1>5, <1>6, <1>7, <1>8, <1>9, Whole

(* Close touches the root context only.                                    *)
LEMMA CloseInv == ASSUME IInv, Close PROVE IInv'
<1> USE DEF store, device, phone
<1>1. TypeOK' BY Parts DEF TypeOK, Close
<1>2. \A k \in Job : JobOK(k)' BY Frame, DirAlone, Parts DEF Close
<1> QED BY <1>1, <1>2 DEF IInv

(* A process that is gone: no goroutine, only rows and files.              *)
LEMMA ExitInv == ASSUME IInv, Exit PROVE IInv'
<1>1. TypeOK' BY Parts, Constructors DEF TypeOK, Exit, store
<1>2. ASSUME NEW k \in Job PROVE JobOK(k)'
  <2>1. StageOK(k)' BY DEF Exit, StageOK
  <2>2. ProgressOK(k)' BY DEF Exit, ProgressOK
  <2>3. StartOK(k)' BY DEF Exit, StartOK
  <2>4. OwnOK(k)' BY DEF Exit, OwnOK, Keeps
  <2> QED BY <2>1, <2>2, <2>3, <2>4 DEF JobOK
<1> QED BY <1>1, <1>2 DEF IInv

(* New returns only when no row is active.                                 *)
LEMMA RestartInv == ASSUME IInv, Restart PROVE IInv'
<1> USE DEF store, device, phone
<1>1. TypeOK' BY Parts DEF TypeOK, Restart
<1>2. ASSUME NEW k \in Job PROVE JobOK(k)'
  <2>1. StageOK(k)' /\ ProgressOK(k)' BY Parts DEF Restart, StageOK, ProgressOK
  <2>2. StartOK(k)' BY Parts DEF Restart, StartOK
  <2>3. OwnOK(k)' BY Parts DEF Restart, OwnOK, Keeps
  <2> QED BY <2>1, <2>2, <2>3 DEF JobOK
<1> QED BY <1>1, <1>2 DEF IInv

(* The empty table, and a directory without a package.                     *)
LEMMA InitInv == Init => IInv
<1> SUFFICES ASSUME Init PROVE IInv OBVIOUS
<1>1. TypeOK BY Constructors DEF Init, TypeOK
<1>2. ASSUME NEW k \in Job PROVE JobOK(k)
  <2>1. StageOK(k) /\ ProgressOK(k) BY DEF Init, StageOK, ProgressOK
  <2>2. StartOK(k) BY DEF Init, StartOK, Absent, Active
  <2>3. OwnOK(k) BY DEF Init, OwnOK, Keeps
  <2> QED BY <2>1, <2>2, <2>3 DEF JobOK
<1> QED BY <1>1, <1>2 DEF IInv

(* IInv is inductive.                                                      *)
LEMMA NextInv == IInv /\ [Next]_vars => IInv'
<1> SUFFICES ASSUME IInv, [Next]_vars PROVE IInv' OBVIOUS
<1>1. ASSUME NEW j \in Job, Starting(j) PROVE IInv'
  BY <1>1, StartCheckInv, StartPutInv, StartRegisterInv DEF Starting
<1>2. ASSUME NEW j \in Job, Running(j) PROVE IInv'
  BY <1>2, SetStatusInv, PersistStatusInv, LoadInv, WriteBeginInv, WriteEndInv, WriteFailsInv,
     PersistCountInv, ConnectInv, WatchEndsInv, WatchDoneInv, SettleInv DEF Running
<1>3. ASSUME NEW j \in Job, Streaming(j) \/ Watching(j) \/ Recover(j) PROVE IInv'
  BY <1>3, StreamingInv, TakeProgressInv, PersistProgressInv, RecoverInv DEF Watching
<1>4. ASSUME NEW e \in Export, ExportBegin(e) \/ ExportEnd(e) PROVE IInv' BY <1>4, ExportInv
<1>5. CASE Close \/ Exit \/ Restart BY <1>5, CloseInv, ExitInv, RestartInv
<1>6. CASE UNCHANGED vars
  <2>1. TypeOK' BY <1>6, Parts DEF TypeOK, vars, store, server, device, phone
  <2>2. \A k \in Job : JobOK(k)'
    BY <1>6, Frame, DirAlone, Parts DEF vars, store, server, device, phone
  <2> QED BY <2>1, <2>2 DEF IInv
<1> QED BY <1>1, <1>2, <1>3, <1>4, <1>5, <1>6 DEF Next

-----------------------------------------------------------------------------
(* IInv holds in every reachable state. *)
THEOREM Invariance == Spec => []IInv
BY InitInv, NextInv, PTL DEF Spec

(* Every variable keeps its type. *)
THEOREM TypeCorrect == Spec => []TypeOK
<1>1. IInv => TypeOK BY DEF IInv
<1> QED BY <1>1, Invariance, PTL

(* No late copy of the progress goroutine can replace a restore's outcome  *)
(* in the table: watch has waited for it.                                  *)
THEOREM OutcomeIsDurable == Spec => []DurableOutcome
<1>1. IInv => DurableOutcome BY DEF IInv, JobOK, StageOK, DurableOutcome
<1> QED BY <1>1, Invariance, PTL

(* Whatever the other jobs and exports do, a restore whose files none of   *)
(* them has touched hands over its own account's package.                  *)
THEOREM OwnPackageRestored == Spec => []RestoredItsOwn
<1>1. IInv => RestoredItsOwn BY DEF IInv, JobOK, OwnOK, RestoredItsOwn
<1> QED BY <1>1, Invariance, PTL

-----------------------------------------------------------------------------
(* What one step can do to the table: nothing, insert the row of a Start   *)
(* that has passed its check, or rewrite one active row in the same stage, *)
(* the next one or as aborted.                                             *)
Inserts(j, rec) == StartPut(j) /\ Put(j, Queued) /\ row[j] = Absent /\ rec = Queued

Rewrites(j, rec) ==
  /\ row[j].status \in Active
  /\ rec.status \in {row[j].status, Successor[row[j].status], "failed", "cancelled"}

RowStep(j, rec) ==
  /\ row' = [row EXCEPT ![j] = rec]
  /\ Inserts(j, rec) \/ Rewrites(j, rec)

TableStep == row' = row \/ \E j \in Job, rec \in Records : RowStep(j, rec)

(* A write that may be refused, of a record in an allowed stage.           *)
LEMMA Rewriting ==
  ASSUME NEW j \in Job, NEW rec \in Records, TryPut(j, rec), row[j].status \in Active,
         rec.status \in {row[j].status, Successor[row[j].status], "failed", "cancelled"}
  PROVE  TableStep
<1>1. CASE Put(j, rec)
  <2>1. RowStep(j, rec) BY <1>1 DEF RowStep, Rewrites, Put
  <2> QED BY <2>1 DEF TableStep
<1>2. CASE PutFails(j) BY <1>2 DEF PutFails, TableStep
<1> QED BY <1>1, <1>2 DEF TryPut

(* No step does anything else to the table.                                *)
LEMMA RowSteps == ASSUME IInv, [Next]_vars PROVE TableStep
<1>1. ASSUME NEW j \in Job, StartPut(j) PROVE TableStep
  <2>1. row[j] = Absent BY <1>1, Parts DEF StartOK, StartPut
  <2>2. CASE Put(j, Queued)
    <3>1. RowStep(j, Queued) BY <1>1, <2>1, <2>2 DEF RowStep, Inserts, Put
    <3> QED BY <3>1, Constructors DEF TableStep
  <2>3. CASE PutFails(j) BY <2>3 DEF PutFails, TableStep
  <2> QED BY <1>1, <2>2, <2>3 DEF StartPut
<1>2. ASSUME NEW j \in Job, PersistStatus(j) PROVE TableStep
  <2>1. /\ job[j] \in Records /\ TryPut(j, job[j])
        /\ row[j].status \in Active /\ job[j].status = Successor[row[j].status]
    BY <1>2, Parts DEF TypeOK, StageOK, PersistStatus, TryPut, Active
  <2> QED BY <2>1, Rewriting
<1>3. ASSUME NEW j \in Job, PersistCount(j) \/ Settle(j) PROVE TableStep
  <2>1. /\ job[j] \in Records /\ TryPut(j, job[j]) /\ row[j].status \in Active
        /\ job[j].status \in {row[j].status, "failed", "cancelled"}
    BY <1>3, Parts DEF TypeOK, StageOK, PersistCount, Settle, Active
  <2> QED BY <2>1, Rewriting
<1>4. ASSUME NEW j \in Job, PersistProgress(j) PROVE TableStep
  <2>1. pc[j] = "watch" /\ progress[j] # Absent BY <1>4, Parts DEF ProgressOK, PersistProgress
  <2>2. /\ progress[j] \in Records /\ TryPut(j, progress[j])
        /\ row[j].status = "transfer" /\ progress[j].status = "transfer"
    BY <1>4, <2>1, Parts DEF TypeOK, StageOK, ProgressOK, PersistProgress
  <2> QED BY <2>2, Rewriting DEF Active
<1>5. ASSUME NEW j \in Job, Recover(j) PROVE TableStep
  <2> DEFINE rec == [row[j] EXCEPT !.status = "failed", !.error = "interrupted"]
  <2>1. row[j] \in Records BY Parts DEF TypeOK
  <2>2. rec \in Records BY <2>1, Constructors DEF Terminal
  <2>3. rec.status = "failed" BY <2>1 DEF Records
  <2>4. row' = [row EXCEPT ![j] = rec] /\ row[j].status \in Active BY <1>5 DEF Recover
  <2> HIDE DEF rec
  <2>5. RowStep(j, rec) BY <2>3, <2>4 DEF RowStep, Rewrites
  <2> QED BY <2>2, <2>5 DEF TableStep
<1>6. ASSUME NEW j \in Job, StartCheck(j) \/ StartRegister(j) PROVE row' = row
  BY <1>6 DEF StartCheck, StartRegister, store
<1>7. ASSUME NEW j \in Job,
             \/ SetStatus(j) \/ Load(j) \/ LoadFails(j)
             \/ WriteBegin(j) \/ WriteEnd(j) \/ WriteFails(j)
             \/ Connect(j) \/ ConnectFails(j)
             \/ WatchDone(j) \/ WatchCancelled(j) \/ WatchFailed(j)
      PROVE  row' = row
  BY <1>7 DEF SetStatus, Load, LoadFails, WriteBegin, WriteEnd, WriteFails, Connect,
     ConnectFails, WatchDone, WatchCancelled, WatchFailed, store
<1>8. ASSUME NEW j \in Job, Streaming(j) \/ TakeProgress(j) PROVE row' = row
  BY <1>8 DEF Streaming, SendProgress, EndStream, TakeProgress, store
<1>9. ASSUME NEW e \in Export, ExportBegin(e) \/ ExportEnd(e) PROVE row' = row
  BY <1>9 DEF ExportBegin, ExportEnd, store
<1>10. CASE Close \/ Exit \/ Restart \/ UNCHANGED vars
  BY <1>10 DEF Close, Exit, Restart, vars, store, TableStep
<1>11. row' = row => TableStep BY DEF TableStep
<1>12. ASSUME NEW j \in Job, Starting(j) \/ Running(j) PROVE TableStep
  BY <1>1, <1>2, <1>3, <1>6, <1>7, <1>11, <1>12 DEF Starting, Running
<1>13. ASSUME NEW j \in Job, Streaming(j) \/ Watching(j) \/ Recover(j) PROVE TableStep
  BY <1>4, <1>5, <1>8, <1>11, <1>13 DEF Watching
<1> QED BY <1>9, <1>10, <1>11, <1>12, <1>13 DEF Next

-----------------------------------------------------------------------------
(* When Starts do not overlap, an insertion follows its check with no      *)
(* other insertion of the account in between.                              *)
Exclusive ==
  \A j, k \in Job :
    AccountOf[j] = AccountOf[k] /\ start[j] # "idle" /\ start[k] # "idle" => j = k

Checked == \A j \in Job : start[j] = "checked" => Rivals(j) = {}

SerialInv == IInv /\ Exclusive /\ Checked

(* No call of Start moves forward and no row becomes active. *)
Quiet ==
  \A j \in Job :
    /\ start'[j] # "idle" => start[j] # "idle"
    /\ start'[j] = "checked" => start[j] = "checked"
    /\ row'[j].status \in Active => row[j].status \in Active

(* A quiet step keeps the rows of an account apart.                        *)
LEMMA QuietSerial == ASSUME SerialInv, IInv', Quiet PROVE SerialInv'
<1>1. Exclusive' BY DEF SerialInv, Exclusive, Quiet
<1>2. Checked' BY DEF SerialInv, Checked, Quiet, Rivals, Siblings
<1> QED BY <1>1, <1>2 DEF SerialInv

(* Passing the check leaves every other Start of the account idle.         *)
LEMMA StartCheckSerial ==
  ASSUME SerialInv, IInv', ~ConcurrentStarts, NEW j \in Job, StartCheck(j) PROVE SerialInv'
<1>1. /\ \A k \in Siblings(j) : start[k] = "idle"
      /\ Rivals(j) = {} /\ row' = row /\ start' = [start EXCEPT ![j] = "checked"]
  BY DEF StartCheck, store
<1>2. \A k \in Job \ {j} : start'[k] = start[k] BY <1>1, Parts DEF SerialInv, TypeOK
<1>3. Exclusive' BY <1>1, <1>2 DEF SerialInv, Exclusive, Siblings
<1>4. Checked' BY <1>1, <1>2 DEF SerialInv, Checked, Rivals, Siblings
<1> QED BY <1>3, <1>4 DEF SerialInv

(* The row inserted meets no check of its account.                         *)
LEMMA StartPutSerial ==
  ASSUME SerialInv, IInv', NEW j \in Job, StartPut(j), Put(j, Queued) PROVE SerialInv'
<1>1. start[j] = "checked" /\ Rivals(j) = {} BY DEF StartPut, SerialInv, Checked
<1>2. /\ \A k \in Job \ {j} : start'[k] = start[k] /\ row'[k] = row[k]
      /\ start'[j] \in {"idle", "put"}
  BY Parts DEF StartPut, Put, TypeOK, SerialInv
<1>3. Exclusive' BY <1>1, <1>2 DEF SerialInv, Exclusive
<1>4. \A k \in Job \ {j} : AccountOf[k] = AccountOf[j] => start[k] = "idle"
  BY <1>1 DEF SerialInv, Exclusive
<1>5. Checked' BY <1>2, <1>4 DEF SerialInv, Checked, Rivals, Siblings
<1> QED BY <1>3, <1>5 DEF SerialInv

(* Every other step is quiet.  RowSteps gives the rows; the calls of Start *)
(* only return or are forgotten.                                           *)
LEMMA NextSerial ==
  ASSUME SerialInv, ~ConcurrentStarts, [Next]_vars PROVE SerialInv'
<1>1. IInv /\ IInv' BY NextInv DEF SerialInv
<1>2. CASE \E j \in Job : StartCheck(j) BY <1>1, <1>2, StartCheckSerial
<1>3. CASE \E j \in Job : StartPut(j) /\ Put(j, Queued) BY <1>1, <1>3, StartPutSerial
<1>4. CASE ~(\E j \in Job : StartCheck(j)) /\ ~(\E j \in Job : StartPut(j) /\ Put(j, Queued))
  <2>1. \A k \in Job : start'[k] # "idle" => start[k] # "idle" /\ start'[k] = start[k]
    <3>1. ASSUME NEW j \in Job, start' = [start EXCEPT ![j] = "idle"]
          PROVE  \A k \in Job : start'[k] # "idle" => start[k] # "idle" /\ start'[k] = start[k]
      BY <1>1, <3>1, Parts DEF TypeOK
    <3>2. ASSUME NEW j \in Job, StartPut(j) \/ StartRegister(j) PROVE start' = [start EXCEPT ![j] = "idle"]
      BY <1>4, <3>2 DEF StartPut, StartRegister
    <3>3. CASE start' = start BY <3>3
    <3>4. CASE Exit BY <3>4 DEF Exit
    <3>5. ASSUME NEW j \in Job, Running(j) PROVE start' = start
      BY <3>5 DEF Running, SetStatus, PersistStatus, Load, LoadFails, WriteBegin, WriteEnd,
         WriteFails, PersistCount, Connect, ConnectFails, WatchDone, WatchCancelled,
         WatchFailed, Settle
    <3>6. ASSUME NEW j \in Job, Streaming(j) \/ Watching(j) \/ Recover(j) PROVE start' = start
      BY <3>6 DEF Streaming, Watching, SendProgress, EndStream, TakeProgress, PersistProgress,
         Recover
    <3>7. ASSUME NEW e \in Export, ExportBegin(e) \/ ExportEnd(e) PROVE start' = start
      BY <3>7 DEF ExportBegin, ExportEnd
    <3>8. CASE Close \/ Restart \/ UNCHANGED vars BY <3>3, <3>8 DEF Close, Restart, vars
    <3> QED BY <1>4, <3>1, <3>2, <3>3, <3>4, <3>5, <3>6, <3>7, <3>8 DEF Next, Starting
  <2>2. \A k \in Job : row'[k].status \in Active => row[k].status \in Active
    <3>1. CASE row' = row BY <3>1
    <3>2. ASSUME NEW j \in Job, NEW rec \in Records, RowStep(j, rec), Rewrites(j, rec)
          PROVE  \A k \in Job : row'[k].status \in Active => row[k].status \in Active
      BY <1>1, <3>2, Parts DEF RowStep, Rewrites, TypeOK
    <3>3. ASSUME NEW j \in Job, NEW rec \in Records, RowStep(j, rec), Inserts(j, rec) PROVE FALSE
      BY <1>4, <3>3 DEF Inserts
    <3> QED BY <1>1, <3>1, <3>2, <3>3, RowSteps DEF TableStep, RowStep
  <2>3. Quiet BY <2>1, <2>2 DEF Quiet
  <2> QED BY <1>1, <2>3, QuietSerial
<1> QED BY <1>2, <1>3, <1>4

(* The invariant of services whose Starts do not overlap.                  *)
LEMMA SerialInvariance == ASSUME ~ConcurrentStarts PROVE Spec => []SerialInv
<1>1. Init => SerialInv
  <2> SUFFICES ASSUME Init PROVE SerialInv OBVIOUS
  <2>1. Exclusive /\ Checked BY DEF Init, Exclusive, Checked
  <2> QED BY <2>1, InitInv DEF SerialInv
<1>2. SerialInv /\ [Next]_vars => SerialInv' BY NextSerial
<1> QED BY <1>1, <1>2, PTL DEF Spec

-----------------------------------------------------------------------------
(* The refinement: an insertion admits, a stored status advances, a        *)
(* failure, a cancellation or a recovery aborts, the rest is invisible.    *)
Statuses == [j \in Job |-> row[j].status]

(* An empty table is an empty ledger.                                      *)
LEMMA LedgerInit == Init => Ledger!Init
BY DEF Init, Ledger!Init, Absent

(* Every step of the service is a step of the ledger or a stutter.         *)
LEMMA LedgerStep ==
  ASSUME SerialInv, ~ConcurrentStarts, [Next]_vars PROVE [Ledger!Next]_Statuses
<1>1. IInv BY DEF SerialInv
<1>2. CASE row' = row BY <1>2 DEF Statuses
<1>3. ASSUME NEW j \in Job, NEW rec \in Records, RowStep(j, rec), Inserts(j, rec)
      PROVE  Ledger!Admit(j)
  <2>1. start[j] = "checked" /\ Rivals(j) = {} /\ row[j].status = "absent"
    BY <1>3 DEF Inserts, StartPut, SerialInv, Checked, Absent
  <2>2. Statuses' = [Statuses EXCEPT ![j] = "queued"]
    BY <1>1, <1>3, Parts DEF Statuses, RowStep, Inserts, TypeOK, Queued
  <2>3. Ledger!ActiveFor(j) = {}
    BY <2>1 DEF Ledger!ActiveFor, Rivals, Siblings, Ledger!Active, Active
  <2> QED BY <2>1, <2>2, <2>3 DEF Ledger!Admit, Statuses
<1>4. ASSUME NEW j \in Job, NEW rec \in Records, RowStep(j, rec), Rewrites(j, rec)
      PROVE  Ledger!Advance(j) \/ Ledger!Abort(j) \/ UNCHANGED Statuses
  <2>1. Statuses' = [Statuses EXCEPT ![j] = rec.status] /\ Statuses[j] = row[j].status
    BY <1>1, <1>4, Parts DEF Statuses, RowStep, TypeOK
  <2>2. CASE rec.status = row[j].status BY <1>1, <2>1, <2>2 DEF Statuses
  <2>3. CASE rec.status = Successor[row[j].status]
    BY <1>4, <2>1, <2>3 DEF Ledger!Advance, Statuses, Rewrites, Ledger!Active, Active,
       Ledger!Terminal, Terminal
  <2>4. CASE rec.status \in {"failed", "cancelled"}
    BY <1>4, <2>1, <2>4 DEF Ledger!Abort, Statuses, Rewrites, Ledger!Active, Active
  <2> QED BY <1>4, <2>2, <2>3, <2>4 DEF Rewrites
<1> QED BY <1>1, <1>2, <1>3, <1>4, RowSteps DEF TableStep, RowStep, Ledger!Next

(* The table of restores implements JobLedger when Starts do not overlap.  *)
THEOREM ImplementsLedger ==
  ASSUME ~ConcurrentStarts PROVE Spec => LedgerSpec
<1>1. SerialInv /\ [Next]_vars => [Ledger!Next]_Statuses BY LedgerStep
<1> QED BY <1>1, LedgerInit, SerialInvariance, PTL DEF Spec, LedgerSpec, Ledger!Spec, Statuses
=============================================================================
