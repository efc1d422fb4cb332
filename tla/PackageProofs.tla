---------------------------- MODULE PackageProofs ----------------------------
(***************************************************************************)
(* Proofs about a package's files: PackageDir, one writer and the jobs     *)
(* that wait for a package and read it, for any number of packages, jobs   *)
(* and writes; and PackageDump, one restore's way from the table to what   *)
(* the session reads, for any messages, readers, page sizes, sizes of      *)
(* records and of shards.                                                  *)
(*                                                                         *)
(* WholeSnapshot is not inductive: that a settled look means a whole       *)
(* package rests on what each place of the writer leaves in the files, a   *)
(* kill at any of them included, and on a look's being remembered as new   *)
(* after every write (IInv).                                               *)
(*                                                                         *)
(* Nor are PagesComplete, RoundTrip and Restored.  DumpInv says where the  *)
(* rest is until the end: what a reader has not received lies below its    *)
(* cursor, what is not written yet comes after what is in the log, the     *)
(* segments cover the log piece by piece, and what has been read back is   *)
(* the beginning of it.                                                    *)
(***************************************************************************)
EXTENDS PackageDir, PackageDump, TLAPS

-----------------------------------------------------------------------------
(* The package directory.                                                  *)

Coherent ==
  ~Copying /\ db \in Package /\ shards # None => db = shards /\ db \in written

(* What the writer has done so far. *)
PlaceOK ==
  /\ writer # "idle" => target \in Package
  /\ writer \in {"schema", "begin", "shards", "fill", "commit", "undo", "undone"} =>
       db \in {None, Blank}
  /\ writer \in {"commit", "copy db"} => shards = target
  /\ writer = "copy shards" => db = target

(* What a job knows of files that have not changed since it looked. *)
LookOK(b) ==
  /\ phase[b] = "polling" /\ ~fresh[b] => ~Copying
  /\ Reading(b) /\ ~disturbed[b] => ~Copying /\ shards # None
  /\ phase[b] = "indexed" /\ ~disturbed[b] => taken[b] = db /\ db \in Package

IInv == TypeOK /\ Coherent /\ PlaceOK /\ (\A b \in Backup : LookOK(b)) /\ WholeSnapshot

-----------------------------------------------------------------------------
LEMMA InitInv == Init => IInv
<1> SUFFICES ASSUME Init PROVE IInv OBVIOUS
<1>1. TypeOK
  <2>1. 0 \in 0..StableFor /\ 0 \in 0..MaxWrites BY ConstantsOK
  <2> QED BY <2>1 DEF Init, TypeOK
<1>2. Coherent /\ PlaceOK BY DEF Init, Coherent, PlaceOK
<1>3. (\A b \in Backup : LookOK(b)) /\ WholeSnapshot
  BY DEF Init, LookOK, Reading, WholeSnapshot
<1> QED BY <1>1, <1>2, <1>3 DEF IInv

(* After a write every look is new, and every Read disturbed.              *)
LEMMA NoticedLooks ==
  ASSUME IInv, Noticed, UNCHANGED <<phase, taken>>, written \subseteq written'
  PROVE  (\A b \in Backup : LookOK(b)') /\ WholeSnapshot'
<1>1. \A b \in Backup : fresh'[b] /\ (disturbed'[b] <=> disturbed[b] \/ Reading(b))
  BY DEF Noticed
<1>2. \A b \in Backup : LookOK(b)' BY <1>1 DEF LookOK, Reading
<1>3. WholeSnapshot' BY <1>1 DEF IInv, WholeSnapshot
<1> QED BY <1>2, <1>3

LEMMA NoticedTypes ==
  ASSUME TypeOK, Noticed
  PROVE  fresh' \in [Backup -> BOOLEAN] /\ disturbed' \in [Backup -> BOOLEAN]
BY DEF TypeOK, Noticed

(* A write or a copy begins.                                               *)
LEMMA BeginInv ==
  ASSUME IInv, NEW p \in Package, NEW place \in {"clear", "copy"}, Begin(p, place)
  PROVE  IInv'
<1>1. Noticed /\ UNCHANGED <<phase, taken, written>> BY DEF Begin
<1>2. TypeOK'
  <2>1. fresh' \in [Backup -> BOOLEAN] /\ disturbed' \in [Backup -> BOOLEAN]
    BY <1>1, NoticedTypes DEF IInv
  <2>2. writes' \in 0..MaxWrites BY ConstantsOK DEF Begin, IInv, TypeOK
  <2>3. place \in {"clear", "copy"} /\ writer' = place /\ target' = p
        /\ UNCHANGED <<written, db, shards, journal, phase, age, taken>>
    BY DEF Begin, files
  <2> QED BY <2>1, <2>2, <2>3 DEF IInv, TypeOK
<1>3. Coherent' BY DEF Begin, files, IInv, Coherent, Copying
<1>4. PlaceOK' BY DEF Begin, files, PlaceOK
<1> QED BY <1>1, <1>2, <1>3, <1>4, NoticedLooks DEF IInv

(* The writer's steps.                                                     *)
LEMMA WriteInv == ASSUME IInv, Write \/ WriteFails PROVE IInv'
<1>1. Noticed /\ UNCHANGED <<writes, phase, age, taken>> /\ written \subseteq written'
  BY DEF Write, WriteFails, ClearShards, ClearIndex, CreateIndex, BeginTx, CreateShards,
     FillShards, Commit, Step
<1>2. writer # "idle" /\ target \in Package
  BY DEF Write, WriteFails, ClearShards, ClearIndex, CreateIndex, BeginTx, CreateShards,
     FillShards, Commit, Step, IInv, PlaceOK
<1>3. TypeOK'
  <2>1. fresh' \in [Backup -> BOOLEAN] /\ disturbed' \in [Backup -> BOOLEAN]
    BY <1>1, NoticedTypes DEF IInv
  <2> QED BY <1>1, <1>2, <2>1 DEF Write, WriteFails, ClearShards, ClearIndex, CreateIndex,
         BeginTx, CreateShards, FillShards, Commit, Step, IInv, TypeOK
<1>4. Coherent' /\ PlaceOK'
  <2>1. CASE ClearShards
    BY <2>1, <1>2 DEF ClearShards, Step, IInv, Coherent, PlaceOK, Copying
  <2>2. CASE ClearIndex
    BY <2>2, <1>2, ConstantsOK DEF ClearIndex, Step, IInv, Coherent, PlaceOK, Copying
  <2>3. CASE CreateIndex
    BY <2>3, <1>2, ConstantsOK DEF CreateIndex, Step, IInv, Coherent, PlaceOK, Copying
  <2>4. CASE BeginTx
    BY <2>4, <1>2, ConstantsOK DEF BeginTx, Step, IInv, Coherent, PlaceOK, Copying
  <2>5. CASE CreateShards
    BY <2>5, <1>2, ConstantsOK DEF CreateShards, Step, IInv, Coherent, PlaceOK, Copying
  <2>6. CASE FillShards
    BY <2>6, <1>2, ConstantsOK DEF FillShards, Step, IInv, Coherent, PlaceOK, Copying
  <2>7. CASE Commit
    BY <2>7, <1>2 DEF Commit, Step, IInv, Coherent, PlaceOK, Copying
  <2>8. CASE WriteFails
    BY <2>8, <1>2, ConstantsOK DEF WriteFails, Step, IInv, Coherent, PlaceOK, Copying
  <2> QED BY <2>1, <2>2, <2>3, <2>4, <2>5, <2>6, <2>7, <2>8 DEF Write
<1> QED BY <1>1, <1>3, <1>4, NoticedLooks DEF IInv

(* A copy's steps.                                                         *)
LEMMA CopyInv == ASSUME IInv, Copy PROVE IInv'
<1>1. Noticed /\ UNCHANGED <<writes, phase, age, taken>> /\ written \subseteq written'
  BY DEF Copy, CopyIndex, CopyShards, Step
<1>2. writer # "idle" /\ target \in Package
  BY DEF Copy, CopyIndex, CopyShards, Step, IInv, PlaceOK
<1>3. TypeOK'
  <2>1. fresh' \in [Backup -> BOOLEAN] /\ disturbed' \in [Backup -> BOOLEAN]
    BY <1>1, NoticedTypes DEF IInv
  <2> QED BY <1>1, <1>2, <2>1 DEF Copy, CopyIndex, CopyShards, Step, IInv, TypeOK
<1>4. Coherent' /\ PlaceOK'
  BY <1>2 DEF Copy, CopyIndex, CopyShards, Step, IInv, Coherent, PlaceOK, Copying
<1> QED BY <1>1, <1>3, <1>4, NoticedLooks DEF IInv

(* A job's steps leave the directory alone.                                *)
LEMMA JobInv ==
  ASSUME IInv, NEW b \in Backup,
         Wait(b) \/ Poll(b) \/ Read(b) \/ ReadBusy(b) \/ CancelWait(b) \/ Organize(b)
  PROVE  IInv'
<1>1. UNCHANGED <<db, shards, journal, writer, target, writes, written>>
  BY DEF Wait, Poll, Read, ReadIndex, ReadShards, ReadBusy, CancelWait, Organize, files, source
<1>2. Coherent' /\ PlaceOK' BY <1>1 DEF IInv, Coherent, PlaceOK, Copying
<1>3. TypeOK'
  <2>1. phase' \in [Backup -> {"away", "polling", "reading", "indexed",
                               "got", "stored", "failed", "cancelled"}]
    BY DEF Wait, Poll, Read, ReadIndex, ReadShards, ReadBusy, CancelWait, Organize, Fail,
       IInv, TypeOK
  <2>2. fresh' \in [Backup -> BOOLEAN] /\ disturbed' \in [Backup -> BOOLEAN]
    <3>1. Copying \in BOOLEAN BY DEF Copying
    <3> QED BY <3>1 DEF Wait, Poll, Read, ReadIndex, ReadShards, ReadBusy, CancelWait, Organize,
           IInv, TypeOK
  <2>3. taken' \in [Backup -> Package \cup {None, Mixed}]
    BY DEF Wait, Poll, Read, ReadIndex, ReadShards, ReadBusy, CancelWait, Organize, Fail,
       IInv, TypeOK
  <2>4. age' \in [Backup -> 0..StableFor]
    <3> DEFINE Ages == 0..StableFor
    <3>1. age \in [Backup -> Ages] BY DEF IInv, TypeOK
    <3>2. 0 \in Ages BY ConstantsOK
    <3>3. age[b] \in Ages BY <3>1
    <3>4. age[b] < StableFor => age[b] + 1 \in Ages BY <3>3, ConstantsOK
    <3> HIDE DEF Ages
    <3>5. CASE Wait(b)
      <4>1. age' \in [Backup -> Ages] BY <3>1, <3>2, <3>5 DEF Wait
      <4> QED BY <4>1 DEF Ages
    <3>6. CASE Poll(b)
      <4>1. age' \in [Backup -> Ages] BY <3>1, <3>2, <3>4, <3>6 DEF Poll
      <4> QED BY <4>1 DEF Ages
    <3>7. CASE ~Wait(b) /\ ~Poll(b)
      <4>1. age' = age BY <3>7 DEF Read, ReadIndex, ReadShards, ReadBusy, CancelWait, Organize
      <4> QED BY <3>1, <4>1 DEF Ages
    <3> QED BY <3>5, <3>6, <3>7
  <2> QED BY <1>1, <2>1, <2>2, <2>3, <2>4 DEF IInv, TypeOK
<1>4. \A c \in Backup : LookOK(c)'
  <2>1. ASSUME NEW c \in Backup, c # b PROVE LookOK(c)'
    <3>1. UNCHANGED <<phase[c], fresh[c], taken[c], disturbed[c]>>
      BY <2>1 DEF Wait, Poll, Read, ReadIndex, ReadShards, ReadBusy, CancelWait, Organize, Fail,
         IInv, TypeOK
    <3> QED BY <1>1, <3>1 DEF IInv, LookOK, Reading, Copying
  <2>2. LookOK(b)'
    <3>1. CASE Wait(b) BY <3>1 DEF Wait, LookOK, Reading, IInv, TypeOK
    <3>2. CASE Poll(b)
      BY <1>1, <3>2 DEF Poll, Ready, LookOK, Reading, Copying, IInv, TypeOK
    <3>3. CASE ReadIndex(b)
      BY <1>1, <3>3 DEF ReadIndex, Fail, LookOK, Reading, Copying, IInv, TypeOK
    <3>4. CASE ReadShards(b) BY <3>4 DEF ReadShards, Fail, LookOK, Reading, IInv, TypeOK
    <3>5. CASE ReadBusy(b) BY <3>5 DEF ReadBusy, LookOK, Reading, IInv, TypeOK
    <3>6. CASE CancelWait(b) \/ Organize(b)
      BY <3>6 DEF CancelWait, Organize, LookOK, Reading, IInv, TypeOK
    <3> QED BY <3>1, <3>2, <3>3, <3>4, <3>5, <3>6 DEF Read
  <2> QED BY <2>1, <2>2
<1>5. WholeSnapshot'
  <2> SUFFICES ASSUME NEW c \in Backup, phase'[c] \in {"got", "stored"}, ~disturbed'[c]
               PROVE  taken'[c] \in written
    BY <1>1 DEF WholeSnapshot
  <2>1. CASE ReadShards(b) /\ c = b
    <3>1. phase[b] = "indexed" /\ ~disturbed[b] BY <2>1 DEF ReadShards
    <3>2. taken[b] = db /\ db \in Package /\ db = shards /\ db \in written
      BY <3>1 DEF IInv, LookOK, Reading, Coherent
    <3> QED BY <2>1, <3>2 DEF ReadShards, Fail, IInv, TypeOK
  <2>2. CASE ~(ReadShards(b) /\ c = b)
    <3>1. phase[c] \in {"got", "stored"} /\ ~disturbed[c] /\ taken'[c] = taken[c]
      BY <2>2 DEF Wait, Poll, Read, ReadIndex, ReadShards, ReadBusy, CancelWait, Organize, Fail,
         IInv, TypeOK
    <3> QED BY <3>1 DEF IInv, WholeSnapshot
  <2> QED BY <2>1, <2>2
<1> QED BY <1>2, <1>3, <1>4, <1>5 DEF IInv

(* A kill leaves the files as they are, at whatever place of the writer.   *)
LEMMA KillInv == ASSUME IInv, Kill PROVE IInv'
<1>1. /\ UNCHANGED <<db, shards, journal, writes, written, fresh, age, disturbed>>
      /\ phase' = [b \in Backup |-> "away"] /\ taken' = [b \in Backup |-> None]
      /\ \/ Copying /\ UNCHANGED <<writer, target>>
         \/ ~Copying /\ writer' = "idle" /\ target' = None
  BY DEF Kill, files
<1>2. TypeOK' BY <1>1 DEF IInv, TypeOK
<1>3. Coherent' /\ PlaceOK' BY <1>1 DEF IInv, Coherent, PlaceOK, Copying
<1>4. (\A b \in Backup : LookOK(b)') /\ WholeSnapshot' BY <1>1 DEF LookOK, Reading, WholeSnapshot
<1> QED BY <1>2, <1>3, <1>4 DEF IInv

LEMMA StepInv == ASSUME IInv, [Next]_vars PROVE IInv'
<1>1. CASE UNCHANGED vars
  <2>1. UNCHANGED <<db, shards, journal, writer, target, writes, written,
                    phase, fresh, age, taken, disturbed>>
    BY <1>1 DEF vars, files, source, jobs
  <2>2. TypeOK' BY <2>1 DEF IInv, TypeOK
  <2>3. Coherent' /\ PlaceOK' BY <2>1 DEF IInv, Coherent, PlaceOK, Copying
  <2>4. (\A b \in Backup : LookOK(b)') /\ WholeSnapshot'
    BY <2>1 DEF IInv, LookOK, Reading, Copying, WholeSnapshot
  <2> QED BY <2>2, <2>3, <2>4 DEF IInv
<1>2. ASSUME NEW p \in Package, WriteBegin(p) \/ CopyBegin(p) PROVE IInv'
  BY <1>2, BeginInv DEF WriteBegin, CopyBegin
<1>3. CASE Write \/ WriteFails \/ Copy BY <1>3, WriteInv, CopyInv
<1>4. ASSUME NEW b \in Backup,
             Wait(b) \/ Poll(b) \/ Read(b) \/ ReadBusy(b) \/ CancelWait(b) \/ Organize(b)
      PROVE  IInv'
  BY <1>4, JobInv
<1>5. CASE Kill BY <1>5, KillInv
<1> QED BY <1>1, <1>2, <1>3, <1>4, <1>5 DEF Next

(* The inductive invariant of the package directory. *)
THEOREM Invariance == Spec => []IInv
<1>1. IInv /\ [Next]_vars => IInv' BY StepInv
<1> QED BY <1>1, InitInv, PTL DEF Spec

(* Types. *)
THEOREM TypeCorrect == Spec => []TypeOK
<1>1. IInv => TypeOK BY DEF IInv
<1> QED BY <1>1, Invariance, PTL

(* WholeSnapshot: what a job gets from an undisturbed Read was completely   *)
(* written.                                                                *)
THEOREM SnapshotIsWhole == Spec => []WholeSnapshot
<1>1. IInv => WholeSnapshot BY DEF IInv
<1> QED BY <1>1, Invariance, PTL

-----------------------------------------------------------------------------
(* The readers of the table.                                               *)

RowOf(m) == [id |-> m, at |-> table[m]]

(* What a reader has received lies in order above its cursor; what stood    *)
(* still it has received, or will meet below the cursor.                   *)
GotOK(r) ==
  /\ \A i, j \in DOMAIN got[r] : i < j => Older(got[r][j], got[r][i])
  /\ \A i \in DOMAIN got[r] : TalkerOf[got[r][i].id] = reading[r]

CursorOK(r) ==
  /\ reading[r] = Nil => got[r] = <<>> /\ before[r] = Nil /\ ~more[r] /\ steady[r] = {}
  /\ more[r] => before[r] = IF got[r] = <<>> THEN Nil ELSE got[r][Len(got[r])]

SteadyOK(r) ==
  \A m \in steady[r] :
    /\ table[m] # Nil /\ TalkerOf[m] = reading[r]
    /\ Paging(r) => \/ RowOf(m) \in Range(got[r])
                    \/ more[r] /\ Below(RowOf(m), before[r])

PagesInv == PagesTypeOK /\ \A r \in Reader : GotOK(r) /\ CursorOK(r) /\ SteadyOK(r)

-----------------------------------------------------------------------------
(* The dump.  A conversation is dumped once, so no row is dumped twice.    *)
DumpOrderOK ==
  /\ stage # "none" => loading = "idle"
  /\ reading[Dump] # Nil => loading = "dumping"
  /\ stage = "none" => unwritten = {}
  /\ reading[Dump] \notin left
  /\ loading = "idle" /\ stage = "none" => dumped = <<>>

DistinctOK ==
  /\ \A i \in DOMAIN dumped : TalkerOf[dumped[i].id] \notin left
                              /\ TalkerOf[dumped[i].id] # reading[Dump]
  /\ \A i, j \in DOMAIN dumped : dumped[i] = dumped[j] => i = j

OwedOK == owed \subseteq Range(dumped)

-----------------------------------------------------------------------------
(* The shards: records lie one after the other in a file, and one file after *)
(* the other; only the first of a file goes beyond MaxShard.               *)
LogOK(w) ==
  /\ w.size >= Magic
  /\ \A i \in DOMAIN w.log :
       /\ w.log[i].off >= Magic
       /\ w.log[i].off = Magic \/ End(w.log[i]) <= MaxShard
       /\ w.log[i].file < w.file \/ (w.log[i].file = w.file /\ End(w.log[i]) <= w.size)
  /\ \A i, j \in DOMAIN w.log : i < j =>
       \/ w.log[i].file < w.log[j].file
       \/ w.log[i].file = w.log[j].file /\ End(w.log[i]) <= w.log[j].off

(* A segment is the range from its first record to its last.               *)
LastOf(seg) == seg.from + seg.count - 1

SegOK(log, seg) ==
  /\ seg.from \in DOMAIN log /\ LastOf(seg) \in DOMAIN log
  /\ log[seg.from].file = seg.file /\ log[seg.from].off = seg.off
  /\ log[LastOf(seg)].file = seg.file
  /\ End(log[LastOf(seg)]) = seg.off + seg.len

(* How much of the log the first n segments hold.                          *)
Upto(segs, n) == IF n = 0 THEN 0 ELSE LastOf(segs[n])

(* The segments, and the one being gathered, hold the log piece by piece.  *)
Tiles(log, segs, seg) ==
  /\ \A n \in DOMAIN segs : SegOK(log, segs[n]) /\ segs[n].from = Upto(segs, n - 1) + 1
  /\ seg.count > 0 => /\ SegOK(log, seg)
                      /\ seg.from = Upto(segs, Len(segs)) + 1
                      /\ LastOf(seg) = Len(log)
  /\ seg.count = 0 => Upto(segs, Len(segs)) = Len(log)

TilesOK == Tiles(text.log, index, segment)

(* The log is what has been written of the dump, in order.                 *)
WrittenOK ==
  stage \notin {"none", "failed"} =>
    /\ \A i, j \in DOMAIN text.log : i < j => Before(text.log[i].rec, text.log[j].rec)
    /\ \A i \in DOMAIN text.log : \A n \in unwritten : Before(text.log[i].rec, dumped[n])
    /\ \A i \in DOMAIN text.log : text.log[i].rec \in Range(dumped)
    /\ \A n \in DOMAIN dumped \ unwritten : \E i \in DOMAIN text.log : text.log[i].rec = dumped[n]
    /\ stage # "text" => unwritten = {} /\ segment.count = 0

(* Each blob is the range of one object.                                   *)
BlobsOK ==
  /\ Len(blobs) = Len(media.log)
  /\ \A n \in DOMAIN blobs :
       blobs[n] = [media |-> media.log[n].rec, file |-> media.log[n].file,
                   off |-> media.log[n].off, len |-> Size[media.log[n].rec]]
  /\ \A i, j \in DOMAIN blobs : blobs[i].media = blobs[j].media => i = j

ObjectsOK ==
  /\ stage \in {"none", "text"} => media = NewWriter /\ blobs = <<>>
  /\ stage = "none" => text = NewWriter
  /\ stage = "text" => objects = Media
  /\ stage \notin {"none", "text", "media", "failed"} => objects = {}
  /\ stage \notin {"none", "failed"} => \A id \in Media :
       (id \in present /\ id \notin objects) <=> \E n \in DOMAIN blobs : blobs[n].media = id

(* What has been read back.                                                *)
Says(records, log, n) == Len(records) = n /\ \A i \in 1..n : records[i] = log[i].rec

ReadOK ==
  /\ stage \in {"none", "text", "media"} => next = 1 /\ found = <<>>
  /\ stage \in {"none", "text", "media", "written"} => fetched = [id \in Media |-> <<>>]
  /\ stage = "written" => next \in 1..(Len(index) + 1) /\ Says(found, text.log, Upto(index, next - 1))
  /\ stage \in {"found", "read"} => Says(found, text.log, Len(text.log))
  /\ stage = "found" =>
       /\ next \in 1..(Len(blobs) + 1)
       /\ \A id \in Media : fetched[id] = IF \E n \in 1..(next - 1) : blobs[n].media = id
                                          THEN <<id>> ELSE <<>>
  /\ stage = "read" => \A id \in Media : fetched[id] = IF id \in present THEN <<id>> ELSE <<>>
  /\ stage = "refused" => Oversize

ShardsInv ==
  /\ LogOK(text) /\ LogOK(media) /\ TilesOK /\ WrittenOK /\ BlobsOK /\ ObjectsOK /\ ReadOK

DumpInv == DumpTypeOK /\ PagesInv /\ DumpOrderOK /\ DistinctOK /\ OwedOK /\ ShardsInv

-----------------------------------------------------------------------------
(* The order of the pages is one, on the rows a table can have.            *)

LEMMA RowFacts ==
  ASSUME NEW a \in Rows
  PROVE  /\ a.id \in Nat /\ a.at \in Nat \X Nat /\ a.at[1] \in Nat /\ a.at[2] \in Nat
         /\ TalkerOf[a.id] \in Talker /\ TalkerOf[a.id] \in Nat
<1>1. a.id \in Message /\ a.at \in Places BY DEF Rows
<1>2. a.at \in Nat \X Nat BY <1>1, PagesOK DEF Places
<1>3. TalkerOf[a.id] \in Talker /\ a.id \in Nat BY <1>1, PagesOK
<1> QED BY <1>2, <1>3, PagesOK

LEMMA OlderOrder ==
  ASSUME NEW a \in Rows, NEW b \in Rows
  PROVE  /\ ~Older(a, a)
         /\ \A c \in Rows : Older(a, b) /\ Older(b, c) => Older(a, c)
<1>1. \A x \in {a, b} : x.id \in Nat /\ x.at[1] \in Nat /\ x.at[2] \in Nat BY RowFacts
<1>2. \A c \in Rows : c.id \in Nat /\ c.at[1] \in Nat /\ c.at[2] \in Nat BY RowFacts
<1> QED BY <1>1, <1>2 DEF Older

LEMMA StoredFacts ==
  ASSUME PagesTypeOK, NEW t
  PROVE  /\ \A row \in Stored(t) : /\ row \in Rows /\ TalkerOf[row.id] = t
                                   /\ table[row.id] # Nil /\ row = RowOf(row.id)
         /\ \A m \in Message : table[m] # Nil /\ TalkerOf[m] = t => RowOf(m) \in Stored(t)
<1>1. \A m \in Message : table[m] # Nil => table[m] \in Places BY DEF PagesTypeOK
<1>2. ASSUME NEW row \in Stored(t)
      PROVE  row \in Rows /\ TalkerOf[row.id] = t /\ table[row.id] # Nil /\ row = RowOf(row.id)
  <2>1. PICK m \in Message : TalkerOf[m] = t /\ table[m] # Nil /\ row = [id |-> m, at |-> table[m]]
    BY DEF Stored
  <2> QED BY <2>1, <1>1 DEF Rows, RowOf
<1>3. ASSUME NEW m \in Message, table[m] # Nil, TalkerOf[m] = t
      PROVE  RowOf(m) \in Stored(t)
  BY <1>3 DEF RowOf, Stored
<1> QED BY <1>2, <1>3

(* What a page is made of.                                                 *)
PageOf(page, t, cursor, limit) ==
  /\ page \in Seq(Rows) /\ Len(page) <= limit
  /\ \A i \in DOMAIN page : page[i] \in Stored(t) /\ Below(page[i], cursor)
  /\ \A i, j \in DOMAIN page : i < j => Older(page[j], page[i])
  /\ \A row \in Stored(t) : Below(row, cursor) /\ row \notin Range(page) =>
       /\ limit <= MaxPage => Len(page) = limit
       /\ page # <<>>
       /\ \A i \in DOMAIN page : Older(row, page[i])

LEMMA PageFacts ==
  ASSUME PagesTypeOK, NEW t, NEW cursor \in Rows \cup {Nil}, NEW limit \in Nat \ {0},
         NEW page \in ListMessages(t, cursor, limit)
  PROVE  PageOf(page, t, cursor, limit)
<1> DEFINE older == {row \in Stored(t) : Below(row, cursor)}
           most  == IF limit > MaxPage THEN MaxPage ELSE limit
<1>1. /\ page \in SeqOf(older, most)
      /\ \A i, j \in DOMAIN page : i < j => Older(page[j], page[i])
      /\ \A row \in older \ Range(page) :
           Len(page) = most /\ \A i \in DOMAIN page : Older(row, page[i])
  BY DEF ListMessages
<1>2. most \in Nat \ {0} /\ most <= limit /\ (limit <= MaxPage => most = limit) BY PagesOK
<1>3. PICK n \in 0..most : page \in [1..n -> older] BY <1>1 DEF SeqOf
<1>4. n \in Nat /\ page \in Seq(older) /\ Len(page) = n BY <1>2, <1>3
<1>5. older \subseteq Rows BY StoredFacts
<1>6. page \in Seq(Rows) BY <1>4, <1>5
<1>7. \A i \in DOMAIN page : page[i] \in older BY <1>3
<1>8. \A row \in Stored(t) : Below(row, cursor) /\ row \notin Range(page) =>
        Len(page) = most /\ \A i \in DOMAIN page : Older(row, page[i])
  BY <1>1
<1>9. Len(page) = most => page # <<>> BY <1>2, <1>4
<1> QED BY <1>1, <1>2, <1>3, <1>4, <1>6, <1>7, <1>8, <1>9 DEF PageOf

-----------------------------------------------------------------------------
(* The readers' steps.                                                     *)

LEMMA PagesInitInv == PagesInit => PagesInv
<1> SUFFICES ASSUME PagesInit PROVE PagesInv OBVIOUS
<1>1. PagesTypeOK
  <2>1. table \in [Message -> Places \cup {Nil}] BY DEF PagesInit
  <2>2. <<>> \in Seq(Rows) OBVIOUS
  <2> QED BY <2>1, <2>2 DEF PagesInit, PagesTypeOK
<1>2. ASSUME NEW r \in Reader PROVE GotOK(r) /\ CursorOK(r) /\ SteadyOK(r)
  <2>1. got[r] = <<>> /\ before[r] = Nil /\ more[r] = FALSE /\ steady[r] = {} BY DEF PagesInit
  <2> QED BY <2>1 DEF GotOK, CursorOK, SteadyOK
<1> QED BY <1>1, <1>2 DEF PagesInv

LEMMA PutMessageInv ==
  ASSUME PagesInv, NEW m \in Message, NEW at \in PlacesOf[m], PutMessage(m, at)
  PROVE  PagesInv'
<1>1. PagesTypeOK'
  <2>1. at \in Places BY DEF Places
  <2> QED BY <2>1 DEF PagesInv, PagesTypeOK, PutMessage
<1>2. ASSUME NEW r \in Reader PROVE GotOK(r)' /\ CursorOK(r)' /\ SteadyOK(r)'
  <2>1. steady'[r] = steady[r] \ {m} BY <1>2 DEF PutMessage
  <2>2. GotOK(r) /\ CursorOK(r) /\ SteadyOK(r) BY DEF PagesInv
  <2>3. GotOK(r)' BY <2>2 DEF GotOK, PutMessage
  <2>4. CursorOK(r)' BY <2>1, <2>2 DEF CursorOK, PutMessage
  <2>5. SteadyOK(r)'
    <3> SUFFICES ASSUME NEW n \in steady'[r]
                 PROVE  /\ table'[n] # Nil /\ TalkerOf[n] = reading'[r]
                        /\ Paging(r) => \/ RowOf(n)' \in Range(got'[r])
                                        \/ more'[r] /\ Below(RowOf(n)', before'[r])
      BY DEF SteadyOK, Below, Paging
    <3>1. n \in steady[r] /\ n # m BY <2>1
    <3>2. n \in Message BY <3>1 DEF PagesInv, PagesTypeOK
    <3>3. table'[n] = table[n] BY <3>1, <3>2 DEF PutMessage, PagesInv, PagesTypeOK
    <3>4. RowOf(n)' = RowOf(n) BY <3>3 DEF RowOf
    <3> QED BY <2>2, <3>1, <3>3, <3>4 DEF SteadyOK, PutMessage
  <2> QED BY <2>3, <2>4, <2>5
<1> QED BY <1>1, <1>2 DEF PagesInv

(* A reader that is not concerned.                                         *)
LEMMA OtherReader ==
  ASSUME PagesInv, NEW r \in Reader, UNCHANGED table, reading'[r] = reading[r],
         before'[r] = before[r], got'[r] = got[r], more'[r] = more[r], steady'[r] = steady[r]
  PROVE  GotOK(r)' /\ CursorOK(r)' /\ SteadyOK(r)'
<1>1. GotOK(r) /\ CursorOK(r) /\ SteadyOK(r) BY DEF PagesInv
<1>2. \A m : RowOf(m)' = RowOf(m) BY DEF RowOf
<1>3. GotOK(r)' /\ CursorOK(r)' BY <1>1 DEF GotOK, CursorOK
<1>4. SteadyOK(r)' BY <1>1, <1>2 DEF SteadyOK, Below, Paging
<1> QED BY <1>3, <1>4

LEMMA OpenInv ==
  ASSUME PagesInv, NEW r \in Reader, NEW t \in Talker, Open(r, t)
  PROVE  PagesInv'
<1>1. PagesTypeOK'
  <2>1. {m.id : m \in Stored(t)} \subseteq Message
    <3>1. \A row \in Stored(t) : row.id \in Message BY StoredFacts DEF PagesInv, Rows
    <3> QED BY <3>1
  <2> QED BY <2>1 DEF PagesInv, PagesTypeOK, Open
<1>2. ASSUME NEW q \in Reader PROVE GotOK(q)' /\ CursorOK(q)' /\ SteadyOK(q)'
  <2>1. CASE q # r BY <2>1, OtherReader DEF Open, PagesInv, PagesTypeOK
  <2>2. CASE q = r
    <3>1. got[r] = <<>> /\ before[r] = Nil BY DEF PagesInv, CursorOK, Open
    <3>2. /\ reading'[r] = t /\ more'[r] /\ steady'[r] = {m.id : m \in Stored(t)}
          /\ got'[r] = <<>> /\ before'[r] = Nil /\ table' = table
      BY <3>1 DEF PagesInv, PagesTypeOK, Open
    <3>3. t # Nil BY PagesOK
    <3>4. GotOK(r)' /\ CursorOK(r)' BY <3>2, <3>3 DEF GotOK, CursorOK
    <3>5. \A m \in steady'[r] : table[m] # Nil /\ TalkerOf[m] = t
      BY <3>2, StoredFacts DEF PagesInv
    <3>6. SteadyOK(r)' BY <3>2, <3>5 DEF SteadyOK, Below
    <3> QED BY <2>2, <3>4, <3>6
  <2> QED BY <2>1, <2>2
<1> QED BY <1>1, <1>2 DEF PagesInv

LEMMA LeaveInv ==
  ASSUME PagesInv, NEW r \in Reader, Leave(r)
  PROVE  PagesInv'
<1>1. PagesTypeOK'
  <2>1. <<>> \in Seq(Rows) OBVIOUS
  <2> QED BY <2>1 DEF PagesInv, PagesTypeOK, Leave
<1>2. ASSUME NEW q \in Reader PROVE GotOK(q)' /\ CursorOK(q)' /\ SteadyOK(q)'
  <2>1. CASE q # r BY <2>1, OtherReader DEF Leave, PagesInv, PagesTypeOK
  <2>2. CASE q = r
    <3>1. got'[r] = <<>> /\ before'[r] = Nil /\ more'[r] = FALSE /\ steady'[r] = {}
      BY DEF PagesInv, PagesTypeOK, Leave
    <3> QED BY <2>2, <3>1 DEF GotOK, CursorOK, SteadyOK
  <2> QED BY <2>1, <2>2
<1> QED BY <1>1, <1>2 DEF PagesInv

(* What is received goes on below the cursor, and leaves out no stored row  *)
(* but those below its own last.                                           *)
LEMMA ReceiveInv ==
  ASSUME PagesInv, NEW r \in Reader, more[r], NEW page \in Seq(Rows), NEW again \in BOOLEAN,
         Receive(r, page, again),
         again => page # <<>>,
         \A i \in DOMAIN page : page[i] \in Stored(reading[r]) /\ Below(page[i], before[r]),
         \A i, j \in DOMAIN page : i < j => Older(page[j], page[i]),
         Paging(r) => \A row \in Stored(reading[r]) :
           Below(row, before[r]) /\ row \notin Range(page) => again /\ Older(row, page[Len(page)])
  PROVE  PagesInv'
<1>0. /\ GotOK(r) /\ CursorOK(r) /\ SteadyOK(r) /\ PagesTypeOK
      /\ got[r] \in Seq(Rows) /\ before[r] \in Rows \cup {Nil}
  BY DEF PagesInv, PagesTypeOK
<1>1. /\ got' = [got EXCEPT ![r] = got[r] \o page]
      /\ before' = [before EXCEPT ![r] = IF again THEN page[Len(page)] ELSE before[r]]
      /\ more' = [more EXCEPT ![r] = again]
      /\ table' = table /\ reading' = reading /\ steady' = steady
  BY DEF Receive, Last
<1>2. /\ got'[r] = got[r] \o page /\ more'[r] = again
      /\ before'[r] = IF again THEN page[Len(page)] ELSE before[r]
  BY <1>0, <1>1 DEF PagesTypeOK
<1>3. again => page[Len(page)] \in Rows /\ Len(page) \in DOMAIN page OBVIOUS
<1>4. PagesTypeOK'
  <2>1. got[r] \o page \in Seq(Rows) BY <1>0
  <2>2. got' \in [Reader -> Seq(Rows)] BY <1>0, <1>1, <2>1 DEF PagesTypeOK
  <2>3. before' \in [Reader -> Rows \cup {Nil}] BY <1>0, <1>1, <1>3 DEF PagesTypeOK
  <2> QED BY <1>0, <1>1, <2>2, <2>3 DEF PagesTypeOK
<1>15. Len(got[r]) \in Nat /\ Len(page) \in Nat /\ DOMAIN got[r] = 1..Len(got[r])
       /\ DOMAIN page = 1..Len(page)
  BY <1>0
<1>5. \A i \in 1..(Len(got[r]) + Len(page)) :
        got'[r][i] = IF i <= Len(got[r]) THEN got[r][i] ELSE page[i - Len(got[r])]
  BY <1>0, <1>2
<1>6. Len(got'[r]) = Len(got[r]) + Len(page) /\ DOMAIN got'[r] = 1..(Len(got[r]) + Len(page))
  BY <1>0, <1>2
(* All of the page is older than all that was there.                       *)
<1>7. ASSUME NEW i \in DOMAIN got[r], NEW j \in DOMAIN page PROVE Older(page[j], got[r][i])
  <2>1. before[r] = got[r][Len(got[r])] /\ got[r][Len(got[r])] \in Rows
        /\ Len(got[r]) \in DOMAIN got[r] /\ i <= Len(got[r])
    BY <1>0 DEF CursorOK
  <2>2. before[r] # Nil BY <2>1, PagesOK
  <2>3. Older(page[j], got[r][Len(got[r])]) BY <2>1, <2>2 DEF Below
  <2>4. i = Len(got[r]) \/ Older(got[r][Len(got[r])], got[r][i]) BY <1>0, <2>1 DEF GotOK
  <2>5. page[j] \in Rows /\ got[r][i] \in Rows BY <1>0
  <2> QED BY <2>1, <2>3, <2>4, <2>5, OlderOrder
<1>8. GotOK(r)'
  <2>1. ASSUME NEW i \in DOMAIN got'[r], NEW j \in DOMAIN got'[r], i < j
        PROVE  Older(got'[r][j], got'[r][i])
    <3>1. CASE j <= Len(got[r])
      <4>1. i \in DOMAIN got[r] /\ j \in DOMAIN got[r] BY <1>0, <1>6, <2>1, <3>1
      <4>2. Older(got[r][j], got[r][i]) BY <4>1, <1>0, <2>1 DEF GotOK
      <4> QED BY <4>1, <4>2, <1>5, <1>6, <2>1, <3>1
    <3>2. CASE i > Len(got[r])
      <4>1. i - Len(got[r]) \in DOMAIN page /\ j - Len(got[r]) \in DOMAIN page
            /\ i - Len(got[r]) < j - Len(got[r])
        <5>1. i \in Nat /\ j \in Nat /\ j <= Len(got[r]) + Len(page) BY <1>15, <1>6
        <5>2. i - Len(got[r]) \in 1..Len(page) BY <1>15, <2>1, <3>2, <5>1
        <5>3. j - Len(got[r]) \in 1..Len(page) BY <1>15, <2>1, <3>2, <5>1
        <5>4. i - Len(got[r]) < j - Len(got[r]) BY <1>15, <2>1, <5>1
        <5> QED BY <1>15, <5>2, <5>3, <5>4
      <4>2. Older(page[j - Len(got[r])], page[i - Len(got[r])]) BY <4>1
      <4>3. got'[r][i] = page[i - Len(got[r])]
        <5>1. i \in 1..(Len(got[r]) + Len(page)) /\ ~(i <= Len(got[r])) BY <1>15, <1>6, <3>2
        <5> QED BY <1>5, <5>1
      <4>4. got'[r][j] = page[j - Len(got[r])]
        <5>1. j \in 1..(Len(got[r]) + Len(page)) /\ ~(j <= Len(got[r])) BY <1>15, <1>6, <2>1, <3>2
        <5> QED BY <1>5, <5>1
      <4> QED BY <4>2, <4>3, <4>4
    <3>3. CASE i <= Len(got[r]) /\ j > Len(got[r])
      <4>1. i \in DOMAIN got[r] /\ j - Len(got[r]) \in DOMAIN page BY <1>15, <1>6, <2>1, <3>3
      <4>2. Older(page[j - Len(got[r])], got[r][i]) BY <4>1, <1>7
      <4>3. got'[r][i] = got[r][i] BY <1>15, <1>5, <1>6, <3>3
      <4>4. got'[r][j] = page[j - Len(got[r])]
        <5>1. j \in 1..(Len(got[r]) + Len(page)) /\ ~(j <= Len(got[r])) BY <1>15, <1>6, <3>3
        <5> QED BY <1>5, <5>1
      <4> QED BY <4>2, <4>3, <4>4
    <3> QED BY <3>1, <3>2, <3>3, <1>0, <1>6
  <2>2. ASSUME NEW i \in DOMAIN got'[r] PROVE TalkerOf[got'[r][i].id] = reading[r]
    <3>1. CASE i <= Len(got[r])
      <4>1. i \in DOMAIN got[r] BY <1>0, <1>6, <2>2, <3>1
      <4> QED BY <4>1, <1>0, <1>5, <1>6, <2>2, <3>1 DEF GotOK
    <3>2. CASE i > Len(got[r])
      <4>1. i - Len(got[r]) \in DOMAIN page BY <1>0, <1>6, <2>2, <3>2
      <4>2. TalkerOf[page[i - Len(got[r])].id] = reading[r] BY <4>1, <1>0, StoredFacts
      <4> QED BY <4>2, <1>5, <1>6, <2>2, <3>2
    <3> QED BY <3>1, <3>2, <1>0, <1>6
  <2> QED BY <2>1, <2>2, <1>1 DEF GotOK
<1>9. CursorOK(r)'
  <2>1. reading[r] # Nil BY <1>0 DEF CursorOK
  <2>2. ASSUME again PROVE got'[r] # <<>> /\ got'[r][Len(got'[r])] = page[Len(page)]
    <3>1. Len(page) >= 1 BY <1>3, <1>15, <2>2
    <3>2. got'[r] # <<>> BY <1>6, <1>15, <3>1
    <3>3. Len(got'[r]) \in 1..(Len(got[r]) + Len(page)) /\ ~(Len(got'[r]) <= Len(got[r]))
          /\ Len(got'[r]) - Len(got[r]) = Len(page)
      BY <1>6, <1>15, <3>1
    <3> QED BY <1>5, <3>2, <3>3
  <2> QED BY <2>1, <2>2, <1>1, <1>2 DEF CursorOK
<1>10. SteadyOK(r)'
  <2> SUFFICES ASSUME NEW m \in steady[r]
               PROVE  /\ table[m] # Nil /\ TalkerOf[m] = reading[r]
                      /\ Paging(r) => \/ RowOf(m) \in Range(got'[r])
                                      \/ again /\ Below(RowOf(m), before'[r])
    BY <1>1, <1>2 DEF SteadyOK, Below, Paging, RowOf
  <2>1. m \in Message /\ table[m] # Nil /\ TalkerOf[m] = reading[r]
    BY <1>0 DEF SteadyOK, PagesTypeOK
  <2>2. RowOf(m) \in Stored(reading[r]) BY <2>1, <1>0, StoredFacts
  <2>3. ASSUME Paging(r), RowOf(m) \in Range(got[r]) PROVE RowOf(m) \in Range(got'[r])
    <3>1. PICK i \in DOMAIN got[r] : RowOf(m) = got[r][i] BY <2>3 DEF Range
    <3>2. i \in DOMAIN got'[r] /\ got'[r][i] = got[r][i] BY <1>0, <1>5, <1>6
    <3> QED BY <3>1, <3>2 DEF Range
  <2>4. ASSUME RowOf(m) \in Range(page) PROVE RowOf(m) \in Range(got'[r])
    <3>1. PICK i \in DOMAIN page : RowOf(m) = page[i] BY <2>4 DEF Range
    <3>2. i + Len(got[r]) \in 1..(Len(got[r]) + Len(page)) /\ ~(i + Len(got[r]) <= Len(got[r]))
          /\ i + Len(got[r]) - Len(got[r]) = i
      BY <1>15
    <3>3. i + Len(got[r]) \in DOMAIN got'[r] /\ got'[r][i + Len(got[r])] = page[i]
      BY <1>5, <1>6, <3>2
    <3> QED BY <3>1, <3>3 DEF Range
  <2>5. ASSUME Paging(r), Below(RowOf(m), before[r]), RowOf(m) \notin Range(page)
        PROVE  again /\ Below(RowOf(m), before'[r])
    BY <2>2, <2>5, <1>2 DEF Below
  <2>6. Paging(r) => RowOf(m) \in Range(got[r]) \/ Below(RowOf(m), before[r])
    BY <1>0 DEF SteadyOK
  <2> QED BY <2>1, <2>3, <2>4, <2>5, <2>6
<1>11. ASSUME NEW q \in Reader, q # r PROVE GotOK(q)' /\ CursorOK(q)' /\ SteadyOK(q)'
  BY <1>0, <1>1, <1>11, OtherReader DEF PagesTypeOK
<1> QED BY <1>4, <1>8, <1>9, <1>10, <1>11 DEF PagesInv

LEMMA DumpPageInv ==
  ASSUME PagesInv, NEW r \in Reader, DumpPage(r)
  PROVE  PagesInv'
<1>1. PICK page \in ListMessages(reading[r], before[r], Limit[r]) :
        Receive(r, page, Len(page) = Limit[r])
  BY DEF DumpPage
<1>2. /\ PagesTypeOK /\ before[r] \in Rows \cup {Nil} /\ more[r]
      /\ Limit[r] \in Nat \ {0} /\ Limit[r] <= MaxPage
  BY PagesOK DEF PagesInv, PagesTypeOK, DumpPage
<1>3. /\ page \in Seq(Rows) /\ Len(page) <= Limit[r]
      /\ \A i \in DOMAIN page : page[i] \in Stored(reading[r]) /\ Below(page[i], before[r])
      /\ \A i, j \in DOMAIN page : i < j => Older(page[j], page[i])
      /\ \A row \in Stored(reading[r]) : Below(row, before[r]) /\ row \notin Range(page) =>
           /\ Limit[r] <= MaxPage => Len(page) = Limit[r]
           /\ page # <<>>
           /\ \A i \in DOMAIN page : Older(row, page[i])
  <2>1. PageOf(page, reading[r], before[r], Limit[r]) BY <1>1, <1>2, PageFacts
  <2> QED BY <2>1 DEF PageOf
<1>6. \A row \in Stored(reading[r]) : Below(row, before[r]) /\ row \notin Range(page) =>
         Len(page) = Limit[r] /\ Older(row, page[Len(page)])
  <2> SUFFICES ASSUME NEW row \in Stored(reading[r]), Below(row, before[r]), row \notin Range(page)
               PROVE  Len(page) = Limit[r] /\ Older(row, page[Len(page)])
    OBVIOUS
  <2>1. Len(page) = Limit[r] /\ \A i \in DOMAIN page : Older(row, page[i])
    BY <1>2, <1>3
  <2>2. Len(page) \in DOMAIN page BY <2>1, <1>2, <1>3
  <2> QED BY <2>1, <2>2
<1>7. Len(page) = Limit[r] => page # <<>> BY <1>2
<1> QED BY <1>1, <1>2, <1>3, <1>6, <1>7, ReceiveInv

LEMMA ServePageInv ==
  ASSUME PagesInv, NEW r \in Reader, ServePage(r)
  PROVE  PagesInv'
<1>1. PICK page \in ListMessages(reading[r], before[r], Limit[r] + 1) :
        Receive(r, IF Len(page) > Limit[r] THEN Front(page) ELSE page, Len(page) > Limit[r])
  BY DEF ServePage
<1>2. /\ PagesTypeOK /\ before[r] \in Rows \cup {Nil} /\ more[r]
      /\ Limit[r] \in Nat \ {0}
      /\ Paging(r) => Limit[r] + 1 <= MaxPage
  <2>1. Limit[r] \in 1..MaxPage /\ MaxPage \in Nat BY PagesOK
  <2>2. r \notin Dumper BY PagesOK DEF ServePage
  <2>3. Paging(r) => Limit[r] < MaxPage BY <2>2 DEF Paging
  <2> QED BY <2>1, <2>3 DEF PagesInv, PagesTypeOK, ServePage
<1>3. /\ page \in Seq(Rows) /\ Len(page) <= Limit[r] + 1
      /\ \A i \in DOMAIN page : page[i] \in Stored(reading[r]) /\ Below(page[i], before[r])
      /\ \A i, j \in DOMAIN page : i < j => Older(page[j], page[i])
      /\ \A row \in Stored(reading[r]) : Below(row, before[r]) /\ row \notin Range(page) =>
           /\ Limit[r] + 1 <= MaxPage => Len(page) = Limit[r] + 1
           /\ page # <<>>
           /\ \A i \in DOMAIN page : Older(row, page[i])
  <2>1. Limit[r] + 1 \in Nat \ {0} BY <1>2
  <2>2. PageOf(page, reading[r], before[r], Limit[r] + 1) BY <1>1, <1>2, <2>1, PageFacts
  <2> QED BY <2>2 DEF PageOf
<1>6. CASE ~(Len(page) > Limit[r])
  <2>0. (Len(page) > Limit[r]) = FALSE BY <1>6
  <2>1. Receive(r, page, FALSE) BY <1>1, <2>0, Zenon DEF Receive
  <2>2. ASSUME Paging(r), NEW row \in Stored(reading[r]), Below(row, before[r]), row \notin Range(page)
        PROVE  FALSE
    <3>1. Len(page) = Limit[r] + 1 BY <1>2, <1>3, <2>2
    <3> QED BY <3>1, <1>2, <1>6
  <2> QED BY <1>2, <1>3, <2>1, <2>2, ReceiveInv
<1>7. CASE Len(page) > Limit[r]
  <2>0. (Len(page) > Limit[r]) = TRUE BY <1>7
  <2>1. Len(page) = Limit[r] + 1 BY <1>2, <1>3, <1>7
  <2> DEFINE front == SubSeq(page, 1, Limit[r])
  <2>2. Receive(r, front, TRUE)
    <3>1. Receive(r, Front(page), TRUE) BY <1>1, <2>0, Zenon DEF Receive
    <3>2. Front(page) = front BY <1>2, <2>1 DEF Front
    <3> QED BY <3>1, <3>2
  <2>3. /\ front \in Seq(Rows) /\ Len(front) = Limit[r] /\ DOMAIN front = 1..Limit[r]
        /\ \A i \in 1..Limit[r] : front[i] = page[i] /\ i \in DOMAIN page
    BY <1>2, <1>3, <2>1
  <2>4. Len(page) \in DOMAIN page /\ Limit[r] \in 1..Limit[r] /\ Limit[r] < Len(page)
        /\ Limit[r] \in DOMAIN page
    BY <1>2, <1>3, <2>1
  <2>5. ASSUME Paging(r), NEW row \in Stored(reading[r]), Below(row, before[r]), row \notin Range(front)
        PROVE  Older(row, front[Len(front)])
    <3>1. CASE row \in Range(page)
      <4>1. PICK i \in DOMAIN page : row = page[i] BY <3>1 DEF Range
      <4>2. i = Len(page)
        <5>1. i \in 1..Len(page) BY <1>3
        <5>2. ASSUME i \in 1..Limit[r] PROVE FALSE
          <6>1. front[i] = row /\ i \in DOMAIN front BY <2>3, <4>1, <5>2
          <6> QED BY <2>5, <6>1 DEF Range
        <5> QED BY <5>1, <5>2, <1>2, <2>1
      <4>3. Older(page[Len(page)], page[Limit[r]]) BY <1>3, <2>4
      <4> QED BY <4>1, <4>2, <4>3, <2>3, <2>4
    <3>2. CASE row \notin Range(page)
      <4>1. \A i \in DOMAIN page : Older(row, page[i]) BY <1>3, <2>5, <3>2
      <4> QED BY <4>1, <2>3, <2>4
    <3> QED BY <3>1, <3>2
  <2>6. front # <<>> BY <2>3, <1>2
  <2>7. \A i \in DOMAIN front : front[i] \in Stored(reading[r]) /\ Below(front[i], before[r])
    BY <2>3, <1>3
  <2>8. \A i, j \in DOMAIN front : i < j => Older(front[j], front[i]) BY <2>3, <1>3
  <2> HIDE DEF front
  <2> QED BY <1>2, <2>2, <2>3, <2>5, <2>6, <2>7, <2>8, ReceiveInv
<1> QED BY <1>6, <1>7

LEMMA PagesNextInv ==
  ASSUME PagesInv, PagesNext
  PROVE  PagesInv'
<1>1. ASSUME NEW m \in Message, NEW at \in PlacesOf[m], PutMessage(m, at) PROVE PagesInv'
  BY <1>1, PutMessageInv
<1>2. ASSUME NEW r \in Client, NEW t \in Talker, Open(r, t) PROVE PagesInv'
  BY <1>2, OpenInv DEF Reader
<1>3. ASSUME NEW r \in Client, ServePage(r) PROVE PagesInv' BY <1>3, ServePageInv DEF Reader
<1>4. ASSUME NEW r \in Client, Leave(r) PROVE PagesInv' BY <1>4, LeaveInv DEF Reader
<1>5. ASSUME NEW r \in Dumper, DumpPage(r) PROVE PagesInv' BY <1>5, DumpPageInv DEF Reader
<1> QED BY <1>1, <1>2, <1>3, <1>4, <1>5 DEF PagesNext

LEMMA PagesAreComplete ==
  ASSUME PagesInv
  PROVE  PagesComplete
<1> SUFFICES ASSUME NEW r \in Reader
             PROVE  /\ \A i, j \in DOMAIN got[r] : i < j => Older(got[r][j], got[r][i])
                    /\ reading[r] # Nil /\ ~more[r] /\ Paging(r) => steady[r] \subseteq Ids(got[r])
  BY DEF PagesComplete
<1>1. GotOK(r) /\ SteadyOK(r) BY DEF PagesInv
<1>2. ASSUME ~more[r], Paging(r), NEW m \in steady[r] PROVE m \in Ids(got[r])
  <2>1. RowOf(m) \in Range(got[r]) BY <1>1, <1>2 DEF SteadyOK
  <2>2. PICK i \in DOMAIN got[r] : got[r][i] = RowOf(m) BY <2>1 DEF Range
  <2>3. got[r][i].id = m BY <2>2 DEF RowOf
  <2> QED BY <2>3 DEF Ids
<1> QED BY <1>1, <1>2 DEF GotOK

-----------------------------------------------------------------------------
(* groupMessages' order is a total one, on rows that differ.               *)

LEMMA BeforeOrder ==
  ASSUME NEW a \in Rows, NEW b \in Rows
  PROVE  /\ ~Before(a, a)
         /\ \A c \in Rows : Before(a, b) /\ Before(b, c) => Before(a, c)
         /\ a # b => Before(a, b) \/ Before(b, a)
<1>1. /\ \A x \in Rows : TalkerOf[x.id] \in Nat BY RowFacts
<1>2. ~Before(a, a) BY <1>1, OlderOrder DEF Before
<1>3. ASSUME NEW c \in Rows, Before(a, b), Before(b, c) PROVE Before(a, c)
  <2>1. CASE TalkerOf[a.id] = TalkerOf[b.id] /\ TalkerOf[b.id] = TalkerOf[c.id]
    <3>1. Older(a, b) /\ Older(b, c) BY <1>1, <1>3, <2>1 DEF Before
    <3>2. Older(a, c) BY <3>1, OlderOrder
    <3> QED BY <2>1, <3>2 DEF Before
  <2>2. CASE ~(TalkerOf[a.id] = TalkerOf[b.id] /\ TalkerOf[b.id] = TalkerOf[c.id])
    <3>1. /\ TalkerOf[a.id] < TalkerOf[b.id] \/ TalkerOf[a.id] = TalkerOf[b.id]
          /\ TalkerOf[b.id] < TalkerOf[c.id] \/ TalkerOf[b.id] = TalkerOf[c.id]
      BY <1>3 DEF Before
    <3>2. TalkerOf[a.id] < TalkerOf[c.id] BY <1>1, <2>2, <3>1
    <3> QED BY <3>2 DEF Before
  <2> QED BY <2>1, <2>2
<1>4. ASSUME a # b PROVE Before(a, b) \/ Before(b, a)
  <2>1. CASE TalkerOf[a.id] # TalkerOf[b.id] BY <1>1, <2>1 DEF Before
  <2>2. CASE TalkerOf[a.id] = TalkerOf[b.id]
    <3>1. a.id # b.id \/ a.at # b.at BY <1>4 DEF Rows
    <3>2. a.at[1] = b.at[1] /\ a.at[2] = b.at[2] => a.at = b.at
      <4>1. a.at = <<a.at[1], a.at[2]>> /\ b.at = <<b.at[1], b.at[2]>> BY RowFacts
      <4> QED BY <4>1
    <3>3. /\ a.id \in Nat /\ a.at[1] \in Nat /\ a.at[2] \in Nat
          /\ b.id \in Nat /\ b.at[1] \in Nat /\ b.at[2] \in Nat
      BY RowFacts
    <3>4. Older(a, b) \/ Older(b, a) BY <3>1, <3>2, <3>3 DEF Older
    <3> QED BY <2>2, <3>4 DEF Before
  <2> QED BY <2>1, <2>2
<1> QED BY <1>2, <1>3, <1>4

-----------------------------------------------------------------------------
(* The shard writer.                                                       *)

Writers(recs) == [log : Seq(Placed(recs)), file : Nat, size : Nat]

LEMMA NewLog ==
  ASSUME NEW recs
  PROVE  NewWriter \in Writers(recs) /\ LogOK(NewWriter)
<1>1. <<>> \in Seq(Placed(recs)) OBVIOUS
<1>2. Magic \in Nat BY ShardsOK
<1> QED BY <1>1, <1>2 DEF NewWriter, Writers, LogOK

(* Where a record is put, all of the log is before it.                     *)
LEMMA PlaceFacts ==
  ASSUME NEW recs, recs \subseteq DOMAIN Size, NEW w \in Writers(recs), LogOK(w), NEW rec \in recs
  PROVE  /\ Place(w, rec) \in Placed(recs) /\ Place(w, rec).rec = rec
         /\ End(Place(w, rec)) \in Nat
         /\ End(Place(w, rec)) = Place(w, rec).off + Size[rec]
         /\ Place(w, rec).off >= Magic
         /\ Place(w, rec).off = Magic \/ End(Place(w, rec)) <= MaxShard
         /\ \A i \in DOMAIN w.log :
              \/ w.log[i].file < Place(w, rec).file
              \/ w.log[i].file = Place(w, rec).file /\ End(w.log[i]) <= Place(w, rec).off
<1>1. Size[rec] \in Nat /\ Magic \in Nat /\ MaxShard \in Nat BY ShardsOK
<1>2. w.file \in Nat /\ w.size \in Nat /\ w.size >= Magic BY DEF Writers, LogOK
<1>3. \A i \in DOMAIN w.log : w.log[i].file \in Nat /\ w.log[i].off \in Nat
  <2>1. w.log \in Seq(Placed(recs)) BY DEF Writers
  <2>2. \A i \in DOMAIN w.log : w.log[i] \in Placed(recs) BY <2>1
  <2> QED BY <2>2 DEF Placed
<1>4. \A i \in DOMAIN w.log :
        w.log[i].file < w.file \/ (w.log[i].file = w.file /\ End(w.log[i]) <= w.size)
  BY DEF LogOK
<1>5. CASE NeedRotate(w, rec)
  <2>1. Place(w, rec) = [rec |-> rec, file |-> w.file + 1, off |-> Magic] BY <1>5 DEF Place
  <2>2. \A i \in DOMAIN w.log : w.log[i].file < w.file + 1 BY <1>2, <1>3, <1>4
  <2> QED BY <1>1, <1>2, <2>1, <2>2 DEF Placed, End
<1>6. CASE ~NeedRotate(w, rec)
  <2>1. Place(w, rec) = [rec |-> rec, file |-> w.file, off |-> w.size] BY <1>6 DEF Place
  <2>2. w.size = Magic \/ w.size + Size[rec] <= MaxShard BY <1>1, <1>2, <1>6 DEF NeedRotate
  <2> QED BY <1>1, <1>2, <1>4, <2>1, <2>2 DEF Placed, End
<1> QED BY <1>5, <1>6

LEMMA AppendFacts ==
  ASSUME NEW recs, recs \subseteq DOMAIN Size, NEW w \in Writers(recs), LogOK(w), NEW rec \in recs
  PROVE  LET new == AppendTo(w, rec)
         IN  /\ new \in Writers(recs) /\ LogOK(new)
             /\ new.log \in Seq(Placed(recs))
             /\ Len(new.log) = Len(w.log) + 1 /\ DOMAIN new.log = 1..(Len(w.log) + 1)
             /\ \A i \in DOMAIN w.log : new.log[i] = w.log[i] /\ i \in DOMAIN new.log
             /\ new.log[Len(w.log) + 1] = Place(w, rec)
<1> DEFINE at == Place(w, rec)
           new == AppendTo(w, rec)
<1>1. /\ at \in Placed(recs) /\ End(at) \in Nat /\ at.off >= Magic
      /\ at.off = Magic \/ End(at) <= MaxShard
      /\ \A i \in DOMAIN w.log : \/ w.log[i].file < at.file
                                 \/ w.log[i].file = at.file /\ End(w.log[i]) <= at.off
  BY PlaceFacts
<1>2. /\ at.file \in Nat /\ at.off \in Nat /\ at.rec \in recs /\ Size[at.rec] \in Nat
      /\ Size[at.rec] > 0 /\ Magic \in Nat /\ End(at) = at.off + Size[at.rec]
  BY <1>1, ShardsOK DEF Placed, End
<1>3. new = [log |-> Append(w.log, at), file |-> at.file, size |-> End(at)] BY DEF AppendTo
<1>4. w.log \in Seq(Placed(recs)) BY DEF Writers
<1>5. \A i \in DOMAIN w.log : /\ w.log[i].file \in Nat /\ w.log[i].off \in Nat
                              /\ End(w.log[i]) \in Nat
  <2>1. \A i \in DOMAIN w.log : w.log[i] \in Placed(recs) BY <1>4
  <2>2. \A x \in recs : Size[x] \in Nat BY ShardsOK
  <2> QED BY <2>1, <2>2 DEF Placed, End
<1> HIDE DEF at, new
<1>6. /\ new.log \in Seq(Placed(recs))
      /\ Len(new.log) = Len(w.log) + 1 /\ DOMAIN new.log = 1..(Len(w.log) + 1)
      /\ \A i \in DOMAIN w.log : new.log[i] = w.log[i] /\ i \in DOMAIN new.log
      /\ new.log[Len(w.log) + 1] = at
  BY <1>1, <1>3, <1>4
<1>7. new \in Writers(recs) BY <1>1, <1>2, <1>3, <1>6 DEF Writers
<1>8. \A i \in DOMAIN new.log : i \in DOMAIN w.log \/ i = Len(w.log) + 1 BY <1>4, <1>6
<1>9. LogOK(new)
  <2>1. new.size >= Magic BY <1>1, <1>2, <1>3
  <2>2. ASSUME NEW i \in DOMAIN new.log
        PROVE  /\ new.log[i].off >= Magic
               /\ new.log[i].off = Magic \/ End(new.log[i]) <= MaxShard
               /\ \/ new.log[i].file < new.file
                  \/ new.log[i].file = new.file /\ End(new.log[i]) <= new.size
    <3>1. CASE i \in DOMAIN w.log
      <4>1. /\ new.log[i] = w.log[i] /\ new.file = at.file /\ new.size = End(at) BY <3>1, <1>3, <1>6
      <4>2. /\ w.log[i].off >= Magic /\ (w.log[i].off = Magic \/ End(w.log[i]) <= MaxShard)
        BY <3>1 DEF LogOK
      <4>3. w.log[i].file = at.file => End(w.log[i]) <= at.off BY <3>1, <1>1, <1>2, <1>5
      <4>4. w.log[i].file = at.file => End(w.log[i]) <= End(at) BY <3>1, <4>3, <1>2, <1>5
      <4> QED BY <3>1, <4>1, <4>2, <4>4, <1>1
    <3>2. CASE i = Len(w.log) + 1
      <4>1. new.log[i] = at /\ new.file = at.file /\ new.size = End(at) BY <3>2, <1>3, <1>6
      <4> QED BY <4>1, <1>1
    <3> QED BY <3>1, <3>2, <1>8
  <2>3. ASSUME NEW i \in DOMAIN new.log, NEW j \in DOMAIN new.log, i < j
        PROVE  \/ new.log[i].file < new.log[j].file
               \/ new.log[i].file = new.log[j].file /\ End(new.log[i]) <= new.log[j].off
    <3>1. i \in DOMAIN w.log BY <1>4, <1>6, <2>3
    <3>2. CASE j \in DOMAIN w.log
      <4>1. new.log[i] = w.log[i] /\ new.log[j] = w.log[j] BY <3>1, <3>2, <1>6
      <4>2. \/ w.log[i].file < w.log[j].file
            \/ w.log[i].file = w.log[j].file /\ End(w.log[i]) <= w.log[j].off
        BY <3>1, <3>2, <2>3 DEF LogOK
      <4> QED BY <4>1, <4>2
    <3>3. CASE j = Len(w.log) + 1 BY <3>1, <3>3, <1>1, <1>6
    <3> QED BY <3>2, <3>3, <1>8
  <2> QED BY <2>1, <2>2, <2>3 DEF LogOK
<1> QED BY <1>6, <1>7, <1>9 DEF at, new

(* The records that fill a range are the ones it was made of.              *)
LEMMA FillFacts ==
  ASSUME NEW recs, recs \subseteq DOMAIN Size, NEW w \in Writers(recs), LogOK(w),
         NEW i \in DOMAIN w.log, NEW j \in DOMAIN w.log, i <= j, NEW seg,
         w.log[i].file = seg.file, w.log[i].off = seg.off,
         w.log[j].file = seg.file, End(w.log[j]) = seg.off + seg.len, seg.len \in Nat
  PROVE  /\ \A fill \in Fill(w, seg) : fill.first = i /\ fill.last = j
         /\ Fill(w, seg) = {} => seg.len > MaxSegment
         /\ seg.len > MaxShard => i = j /\ Size[w.log[i].rec] = seg.len
<1>1. \A k \in DOMAIN w.log :
        /\ k \in Nat /\ w.log[k].file \in Nat /\ w.log[k].off \in Nat
        /\ Size[w.log[k].rec] \in Nat \ {0} /\ End(w.log[k]) = w.log[k].off + Size[w.log[k].rec]
        /\ w.log[k].off >= Magic /\ (w.log[k].off = Magic \/ End(w.log[k]) <= MaxShard)
  <2>1. w.log \in Seq(Placed(recs)) BY DEF Writers
  <2>2. \A k \in DOMAIN w.log : w.log[k] \in Placed(recs) /\ k \in Nat BY <2>1
  <2>3. \A x \in recs : Size[x] \in Nat \ {0} BY ShardsOK
  <2> QED BY <2>2, <2>3 DEF Placed, End, LogOK
<1>2. \A k, l \in DOMAIN w.log : k < l =>
        \/ w.log[k].file < w.log[l].file
        \/ w.log[k].file = w.log[l].file /\ End(w.log[k]) <= w.log[l].off
  BY DEF LogOK
<1>3. \A k, l \in DOMAIN w.log : w.log[k].file = w.log[l].file /\ k < l =>
        w.log[k].off < w.log[l].off /\ End(w.log[k]) < End(w.log[l]) /\ End(w.log[k]) <= w.log[l].off
  BY <1>1, <1>2
<1>4. Magic \in Nat /\ MaxShard \in Nat /\ MaxSegment \in Nat BY ShardsOK
<1>5. ASSUME NEW fill \in Fill(w, seg) PROVE fill.first = i /\ fill.last = j
  <2>1. /\ fill.first \in DOMAIN w.log /\ fill.last \in DOMAIN w.log
        /\ w.log[fill.first].file = seg.file /\ w.log[fill.first].off = seg.off
        /\ w.log[fill.last].file = seg.file /\ End(w.log[fill.last]) = seg.off + seg.len
    BY DEF Fill
  <2>2. ~(fill.first < i) /\ ~(i < fill.first) BY <1>1, <1>3, <2>1
  <2>3. ~(fill.last < j) /\ ~(j < fill.last) BY <1>1, <1>3, <2>1
  <2> QED BY <1>1, <2>1, <2>2, <2>3
<1>6. ASSUME ~(seg.len > MaxSegment) PROVE Fill(w, seg) # {}
  <2>1. [first |-> i, last |-> j] \in Fill(w, seg) BY <1>4, <1>6 DEF Fill
  <2> QED BY <2>1
<1>7. ASSUME seg.len > MaxShard PROVE i = j /\ Size[w.log[i].rec] = seg.len
  <2>1. ~(i < j)
    <3>1. SUFFICES ASSUME i < j PROVE FALSE OBVIOUS
    <3>2. w.log[i].off < w.log[j].off BY <1>3, <3>1
    <3>3. End(w.log[j]) <= MaxShard BY <1>1, <1>4, <3>2
    <3> QED BY <1>1, <1>4, <1>7, <3>3
  <2>2. i = j BY <1>1, <2>1
  <2> QED BY <1>1, <2>2
<1> QED BY <1>5, <1>6, <1>7

-----------------------------------------------------------------------------
(* The package's steps.                                                    *)

LEMMA RecordsHaveSize == Rows \subseteq DOMAIN Size /\ Media \subseteq DOMAIN Size
BY DumpOK, ShardsOK

(* The log the index speaks of, by name.                                   *)
LEMMA LogTypes ==
  ASSUME ShardsTypeOK
  PROVE  /\ text \in Writers(Rows) /\ text.log \in Seq(Placed(Rows))
         /\ media \in Writers(Media) /\ media.log \in Seq(Placed(Media))
         /\ \A i \in DOMAIN text.log : /\ text.log[i].rec \in Rows /\ i \in 1..Len(text.log)
                                       /\ text.log[i].file \in Nat /\ text.log[i].off \in Nat
         /\ \A i \in DOMAIN media.log : /\ media.log[i].rec \in Media /\ i \in 1..Len(media.log)
                                        /\ media.log[i].file \in Nat /\ media.log[i].off \in Nat
<1>1. text \in Writers(Rows) /\ media \in Writers(Media) BY DEF ShardsTypeOK, Writers
<1>2. text.log \in Seq(Placed(Rows)) /\ media.log \in Seq(Placed(Media)) BY <1>1 DEF Writers
<1>3. \A i \in DOMAIN text.log : text.log[i] \in Placed(Rows) /\ i \in 1..Len(text.log) BY <1>2
<1>4. \A i \in DOMAIN media.log : media.log[i] \in Placed(Media) /\ i \in 1..Len(media.log) BY <1>2
<1> QED BY <1>1, <1>2, <1>3, <1>4 DEF Placed

(* A log with one record more.                                             *)
Longer(log, new, at) ==
  /\ new \in Seq(Placed(Rows)) /\ Len(new) = Len(log) + 1 /\ DOMAIN new = 1..(Len(log) + 1)
  /\ \A i \in DOMAIN log : new[i] = log[i] /\ i \in DOMAIN new
  /\ new[Len(log) + 1] = at

LEMMA TilesInsert ==
  ASSUME NEW log, NEW segs \in Seq(Segments), NEW seg \in Segments, Tiles(log, segs, seg)
  PROVE  Append(segs, seg) \in Seq(Segments) /\ Tiles(log, Append(segs, seg), Empty)
<1> DEFINE new == Append(segs, seg)
           L   == Len(segs)
<1>1. /\ new \in Seq(Segments) /\ Len(new) = L + 1 /\ L \in Nat
      /\ DOMAIN new = 1..(L + 1) /\ DOMAIN segs = 1..L
      /\ \A n \in DOMAIN segs : new[n] = segs[n]
      /\ new[L + 1] = seg
  OBVIOUS
<1>2. seg.count > 0 BY DEF Segments
<1>3. SegOK(log, seg) /\ seg.from = Upto(segs, L) + 1 /\ LastOf(seg) = Len(log)
  BY <1>2 DEF Tiles
<1> HIDE DEF new, L
<1>4. \A n \in 0..L : Upto(new, n) = Upto(segs, n) BY <1>1 DEF Upto
<1>5. Upto(new, L + 1) = Len(log) BY <1>1, <1>3 DEF Upto
<1>6. ASSUME NEW n \in DOMAIN new
      PROVE  SegOK(log, new[n]) /\ new[n].from = Upto(new, n - 1) + 1
  <2>1. n - 1 \in 0..L BY <1>1
  <2>2. Upto(new, n - 1) = Upto(segs, n - 1) BY <2>1, <1>4
  <2>3. CASE n \in DOMAIN segs
    <3>1. SegOK(log, segs[n]) /\ segs[n].from = Upto(segs, n - 1) + 1 BY <2>3 DEF Tiles
    <3> QED BY <3>1, <2>2, <2>3, <1>1
  <2>4. CASE n = L + 1 BY <1>1, <1>3, <2>2, <2>4
  <2> QED BY <1>1, <2>3, <2>4
<1>7. Empty.count = 0 BY DEF Empty
<1>8. Tiles(log, new, Empty) BY <1>1, <1>5, <1>6, <1>7 DEF Tiles
<1> QED BY <1>1, <1>8 DEF new

(* A sequence with one more element.                                       *)
LEMMA AppendedFacts ==
  ASSUME NEW S, NEW s \in Seq(S), NEW e \in S
  PROVE  /\ Append(s, e) \in Seq(S) /\ Len(Append(s, e)) = Len(s) + 1 /\ Len(s) \in Nat
         /\ DOMAIN Append(s, e) = 1..(Len(s) + 1) /\ DOMAIN s = 1..Len(s)
         /\ \A n \in DOMAIN s : Append(s, e)[n] = s[n]
         /\ Append(s, e)[Len(s) + 1] = e
OBVIOUS

LEMMA SegmentKept ==
  ASSUME NEW log, NEW new, NEW at, Longer(log, new, at), NEW seg, SegOK(log, seg)
  PROVE  SegOK(new, seg)
BY DEF SegOK, Longer

LEMMA TilesStart ==
  ASSUME NEW log \in Seq(Placed(Rows)), NEW segs \in Seq(Segments), Tiles(log, segs, Empty),
         NEW at \in Placed(Rows), NEW new, Longer(log, new, at), NEW seg,
         seg = [file |-> at.file, off |-> at.off, len |-> Size[at.rec],
                count |-> 1, from |-> Len(log) + 1]
  PROVE  seg \in Segments /\ Tiles(new, segs, seg)
<1>1. /\ at.file \in Nat /\ at.off \in Nat /\ at.rec \in Rows /\ Size[at.rec] \in Nat \ {0}
      /\ Len(log) \in Nat /\ DOMAIN log = 1..Len(log)
  BY RecordsHaveSize, ShardsOK DEF Placed
<1>2. seg \in Segments BY <1>1 DEF Segments
<1>3. LastOf(seg) = Len(log) + 1 /\ seg.count = 1 BY <1>1 DEF LastOf
<1>4. SegOK(new, seg) BY <1>1, <1>3 DEF SegOK, Longer, End
<1>5. Empty.count = 0 BY DEF Empty
<1>6. Upto(segs, Len(segs)) = Len(log) BY <1>5 DEF Tiles
<1>7. \A n \in DOMAIN segs : SegOK(new, segs[n]) /\ segs[n].from = Upto(segs, n - 1) + 1
  BY SegmentKept DEF Tiles
<1>8. Len(new) = Len(log) + 1 BY DEF Longer
<1> QED BY <1>2, <1>3, <1>4, <1>6, <1>7, <1>8 DEF Tiles

LEMMA TilesJoin ==
  ASSUME NEW log \in Seq(Placed(Rows)), NEW segs \in Seq(Segments), NEW seg \in Segments,
         Tiles(log, segs, seg), NEW at \in Placed(Rows), ~Apart(seg, at),
         NEW new, Longer(log, new, at), NEW joined,
         joined = [seg EXCEPT !.len = @ + Size[at.rec], !.count = @ + 1]
  PROVE  joined \in Segments /\ Tiles(new, segs, joined)
<1>1. /\ at.file \in Nat /\ at.off \in Nat /\ at.rec \in Rows /\ Size[at.rec] \in Nat \ {0}
      /\ Len(log) \in Nat /\ DOMAIN log = 1..Len(log)
  BY RecordsHaveSize, ShardsOK DEF Placed
<1>2. /\ seg.file \in Nat /\ seg.off \in Nat /\ seg.len \in Nat \ {0}
      /\ seg.count \in Nat \ {0} /\ seg.from \in Nat \ {0}
  BY DEF Segments
<1>3. /\ joined.file = seg.file /\ joined.off = seg.off /\ joined.from = seg.from
      /\ joined.len = seg.len + Size[at.rec] /\ joined.count = seg.count + 1
  BY DEF Segments
<1>4. joined \in Segments
  <2>1. joined = [file |-> seg.file, off |-> seg.off, len |-> seg.len + Size[at.rec],
                  count |-> seg.count + 1, from |-> seg.from]
    BY DEF Segments
  <2>2. \A a, b \in Nat \ {0} : a + b \in Nat \ {0} OBVIOUS
  <2>3. 1 \in Nat \ {0} OBVIOUS
  <2>4. seg.len + Size[at.rec] \in Nat \ {0} BY <1>1, <1>2, <2>2, Zenon
  <2>5. seg.count + 1 \in Nat \ {0} BY <1>2, <2>2, <2>3, Zenon
  <2> QED BY <1>2, <2>1, <2>4, <2>5 DEF Segments
<1>5. at.file = seg.file /\ at.off = seg.off + seg.len BY DEF Apart
<1>6. /\ SegOK(log, seg) /\ seg.from = Upto(segs, Len(segs)) + 1 /\ LastOf(seg) = Len(log)
  BY <1>2 DEF Tiles
<1>7. LastOf(joined) = Len(log) + 1 BY <1>2, <1>3, <1>6 DEF LastOf
<1>8. SegOK(new, joined)
  <2>1. /\ seg.from \in DOMAIN log /\ log[seg.from].file = seg.file /\ log[seg.from].off = seg.off
    BY <1>6 DEF SegOK
  <2>2. /\ joined.from \in DOMAIN new /\ new[joined.from].file = joined.file
        /\ new[joined.from].off = joined.off
    BY <1>3, <2>1 DEF Longer
  <2>3. LastOf(joined) \in DOMAIN new /\ new[LastOf(joined)] = at BY <1>1, <1>7 DEF Longer
  <2>4. End(at) = joined.off + joined.len BY <1>1, <1>2, <1>3, <1>5 DEF End
  <2> QED BY <1>3, <1>5, <2>2, <2>3, <2>4 DEF SegOK
<1>9. \A n \in DOMAIN segs : SegOK(new, segs[n]) /\ segs[n].from = Upto(segs, n - 1) + 1
  BY SegmentKept DEF Tiles
<1>10. Len(new) = Len(log) + 1 BY DEF Longer
<1> QED BY <1>2, <1>3, <1>4, <1>6, <1>7, <1>8, <1>9, <1>10 DEF Tiles

LEMMA WriteRecordTiles ==
  ASSUME ShardsTypeOK, LogOK(text), TilesOK, NEW rec \in Rows, WriteRecord(rec)
  PROVE  /\ TilesOK' /\ index' \in Seq(Segments) /\ segment' \in Segments
         /\ text' \in Writers(Rows) /\ LogOK(text')
         /\ \E at : at.rec = rec /\ Longer(text.log, text'.log, at)
<1>1. PICK at : at = Place(text, rec) OBVIOUS
<1>2. /\ text \in Writers(Rows) /\ text.log \in Seq(Placed(Rows))
      /\ index \in Seq(Segments) /\ segment \in Segments \cup {Empty}
  BY LogTypes DEF ShardsTypeOK
<1>3. at \in Placed(Rows) /\ at.rec = rec BY <1>1, <1>2, RecordsHaveSize, PlaceFacts
<1>4. text' \in Writers(Rows) /\ LogOK(text') /\ Longer(text.log, text'.log, at)
  <2>1. text' = AppendTo(text, rec) BY DEF WriteRecord
  <2> QED BY <1>1, <1>2, <2>1, RecordsHaveSize, AppendFacts DEF Longer
<1>5. FirstOf(at) = [file |-> at.file, off |-> at.off, len |-> Size[at.rec],
                     count |-> 1, from |-> Len(text.log) + 1]
  BY DEF FirstOf
<1>6. CASE segment.count > 0 /\ Apart(segment, at)
  <2>1. index' = Append(index, segment) /\ segment' = FirstOf(at) BY <1>1, <1>6 DEF WriteRecord
  <2>2. segment \in Segments BY <1>2, <1>6 DEF Empty
  <2>3. index' \in Seq(Segments) /\ Tiles(text.log, index', Empty)
    BY <1>2, <2>1, <2>2, TilesInsert DEF TilesOK
  <2>4. segment' \in Segments /\ Tiles(text'.log, index', segment')
    BY <1>2, <1>3, <1>4, <1>5, <2>1, <2>3, TilesStart
  <2> QED BY <1>3, <1>4, <2>3, <2>4 DEF TilesOK
<1>7. CASE segment.count = 0
  <2>1. index' = index /\ segment' = FirstOf(at) BY <1>1, <1>7 DEF WriteRecord
  <2>2. segment = Empty BY <1>2, <1>7 DEF Segments
  <2>3. segment' \in Segments /\ Tiles(text'.log, index, segment')
    BY <1>2, <1>3, <1>4, <1>5, <2>1, <2>2, TilesStart DEF TilesOK
  <2> QED BY <1>2, <1>3, <1>4, <2>1, <2>3 DEF TilesOK
<1>8. CASE segment.count > 0 /\ ~Apart(segment, at)
  <2>1. index' = index BY <1>1, <1>8 DEF WriteRecord
  <2>2. segment' = [segment EXCEPT !.len = @ + Size[at.rec], !.count = @ + 1]
    BY <1>1, <1>2, <1>3, <1>8 DEF WriteRecord, Segments, Empty
  <2>3. segment \in Segments BY <1>2, <1>8 DEF Empty
  <2>4. segment' \in Segments /\ Tiles(text'.log, index, segment')
    BY <1>2, <1>3, <1>4, <1>8, <2>2, <2>3, TilesJoin DEF TilesOK
  <2> QED BY <1>2, <1>3, <1>4, <2>1, <2>4 DEF TilesOK
<1>9. segment.count > 0 \/ segment.count = 0 BY <1>2 DEF Segments, Empty
<1> QED BY <1>6, <1>7, <1>8, <1>9

(* What a step leaves alone of the package.                                *)
LEMMA PackageKept ==
  ASSUME ShardsTypeOK, ShardsInv, UNCHANGED package,
         stage = "none" \/ UNCHANGED <<dumped, unwritten>>
  PROVE  ShardsTypeOK' /\ ShardsInv'
<1>1. /\ stage' = stage /\ present' = present /\ objects' = objects /\ text' = text
      /\ media' = media /\ segment' = segment /\ index' = index /\ blobs' = blobs
      /\ next' = next /\ found' = found /\ fetched' = fetched
  BY DEF package
<1>2. ShardsTypeOK' BY <1>1 DEF ShardsTypeOK
<1>3. LogOK(text)' /\ LogOK(media)' /\ TilesOK' BY <1>1 DEF ShardsInv, TilesOK
<1>4. WrittenOK' BY <1>1 DEF ShardsInv, WrittenOK
<1>5. BlobsOK' BY <1>1 DEF ShardsInv, BlobsOK
<1>6. ObjectsOK' BY <1>1 DEF ShardsInv, ObjectsOK
<1>7. ReadOK' BY <1>1 DEF ShardsInv, ReadOK, Oversize
<1> QED BY <1>2, <1>3, <1>4, <1>5, <1>6, <1>7 DEF ShardsInv

LEMMA StartWritingPackage ==
  ASSUME ShardsTypeOK, ShardsInv, StartWriting
  PROVE  ShardsTypeOK' /\ ShardsInv'
<1>1. /\ stage = "none" /\ stage' = "text" /\ present' \in SUBSET Media /\ objects' = Media
      /\ text' = NewWriter /\ segment' = Empty /\ index' = <<>> /\ unwritten' = DOMAIN dumped
      /\ dumped' = dumped /\ media' = media /\ blobs' = blobs
      /\ next' = next /\ found' = found /\ fetched' = fetched
  BY DEF StartWriting, OpenText, reader
<1>2. NewWriter \in Writers(Rows) /\ LogOK(NewWriter) BY NewLog
<1>3. ShardsTypeOK'
  <2>1. index' \in Seq(Segments) BY <1>1
  <2> QED BY <1>1, <1>2, <2>1 DEF ShardsTypeOK, Writers
<1>4. LogOK(text)' /\ LogOK(media)' BY <1>1, <1>2 DEF ShardsInv
<1>5. DOMAIN NewWriter.log = {} /\ Len(NewWriter.log) = 0 BY DEF NewWriter
<1>6. TilesOK'
  <2>1. DOMAIN index' = {} /\ Len(index') = 0 BY <1>1
  <2> QED BY <1>1, <1>5, <2>1 DEF TilesOK, Tiles, Upto, Empty
<1>7. WrittenOK' BY <1>1, <1>5 DEF WrittenOK
<1>8. BlobsOK' BY <1>1 DEF ShardsInv, BlobsOK
<1>9. ObjectsOK'
  <2>1. media = NewWriter /\ blobs = <<>> BY <1>1 DEF ShardsInv, ObjectsOK
  <2> QED BY <1>1, <2>1 DEF ObjectsOK
<1>10. ReadOK' BY <1>1 DEF ShardsInv, ReadOK
<1> QED BY <1>3, <1>4, <1>6, <1>7, <1>8, <1>9, <1>10 DEF ShardsInv

LEMMA WriteMessagePackage ==
  ASSUME ShardsTypeOK, ShardsInv, DistinctOK, dumped \in Seq(Rows), unwritten \subseteq DOMAIN dumped,
         WriteMessage
  PROVE  ShardsTypeOK' /\ ShardsInv'
<1>1. PICK n \in unwritten : /\ \A k \in unwritten : ~Before(dumped[k], dumped[n])
                             /\ WriteRecord(dumped[n])
                             /\ unwritten' = unwritten \ {n}
  BY DEF WriteMessage
<1>2. /\ stage = "text" /\ stage' = stage /\ present' = present /\ objects' = objects
      /\ media' = media /\ blobs' = blobs
      /\ next' = next /\ found' = found /\ fetched' = fetched /\ dumped' = dumped
  BY <1>1 DEF WriteRecord, reader, WriteMessage
<1>3. /\ dumped[n] \in Rows /\ n \in DOMAIN dumped
      /\ \A k \in unwritten : dumped[k] \in Rows /\ k \in DOMAIN dumped
  OBVIOUS
<1>4. /\ TilesOK' /\ index' \in Seq(Segments) /\ segment' \in Segments
      /\ text' \in Writers(Rows) /\ LogOK(text')
      /\ \E at : at.rec = dumped[n] /\ Longer(text.log, text'.log, at)
  BY <1>1, <1>3, WriteRecordTiles DEF ShardsInv
<1>5. PICK at : at.rec = dumped[n] /\ Longer(text.log, text'.log, at) BY <1>4
<1>6. ShardsTypeOK' BY <1>2, <1>4 DEF ShardsTypeOK, Writers
<1>7. LogOK(text)' /\ LogOK(media)' BY <1>2, <1>4 DEF ShardsInv
<1> DEFINE L == Len(text.log)
<1>8. /\ \A i \in DOMAIN text.log : /\ i \in 1..L /\ text'.log[i] = text.log[i]
                                    /\ i \in DOMAIN text'.log /\ text.log[i].rec \in Rows
      /\ \A i \in DOMAIN text'.log : i \in DOMAIN text.log \/ i = L + 1
      /\ text'.log[L + 1].rec = dumped[n] /\ L + 1 \in DOMAIN text'.log /\ L \in Nat
      /\ DOMAIN text'.log = 1..(L + 1)
  <2>1. text.log \in Seq(Placed(Rows)) BY LogTypes
  <2> QED BY <1>5, <2>1, LogTypes DEF Longer
<1>9. WrittenOK'
  <2>0. WrittenOK /\ stage' = "text" BY <1>2 DEF ShardsInv
  <2>1. ASSUME NEW i \in DOMAIN text'.log, NEW j \in DOMAIN text'.log, i < j
        PROVE  Before(text'.log[i].rec, text'.log[j].rec)
    <3>1. i \in DOMAIN text.log BY <1>8, <2>1
    <3>2. CASE j \in DOMAIN text.log
      <4>1. Before(text.log[i].rec, text.log[j].rec) BY <3>1, <3>2, <2>0, <2>1, <1>2 DEF WrittenOK
      <4> QED BY <4>1, <3>1, <3>2, <1>8
    <3>3. CASE j = L + 1
      <4>1. Before(text.log[i].rec, dumped[n]) BY <3>1, <2>0, <1>2 DEF WrittenOK
      <4> QED BY <4>1, <3>1, <3>3, <1>8
    <3> QED BY <3>2, <3>3, <1>8
  <2>2. ASSUME NEW i \in DOMAIN text'.log, NEW k \in unwritten'
        PROVE  Before(text'.log[i].rec, dumped[k])
    <3>1. k \in unwritten /\ k # n BY <1>1
    <3>2. CASE i \in DOMAIN text.log
      <4>1. Before(text.log[i].rec, dumped[k]) BY <3>1, <3>2, <2>0, <1>2 DEF WrittenOK
      <4> QED BY <4>1, <3>2, <1>8
    <3>3. CASE i = L + 1
      <4>1. dumped[k] # dumped[n] BY <1>3, <3>1 DEF DistinctOK
      <4>2. Before(dumped[n], dumped[k]) BY <1>1, <1>3, <3>1, <4>1, BeforeOrder
      <4> QED BY <4>2, <3>3, <1>8
    <3> QED BY <3>2, <3>3, <1>8
  <2>3. ASSUME NEW i \in DOMAIN text'.log PROVE text'.log[i].rec \in Range(dumped)
    <3>1. CASE i \in DOMAIN text.log BY <3>1, <1>8, <2>0, <1>2 DEF WrittenOK
    <3>2. CASE i = L + 1 BY <3>2, <1>8, <1>3 DEF Range
    <3> QED BY <3>1, <3>2, <1>8
  <2>4. ASSUME NEW k \in DOMAIN dumped \ unwritten'
        PROVE  \E i \in DOMAIN text'.log : text'.log[i].rec = dumped[k]
    <3>1. CASE k = n BY <3>1, <1>8
    <3>2. CASE k # n
      <4>1. PICK i \in DOMAIN text.log : text.log[i].rec = dumped[k]
        BY <3>2, <1>1, <1>2, <2>0, <2>4 DEF WrittenOK
      <4> QED BY <4>1, <1>8
    <3> QED BY <3>1, <3>2
  <2> QED BY <1>2, <2>0, <2>1, <2>2, <2>3, <2>4 DEF WrittenOK
<1>10. BlobsOK' BY <1>2 DEF ShardsInv, BlobsOK
<1>11. ObjectsOK' BY <1>2 DEF ShardsInv, ObjectsOK
<1>12. ReadOK' BY <1>2 DEF ShardsInv, ReadOK
<1> QED BY <1>4, <1>6, <1>7, <1>9, <1>10, <1>11, <1>12 DEF ShardsInv

LEMMA FlushPackage ==
  ASSUME ShardsTypeOK, ShardsInv, Flush, UNCHANGED restore
  PROVE  ShardsTypeOK' /\ ShardsInv'
<1>1. /\ stage = "text" /\ segment.count > 0 /\ index' = Append(index, segment) /\ segment' = Empty
      /\ stage' = stage /\ present' = present /\ objects' = objects /\ text' = text
      /\ media' = media /\ blobs' = blobs /\ next' = next /\ found' = found
      /\ fetched' = fetched /\ dumped' = dumped /\ unwritten' = unwritten
  BY DEF Flush, reader, restore
<1>2. segment \in Segments /\ index \in Seq(Segments) BY <1>1 DEF ShardsTypeOK, Empty
<1>3. index' \in Seq(Segments) /\ Tiles(text.log, index', Empty)
  BY <1>1, <1>2, TilesInsert DEF ShardsInv, TilesOK
<1>4. ShardsTypeOK' BY <1>1, <1>3 DEF ShardsTypeOK
<1>5. LogOK(text)' /\ LogOK(media)' /\ TilesOK' BY <1>1, <1>3 DEF ShardsInv, TilesOK
<1>6. WrittenOK' BY <1>1 DEF ShardsInv, WrittenOK
<1>7. BlobsOK' BY <1>1 DEF ShardsInv, BlobsOK
<1>8. ObjectsOK' BY <1>1 DEF ShardsInv, ObjectsOK
<1>9. ReadOK' BY <1>1 DEF ShardsInv, ReadOK
<1> QED BY <1>4, <1>5, <1>6, <1>7, <1>8, <1>9 DEF ShardsInv

LEMMA OpenMediaPackage ==
  ASSUME ShardsTypeOK, ShardsInv, TextWritten, UNCHANGED restore
  PROVE  ShardsTypeOK' /\ ShardsInv'
<1>1. /\ stage = "text" /\ segment.count = 0 /\ unwritten = {} /\ stage' = "media"
      /\ media' = NewWriter /\ present' = present /\ objects' = objects /\ text' = text
      /\ segment' = segment /\ index' = index /\ blobs' = blobs /\ next' = next
      /\ found' = found /\ fetched' = fetched /\ dumped' = dumped /\ unwritten' = unwritten
  BY DEF TextWritten, OpenMedia, reader, restore
<1>2. NewWriter \in Writers(Media) /\ LogOK(NewWriter) BY NewLog
<1>3. media = NewWriter /\ blobs = <<>> /\ objects = Media BY <1>1 DEF ShardsInv, ObjectsOK
<1>4. ShardsTypeOK' BY <1>1, <1>2 DEF ShardsTypeOK, Writers
<1>5. LogOK(text)' /\ LogOK(media)' /\ TilesOK' BY <1>1, <1>2 DEF ShardsInv, TilesOK
<1>6. WrittenOK' BY <1>1 DEF ShardsInv, WrittenOK
<1>7. BlobsOK' BY <1>1, <1>3 DEF ShardsInv, BlobsOK
<1>8. ObjectsOK' BY <1>1, <1>3 DEF ObjectsOK
<1>9. ReadOK' BY <1>1 DEF ShardsInv, ReadOK
<1> QED BY <1>4, <1>5, <1>6, <1>7, <1>8, <1>9 DEF ShardsInv

LEMMA WriteMediaPackage ==
  ASSUME ShardsTypeOK, ShardsInv, WriteMedia, UNCHANGED restore
  PROVE  ShardsTypeOK' /\ ShardsInv'
<1>1. PICK id \in objects : id = CHOOSE x \in objects : TRUE BY DEF WriteMedia
<1>2. /\ stage = "media" /\ stage' = stage /\ present' = present /\ objects' = objects \ {id}
      /\ text' = text /\ segment' = segment /\ index' = index
      /\ next' = next /\ found' = found /\ fetched' = fetched
      /\ dumped' = dumped /\ unwritten' = unwritten
  BY <1>1 DEF WriteMedia, reader, restore
<1>3. id \in Media /\ media \in Writers(Media) /\ LogOK(media)
  BY LogTypes DEF ShardsTypeOK, ShardsInv
<1>4. /\ Len(blobs) = Len(media.log)
      /\ \A n \in DOMAIN blobs :
           blobs[n] = [media |-> media.log[n].rec, file |-> media.log[n].file,
                       off |-> media.log[n].off, len |-> Size[media.log[n].rec]]
      /\ \A i, j \in DOMAIN blobs : blobs[i].media = blobs[j].media => i = j
  BY DEF ShardsInv, BlobsOK
<1>5. \A x \in Media : (x \in present /\ x \notin objects) <=> \E n \in DOMAIN blobs : blobs[n].media = x
  BY <1>2 DEF ShardsInv, ObjectsOK
<1> DEFINE Blob == [media : Media, file : Nat, off : Nat, len : Nat \ {0}]
<1>6. blobs \in Seq(Blob) BY DEF ShardsTypeOK
<1>7. /\ media' \in Writers(Media) /\ LogOK(media') /\ blobs' \in Seq(Blob) /\ BlobsOK'
      /\ \A x \in Media : (x \in present /\ x \notin objects') <=> \E n \in DOMAIN blobs' : blobs'[n].media = x
  <2>1. CASE id \notin present
    <3>1. media' = media /\ blobs' = blobs BY <1>1, <2>1 DEF WriteMedia
    <3>2. BlobsOK' BY <3>1 DEF ShardsInv, BlobsOK
    <3> QED BY <1>2, <1>3, <1>5, <1>6, <2>1, <3>1, <3>2
  <2>2. CASE id \in present
    <3>1. PICK at : at = Place(media, id) OBVIOUS
    <3>2. PICK blob : blob = [media |-> id, file |-> at.file, off |-> at.off, len |-> Size[id]]
      OBVIOUS
    <3>3. media' = AppendTo(media, id) /\ blobs' = Append(blobs, blob)
      BY <1>1, <2>2, <3>1, <3>2 DEF WriteMedia
    <3>4. at \in Placed(Media) /\ at.rec = id BY <1>3, <3>1, RecordsHaveSize, PlaceFacts
    <3>5. /\ media' \in Writers(Media) /\ LogOK(media')
          /\ Len(media'.log) = Len(media.log) + 1
          /\ \A i \in DOMAIN media.log : media'.log[i] = media.log[i]
          /\ media'.log[Len(media.log) + 1] = at
      BY <1>3, <3>1, <3>3, RecordsHaveSize, AppendFacts
    <3>6. Size[id] \in Nat \ {0} BY <1>3, RecordsHaveSize, ShardsOK
    <3>7. blob \in Blob BY <1>3, <3>2, <3>4, <3>6 DEF Placed
    <3>8. /\ blobs' \in Seq(Blob) /\ Len(blobs') = Len(blobs) + 1 /\ Len(blobs) \in Nat
          /\ DOMAIN blobs' = 1..(Len(blobs) + 1) /\ DOMAIN blobs = 1..Len(blobs)
          /\ \A n \in DOMAIN blobs : blobs'[n] = blobs[n]
          /\ blobs'[Len(blobs) + 1] = blob
      <4> HIDE DEF Blob
      <4> QED BY <1>6, <3>3, <3>7, AppendedFacts
    <3> DEFINE l == Len(blobs) + 1
    <3>0. /\ \A n \in DOMAIN blobs' : n \in DOMAIN blobs \/ n = l
          /\ \A n \in DOMAIN blobs : n \in DOMAIN blobs'
          /\ l \in DOMAIN blobs' /\ blobs'[l].media = id
      BY <3>2, <3>8
    <3> HIDE DEF l
    <3>9. DOMAIN media.log = DOMAIN blobs
      <4>1. media.log \in Seq(Placed(Media)) BY <1>3 DEF Writers
      <4> QED BY <4>1, <1>4, <3>8
    <3>10. \A n \in DOMAIN blobs :
             blobs'[n] = [media |-> media'.log[n].rec, file |-> media'.log[n].file,
                          off |-> media'.log[n].off, len |-> Size[media'.log[n].rec]]
      BY <1>4, <3>5, <3>8, <3>9
    <3>11. blobs'[l] = [media |-> media'.log[l].rec, file |-> media'.log[l].file,
                        off |-> media'.log[l].off, len |-> Size[media'.log[l].rec]]
      BY <1>4, <3>2, <3>4, <3>5, <3>8 DEF l
    <3>12. \A n \in DOMAIN blobs : blobs[n].media # id BY <1>3, <1>5
    <3>13. \A i, j \in DOMAIN blobs' : blobs'[i].media = blobs'[j].media => i = j
      <4>1. ASSUME NEW i \in DOMAIN blobs', NEW j \in DOMAIN blobs, blobs'[i].media = blobs'[j].media
            PROVE  i = j
        <5>1. CASE i \in DOMAIN blobs BY <5>1, <1>4, <3>8, <4>1
        <5>2. CASE i = l BY <5>2, <3>0, <3>8, <3>12, <4>1
        <5> QED BY <3>0, <5>1, <5>2
      <4>2. ASSUME NEW i \in DOMAIN blobs', blobs'[i].media = blobs'[l].media
            PROVE  i = l
        <5>1. i \notin DOMAIN blobs BY <3>0, <3>8, <3>12, <4>2
        <5> QED BY <3>0, <5>1
      <4> QED BY <3>0, <4>1, <4>2
    <3>14. BlobsOK'
      <4>1. \A n \in DOMAIN blobs' :
              blobs'[n] = [media |-> media'.log[n].rec, file |-> media'.log[n].file,
                           off |-> media'.log[n].off, len |-> Size[media'.log[n].rec]]
        BY <3>0, <3>10, <3>11
      <4>2. Len(blobs') = Len(media'.log) BY <1>4, <3>5, <3>8
      <4> QED BY <3>13, <4>1, <4>2 DEF BlobsOK
    <3>15. ASSUME NEW x \in Media
           PROVE  (x \in present /\ x \notin objects') <=> \E n \in DOMAIN blobs' : blobs'[n].media = x
      <4>2. (\E n \in DOMAIN blobs' : blobs'[n].media = x) <=>
              (\E n \in DOMAIN blobs : blobs[n].media = x) \/ x = id
        BY <3>0, <3>8
      <4> QED BY <1>1, <1>2, <1>5, <2>2, <4>2
    <3> QED BY <3>5, <3>8, <3>14, <3>15
  <2> QED BY <2>1, <2>2
<1>8. ShardsTypeOK' BY <1>2, <1>7 DEF ShardsTypeOK, Writers
<1>9. LogOK(text)' /\ LogOK(media)' /\ TilesOK' BY <1>2, <1>7 DEF ShardsInv, TilesOK
<1>10. WrittenOK' BY <1>2 DEF ShardsInv, WrittenOK
<1>11. ObjectsOK' BY <1>2, <1>7 DEF ObjectsOK
<1>12. ReadOK' BY <1>2 DEF ShardsInv, ReadOK
<1> QED BY <1>7, <1>8, <1>9, <1>10, <1>11, <1>12 DEF ShardsInv

LEMMA CommitIndexPackage ==
  ASSUME ShardsTypeOK, ShardsInv, CommitIndex, UNCHANGED restore
  PROVE  ShardsTypeOK' /\ ShardsInv'
<1>1. /\ stage = "media" /\ objects = {} /\ stage' = "written" /\ present' = present
      /\ objects' = objects /\ text' = text /\ media' = media /\ segment' = segment
      /\ index' = index /\ blobs' = blobs /\ next' = next /\ found' = found
      /\ fetched' = fetched /\ dumped' = dumped /\ unwritten' = unwritten
  BY DEF CommitIndex, reader, restore
<1>2. ShardsTypeOK' BY <1>1 DEF ShardsTypeOK
<1>3. LogOK(text)' /\ LogOK(media)' /\ TilesOK' BY <1>1 DEF ShardsInv, TilesOK
<1>4. WrittenOK' BY <1>1 DEF ShardsInv, WrittenOK
<1>5. BlobsOK' BY <1>1 DEF ShardsInv, BlobsOK
<1>6. ObjectsOK' BY <1>1 DEF ShardsInv, ObjectsOK
<1>7. ReadOK'
  <2>1. next = 1 /\ found = <<>> /\ fetched = [id \in Media |-> <<>>] BY <1>1 DEF ShardsInv, ReadOK
  <2>2. Says(found, text.log, Upto(index, next - 1)) BY <2>1 DEF Says, Upto
  <2>3. Len(index) \in Nat BY DEF ShardsTypeOK
  <2>4. next \in 1..(Len(index) + 1) BY <2>1, <2>3
  <2> QED BY <1>1, <2>1, <2>2, <2>4 DEF ReadOK
<1> QED BY <1>2, <1>3, <1>4, <1>5, <1>6, <1>7 DEF ShardsInv

LEMMA AbandonPackage ==
  ASSUME ShardsTypeOK, ShardsInv, Abandon
  PROVE  ShardsTypeOK' /\ ShardsInv'
<1>1. /\ stage' = "failed" /\ objects' = {} /\ text' = NewWriter /\ media' = NewWriter
      /\ segment' = Empty /\ index' = <<>> /\ blobs' = <<>> /\ present' = present
      /\ next' = next /\ found' = found /\ fetched' = fetched
  BY DEF Abandon, Cleared, reader
<1>2. NewWriter \in Writers(Rows) /\ NewWriter \in Writers(Media) /\ LogOK(NewWriter) BY NewLog
<1>3. index' \in Seq(Segments) /\ DOMAIN index' = {} /\ Len(index') = 0
      /\ DOMAIN blobs' = {} /\ Len(blobs') = 0
      /\ blobs' \in Seq([media : Media, file : Nat, off : Nat, len : Nat \ {0}])
  BY <1>1
<1>4. ShardsTypeOK' BY <1>1, <1>2, <1>3 DEF ShardsTypeOK, Writers
<1>5. LogOK(text)' /\ LogOK(media)' BY <1>1, <1>2
<1>6. DOMAIN NewWriter.log = {} /\ Len(NewWriter.log) = 0 BY DEF NewWriter
<1>7. TilesOK' BY <1>1, <1>3, <1>6 DEF TilesOK, Tiles, Upto, Empty
<1>8. WrittenOK' BY <1>1 DEF WrittenOK
<1>9. BlobsOK' BY <1>1, <1>3, <1>6 DEF BlobsOK
<1>10. ObjectsOK' BY <1>1 DEF ObjectsOK
<1>11. ReadOK' BY <1>1 DEF ReadOK
<1> QED BY <1>4, <1>5, <1>7, <1>8, <1>9, <1>10, <1>11 DEF ShardsInv

(* The records of a fill are a piece of the log.                           *)
LEMMA ContentsFacts ==
  ASSUME NEW recs, NEW w \in Writers(recs), NEW i \in DOMAIN w.log, NEW j \in DOMAIN w.log, i <= j,
         NEW fill, fill.first = i, fill.last = j
  PROVE  /\ Contents(w, fill) \in Seq(recs) /\ Len(Contents(w, fill)) = j + 1 - i
         /\ DOMAIN Contents(w, fill) = 1..(j + 1 - i)
         /\ \A k \in 1..(j + 1 - i) : Contents(w, fill)[k] = w.log[i + k - 1].rec
<1>1. w.log \in Seq(Placed(recs)) BY DEF Writers
<1>2. i \in 1..Len(w.log) /\ j \in 1..Len(w.log) /\ Len(w.log) \in Nat BY <1>1
<1>3. j + 1 - i \in Nat BY <1>2
<1>4. \A k \in 1..(j + 1 - i) : i + k - 1 \in DOMAIN w.log BY <1>1, <1>2
<1>5. \A k \in DOMAIN w.log : w.log[k].rec \in recs
  <2>1. \A k \in DOMAIN w.log : w.log[k] \in Placed(recs) BY <1>1
  <2> QED BY <2>1 DEF Placed
<1>6. Contents(w, fill) = [k \in 1..(j + 1 - i) |-> w.log[i + k - 1].rec] BY DEF Contents
<1>7. Contents(w, fill) \in [1..(j + 1 - i) -> recs] BY <1>4, <1>5, <1>6
<1> QED BY <1>3, <1>6, <1>7

LEMMA UptoNat ==
  ASSUME NEW segs \in Seq(Segments), NEW n \in 0..Len(segs)
  PROVE  Upto(segs, n) \in Nat
<1>1. CASE n = 0 BY <1>1 DEF Upto
<1>2. CASE n # 0
  <2>1. segs[n] \in Segments BY <1>2
  <2>2. segs[n].from \in Nat \ {0} /\ segs[n].count \in Nat \ {0} BY <2>1 DEF Segments
  <2>3. LastOf(segs[n]) \in Nat BY <2>2 DEF LastOf
  <2> QED BY <1>2, <2>3 DEF Upto
<1> QED BY <1>1, <1>2

LEMMA ReadSegmentPackage ==
  ASSUME ShardsTypeOK, ShardsInv, dumped \in Seq(Rows), ReadSegment, UNCHANGED restore
  PROVE  ShardsTypeOK' /\ ShardsInv'
<1>1. /\ stage = "written" /\ next <= Len(index) /\ present' = present /\ objects' = objects
      /\ text' = text /\ media' = media /\ segment' = segment /\ index' = index
      /\ blobs' = blobs /\ dumped' = dumped /\ unwritten' = unwritten /\ fetched' = fetched
      /\ stage' \in {"written", "refused"}
  BY DEF ReadSegment, restore, Refuse, reader
<1>2. /\ text \in Writers(Rows) /\ LogOK(text) /\ index \in Seq(Segments) /\ next \in Nat \ {0}
      /\ found \in Seq(Rows)
  BY LogTypes DEF ShardsTypeOK, ShardsInv
<1>3. next \in DOMAIN index BY <1>1, <1>2
<1>4. PICK seg \in Segments : seg = index[next] BY <1>2, <1>3
<1>5. SegOK(text.log, seg) /\ seg.from = Upto(index, next - 1) + 1
  BY <1>3, <1>4 DEF ShardsInv, TilesOK, Tiles
<1>6. PICK f \in DOMAIN text.log, l \in DOMAIN text.log :
        /\ f = seg.from /\ l = LastOf(seg)
        /\ text.log[f].file = seg.file /\ text.log[f].off = seg.off
        /\ text.log[l].file = seg.file /\ End(text.log[l]) = seg.off + seg.len
  BY <1>5 DEF SegOK
<1>7. f \in Nat /\ l \in Nat /\ f <= l /\ seg.len \in Nat BY <1>6 DEF Segments, LastOf
<1>8. /\ \A fill \in Fill(text, seg) : fill.first = f /\ fill.last = l
      /\ Fill(text, seg) = {} => seg.len > MaxSegment
      /\ seg.len > MaxShard => f = l /\ Size[text.log[f].rec] = seg.len
  BY <1>2, <1>6, <1>7, RecordsHaveSize, FillFacts
<1>9. WrittenOK' BY <1>1 DEF ShardsInv, WrittenOK
<1>10. LogOK(text)' /\ LogOK(media)' /\ TilesOK' BY <1>1 DEF ShardsInv, TilesOK
<1>11. BlobsOK' BY <1>1 DEF ShardsInv, BlobsOK
<1>12. ObjectsOK' BY <1>1 DEF ShardsInv, ObjectsOK
<1>13. CASE Fill(text, seg) = {}
  <2>1. stage' = "refused" /\ next' = next /\ found' = found BY <1>4, <1>13 DEF ReadSegment, Refuse, reader
  <2>2. seg.len > MaxSegment /\ seg.len > MaxShard
    <3>1. MaxSegment \in Nat /\ MaxShard \in Nat /\ MaxShard <= MaxSegment BY ShardsOK, DumpOK
    <3> QED BY <1>7, <1>8, <1>13, <3>1
  <2>3. PICK i \in DOMAIN dumped : dumped[i] = text.log[f].rec
    <3>1. text.log[f].rec \in Range(dumped) BY <1>1, <1>6 DEF ShardsInv, WrittenOK
    <3> QED BY <3>1 DEF Range
  <2>4. Oversize' BY <1>1, <1>8, <2>2, <2>3 DEF Oversize
  <2>5. ReadOK' BY <2>1, <2>4 DEF ReadOK
  <2>6. ShardsTypeOK' BY <1>1, <2>1 DEF ShardsTypeOK
  <2> QED BY <1>9, <1>10, <1>11, <1>12, <2>5, <2>6 DEF ShardsInv
<1>14. CASE Fill(text, seg) # {}
  <2>1. PICK fill \in Fill(text, seg) : found' = found \o Contents(text, fill)
    BY <1>4, <1>14 DEF ReadSegment
  <2>2. stage' = "written" /\ next' = next + 1 BY <1>1, <1>4, <1>14 DEF ReadSegment
  <2>3. fill.first = f /\ fill.last = l BY <1>8
  <2>4. PICK piece \in Seq(Rows) :
          /\ piece = Contents(text, fill) /\ Len(piece) = l + 1 - f /\ DOMAIN piece = 1..(l + 1 - f)
          /\ \A k \in 1..(l + 1 - f) : piece[k] = text.log[f + k - 1].rec
    <3>1. /\ Contents(text, fill) \in Seq(Rows) /\ Len(Contents(text, fill)) = l + 1 - f
          /\ DOMAIN Contents(text, fill) = 1..(l + 1 - f)
          /\ \A k \in 1..(l + 1 - f) : Contents(text, fill)[k] = text.log[f + k - 1].rec
      <4>1. f <= l /\ fill.first = f /\ fill.last = l /\ text \in Writers(Rows)
        BY <1>2, <1>7, <2>3
      <4> QED BY <4>1, ContentsFacts
    <3> QED BY <3>1
  <2>5. found' = found \o piece BY <2>1, <2>4
  <2>6. Upto(index, next) = l /\ Upto(index, next - 1) = f - 1
    <3>1. next \in 0..Len(index) /\ next - 1 \in 0..Len(index) BY <1>1, <1>2
    <3>2. Upto(index, next - 1) \in Nat BY <1>2, <3>1, UptoNat
    <3> QED BY <1>2, <1>4, <1>5, <1>6, <3>2 DEF Upto
  <2>7. Len(found) = f - 1 /\ \A i \in 1..(f - 1) : found[i] = text.log[i].rec
    BY <1>1, <2>6 DEF ShardsInv, ReadOK, Says
  <2>8. found' \in Seq(Rows) BY <1>2, <2>5
  <2>9. Len(found') = l /\ \A i \in 1..l : found'[i] = text.log[i].rec
    <3>0. Len(found') = Len(found) + Len(piece) BY <1>2, <2>5
    <3>1. Len(found') = l BY <1>7, <2>4, <2>7, <3>0
    <3>2. ASSUME NEW i \in 1..l PROVE found'[i] = text.log[i].rec
      <4>1. CASE i <= f - 1
        <5>1. i \in 1..(f - 1) BY <1>7, <4>1
        <5>2. found'[i] = found[i] BY <1>2, <2>5, <2>7, <5>1
        <5> QED BY <2>7, <5>1, <5>2
      <4>2. CASE i > f - 1
        <5>1. PICK k \in Int : k = i - (f - 1) BY <1>7
        <5>0. i \in Nat /\ i <= l BY <1>7
        <5>5. k >= 1 /\ k <= l + 1 - f BY <1>7, <4>2, <5>0, <5>1
        <5>2. k \in 1..(l + 1 - f) /\ f + k - 1 = i BY <1>7, <5>0, <5>1, <5>5
        <5>4. i = Len(found) + k BY <1>7, <2>7, <5>1
        <5>3. found'[Len(found) + k] = piece[k] BY <1>2, <2>4, <2>5, <5>2
        <5> QED BY <2>4, <5>2, <5>3, <5>4
      <4> QED BY <1>7, <4>1, <4>2
    <3> QED BY <3>1, <3>2
  <2>10. ReadOK'
    <3>1. next' - 1 = next /\ next' \in 1..(Len(index) + 1) BY <1>1, <1>2, <2>2
    <3>2. Says(found', text'.log, Upto(index', next' - 1))
      BY <1>1, <2>6, <2>9, <3>1 DEF Says
    <3>3. fetched' = [id \in Media |-> <<>>] BY <1>1 DEF ShardsInv, ReadOK
    <3> QED BY <1>1, <2>2, <3>1, <3>2, <3>3 DEF ReadOK
  <2>11. ShardsTypeOK'
    <3>1. next' \in Nat \ {0} BY <1>2, <2>2
    <3> QED BY <1>1, <2>2, <2>8, <3>1 DEF ShardsTypeOK
  <2> QED BY <1>9, <1>10, <1>11, <1>12, <2>10, <2>11 DEF ShardsInv
<1> QED BY <1>13, <1>14

LEMMA ReadObjectPackage ==
  ASSUME ShardsTypeOK, ShardsInv, ReadObject, UNCHANGED restore
  PROVE  ShardsTypeOK' /\ ShardsInv'
<1>1. /\ stage = "found" /\ next <= Len(blobs) /\ present' = present /\ objects' = objects
      /\ text' = text /\ media' = media /\ segment' = segment /\ index' = index
      /\ blobs' = blobs /\ dumped' = dumped /\ unwritten' = unwritten /\ found' = found
      /\ stage' \in {"found", "refused"}
  BY DEF ReadObject, restore, Refuse, reader
<1>2. /\ media \in Writers(Media) /\ LogOK(media) /\ next \in Nat \ {0} /\ Len(blobs) \in Nat
      /\ fetched \in [Media -> Seq(Media)] /\ DOMAIN blobs = 1..Len(blobs)
  BY LogTypes DEF ShardsTypeOK, ShardsInv
<1>3. next \in DOMAIN blobs BY <1>1, <1>2
<1>4. /\ Len(blobs) = Len(media.log)
      /\ blobs[next] = [media |-> media.log[next].rec, file |-> media.log[next].file,
                        off |-> media.log[next].off, len |-> Size[media.log[next].rec]]
      /\ \A i, j \in DOMAIN blobs : blobs[i].media = blobs[j].media => i = j
  BY <1>3 DEF ShardsInv, BlobsOK
<1>5. next \in DOMAIN media.log
  <2>1. media.log \in Seq(Placed(Media)) BY LogTypes
  <2> QED BY <2>1, <1>2, <1>3, <1>4
<1>6. PICK id \in Media : id = media.log[next].rec BY <1>5, LogTypes
<1>7. PICK blob : blob = blobs[next] OBVIOUS
<1>8. media.log[next].file = blob.file /\ media.log[next].off = blob.off /\ blob.len = Size[id]
      /\ blob.media = id
  BY <1>4, <1>6, <1>7
<1>9. blob.len \in Nat /\ next <= next BY <1>2, <1>8, RecordsHaveSize, ShardsOK
<1>10. End(media.log[next]) = blob.off + blob.len BY <1>6, <1>8 DEF End
<1>11. /\ \A fill \in Fill(media, blob) : fill.first = next /\ fill.last = next
       /\ Fill(media, blob) = {} => blob.len > MaxSegment
  <2>1. PICK i \in DOMAIN media.log, j \in DOMAIN media.log : i = next /\ j = next BY <1>5
  <2>2. /\ i <= j /\ media.log[i].file = blob.file /\ media.log[i].off = blob.off
        /\ media.log[j].file = blob.file /\ End(media.log[j]) = blob.off + blob.len
    BY <2>1, <1>8, <1>9, <1>10
  <2>3. /\ \A fill \in Fill(media, blob) : fill.first = i /\ fill.last = j
        /\ Fill(media, blob) = {} => blob.len > MaxSegment
    BY <2>2, <1>2, <1>9, RecordsHaveSize, FillFacts
  <2> QED BY <2>1, <2>3
<1>12. WrittenOK' BY <1>1 DEF ShardsInv, WrittenOK
<1>13. LogOK(text)' /\ LogOK(media)' /\ TilesOK' BY <1>1 DEF ShardsInv, TilesOK
<1>14. BlobsOK' BY <1>1 DEF ShardsInv, BlobsOK
<1>15. ObjectsOK' BY <1>1 DEF ShardsInv, ObjectsOK
<1>16. CASE Fill(media, blob) = {}
  <2>1. stage' = "refused" /\ next' = next /\ fetched' = fetched
    BY <1>7, <1>16 DEF ReadObject, Refuse, reader
  <2>2. id \in present
    <3>1. \E n \in DOMAIN blobs : blobs[n].media = id BY <1>3, <1>7, <1>8
    <3> QED BY <1>1, <3>1 DEF ShardsInv, ObjectsOK
  <2>3. Oversize' BY <1>1, <1>8, <1>11, <1>16, <2>2 DEF Oversize
  <2>4. ReadOK' BY <2>1, <2>3 DEF ReadOK
  <2>5. ShardsTypeOK' BY <1>1, <2>1 DEF ShardsTypeOK
  <2> QED BY <1>12, <1>13, <1>14, <1>15, <2>4, <2>5 DEF ShardsInv
<1>17. CASE Fill(media, blob) # {}
  <2>1. PICK fill \in Fill(media, blob) :
          fetched' = [fetched EXCEPT ![id] = fetched[id] \o Contents(media, fill)]
    BY <1>7, <1>8, <1>17 DEF ReadObject
  <2>2. stage' = "found" /\ next' = next + 1 BY <1>1, <1>7, <1>17 DEF ReadObject
  <2>3. Contents(media, fill) = <<id>>
    <3>1. PICK c : c = Contents(media, fill) OBVIOUS
    <3>2. fill.first = next /\ fill.last = next BY <1>11
    <3>3. PICK i \in DOMAIN media.log, j \in DOMAIN media.log : i = next /\ j = next BY <1>5
    <3>9. i <= j /\ fill.first = i /\ fill.last = j BY <1>9, <3>2, <3>3
    <3>4. /\ Contents(media, fill) \in Seq(Media) /\ Len(Contents(media, fill)) = j + 1 - i
          /\ DOMAIN Contents(media, fill) = 1..(j + 1 - i)
          /\ \A k \in 1..(j + 1 - i) : Contents(media, fill)[k] = media.log[i + k - 1].rec
      BY <1>2, <3>9, ContentsFacts
    <3>5. j + 1 - i = 1 /\ i + 1 - 1 = next BY <1>2, <3>3
    <3>6. c \in Seq(Media) /\ Len(c) = 1 /\ c[1] = id BY <1>6, <3>1, <3>4, <3>5
    <3> QED BY <3>1, <3>6
  <2>4. \A x \in Media : fetched[x] = IF \E n \in 1..(next - 1) : blobs[n].media = x
                                      THEN <<x>> ELSE <<>>
    BY <1>1 DEF ShardsInv, ReadOK
  <2>5. ~\E n \in 1..(next - 1) : blobs[n].media = id
    <3>1. \A n \in 1..(next - 1) : n \in DOMAIN blobs /\ n # next BY <1>1, <1>2
    <3> QED BY <1>3, <1>4, <1>7, <1>8, <3>1
  <2>6. fetched[id] \o Contents(media, fill) = <<id>>
    <3>1. fetched[id] = <<>> BY <2>4, <2>5
    <3> QED BY <2>3, <3>1
  <2>7. ASSUME NEW x \in Media
        PROVE  fetched'[x] = IF \E n \in 1..next : blobs[n].media = x THEN <<x>> ELSE <<>>
    <3>1. CASE x = id
      <4>1. fetched'[x] = <<id>> BY <1>2, <2>1, <2>6, <3>1
      <4>2. next \in 1..next /\ blobs[next].media = x BY <1>2, <1>7, <1>8, <3>1
      <4> QED BY <3>1, <4>1, <4>2
    <3>2. CASE x # id
      <4>1. fetched'[x] = fetched[x] BY <1>2, <2>1, <3>2
      <4>2. (\E n \in 1..next : blobs[n].media = x) <=> \E n \in 1..(next - 1) : blobs[n].media = x
        <5>1. \A n \in 1..next : n \in 1..(next - 1) \/ n = next BY <1>2
        <5>2. \A n \in 1..(next - 1) : n \in 1..next BY <1>2
        <5> QED BY <1>7, <1>8, <3>2, <5>1, <5>2
      <4> QED BY <2>4, <4>1, <4>2
    <3> QED BY <3>1, <3>2
  <2>8. ReadOK'
    <3>1. next' - 1 = next /\ next' \in 1..(Len(blobs) + 1) BY <1>1, <1>2, <2>2
    <3>2. Says(found', text'.log, Len(text'.log)) BY <1>1 DEF ShardsInv, ReadOK
    <3> QED BY <1>1, <2>2, <2>7, <3>1, <3>2 DEF ReadOK
  <2>9. fetched' \in [Media -> Seq(Media)]
    <3>1. <<id>> \in Seq(Media) OBVIOUS
    <3> QED BY <1>2, <2>1, <2>6, <3>1
  <2>10. next' \in Nat \ {0} BY <1>2, <2>2
  <2>11. ShardsTypeOK' BY <1>1, <2>2, <2>9, <2>10 DEF ShardsTypeOK
  <2> QED BY <1>12, <1>13, <1>14, <1>15, <2>8, <2>11 DEF ShardsInv
<1> QED BY <1>16, <1>17

LEMMA RowsReadPackage ==
  ASSUME ShardsTypeOK, ShardsInv, RowsRead, UNCHANGED restore
  PROVE  ShardsTypeOK' /\ ShardsInv'
<1>1. /\ stage \in {"written", "found"} /\ next' = 1 /\ present' = present /\ objects' = objects
      /\ stage' \in {"found", "read"} /\ text' = text /\ media' = media /\ segment' = segment
      /\ index' = index /\ blobs' = blobs /\ dumped' = dumped /\ unwritten' = unwritten
      /\ found' = found /\ fetched' = fetched
  BY DEF RowsRead, restore
<1>2. ShardsTypeOK' BY <1>1 DEF ShardsTypeOK
<1>3. WrittenOK' BY <1>1 DEF ShardsInv, WrittenOK
<1>4. LogOK(text)' /\ LogOK(media)' /\ TilesOK' BY <1>1 DEF ShardsInv, TilesOK
<1>5. BlobsOK' BY <1>1 DEF ShardsInv, BlobsOK
<1>6. ObjectsOK' BY <1>1 DEF ShardsInv, ObjectsOK
<1>7. Len(blobs) \in Nat /\ Len(index) \in Nat /\ DOMAIN blobs = 1..Len(blobs) BY DEF ShardsTypeOK
<1>8. ReadOK'
  <2>1. CASE stage = "written"
    <3>1. stage' = "found" /\ next > Len(index) BY <2>1 DEF RowsRead
    <3>2. next \in 1..(Len(index) + 1) /\ Says(found, text.log, Upto(index, next - 1))
          /\ fetched = [id \in Media |-> <<>>]
      BY <2>1 DEF ShardsInv, ReadOK
    <3>3. next - 1 = Len(index) BY <1>7, <3>1, <3>2
    <3>4. Upto(index, Len(index)) = Len(text.log) BY <2>1 DEF ShardsInv, WrittenOK, TilesOK, Tiles
    <3>5. ~\E n \in 1..(1 - 1) : TRUE OBVIOUS
    <3>6. 1 \in 1..(Len(blobs) + 1) BY <1>7
    <3>7. \A id \in Media : fetched[id] = <<>> BY <3>2
    <3> QED BY <1>1, <3>1, <3>2, <3>3, <3>4, <3>5, <3>6, <3>7 DEF ReadOK
  <2>2. CASE stage = "found"
    <3>1. stage' = "read" /\ next > Len(blobs) BY <2>2 DEF RowsRead
    <3>2. /\ next \in 1..(Len(blobs) + 1) /\ Says(found, text.log, Len(text.log))
          /\ \A id \in Media : fetched[id] = IF \E n \in 1..(next - 1) : blobs[n].media = id
                                             THEN <<id>> ELSE <<>>
      BY <2>2 DEF ShardsInv, ReadOK
    <3>3. 1..(next - 1) = DOMAIN blobs BY <1>7, <3>1, <3>2
    <3>4. \A id \in Media : id \in present <=> \E n \in DOMAIN blobs : blobs[n].media = id
      BY <2>2 DEF ShardsInv, ObjectsOK
    <3>6. \A id \in Media : (\E n \in 1..(next - 1) : blobs[n].media = id) <=> id \in present
      BY <3>3, <3>4
    <3>5. \A id \in Media : fetched[id] = IF id \in present THEN <<id>> ELSE <<>>
      BY <3>2, <3>6
    <3> QED BY <1>1, <3>1, <3>2, <3>5 DEF ReadOK
  <2> QED BY <1>1, <2>1, <2>2
<1> QED BY <1>2, <1>3, <1>4, <1>5, <1>6, <1>8 DEF ShardsInv

-----------------------------------------------------------------------------
(* The dump's steps.                                                       *)

RestTypeOK ==
  /\ loading \in {"idle", "dumping", "dumped"} /\ left \in SUBSET Talker
  /\ dumped \in Seq(Rows) /\ unwritten \in SUBSET (DOMAIN dumped) /\ owed \in SUBSET Rows

SnapshotInv == RestTypeOK /\ DumpOrderOK /\ DistinctOK /\ OwedOK

LEMMA PiecesOfDumpInv ==
  DumpInv <=> PagesInv /\ ShardsTypeOK /\ ShardsInv /\ SnapshotInv
BY DEF DumpInv, DumpTypeOK, PagesInv, RestTypeOK, SnapshotInv

LEMMA PiecesMakeDumpInv ==
  ASSUME PagesInv', ShardsTypeOK', ShardsInv', SnapshotInv'
  PROVE  DumpInv'
<1>1. PagesTypeOK' BY DEF PagesInv
<1>2. DumpTypeOK' BY <1>1 DEF DumpTypeOK, SnapshotInv, RestTypeOK
<1> QED BY <1>2 DEF DumpInv, SnapshotInv

LEMMA DumpReads == Dump \in Reader /\ Dump \in Dumper /\ Dump \notin Client
BY DumpOK, PagesOK DEF Reader

(* A step of the package, or of a reader that is not the dump's.           *)
LEMMA SnapshotKept ==
  ASSUME SnapshotInv, UNCHANGED <<loading, left, dumped, owed>>, reading'[Dump] = reading[Dump],
         unwritten' \subseteq unwritten,
         stage' = stage \/ (stage # "none" /\ stage' # "none")
  PROVE  SnapshotInv'
<1>1. RestTypeOK' BY DEF SnapshotInv, RestTypeOK
<1>2. DumpOrderOK' BY DEF SnapshotInv, DumpOrderOK
<1>3. DistinctOK' BY DEF SnapshotInv, DistinctOK
<1>4. OwedOK' BY DEF SnapshotInv, OwedOK
<1> QED BY <1>1, <1>2, <1>3, <1>4 DEF SnapshotInv

LEMMA SelectInv ==
  ASSUME DumpInv, Select
  PROVE  DumpInv'
<1>0. PagesInv /\ ShardsTypeOK /\ ShardsInv /\ SnapshotInv BY PiecesOfDumpInv
<1>1. /\ loading = "idle" /\ stage = "none" /\ loading' = "dumping" /\ left' \in SUBSET Talker
      /\ UNCHANGED <<pages, package, dumped, unwritten, owed>>
  BY DEF Select
<1>2. PagesInv'
  <2>1. PagesTypeOK' BY <1>0, <1>1 DEF PagesInv, PagesTypeOK, pages
  <2>2. ASSUME NEW r \in Reader PROVE GotOK(r)' /\ CursorOK(r)' /\ SteadyOK(r)'
    BY <1>0, <1>1, OtherReader DEF pages
  <2> QED BY <2>1, <2>2 DEF PagesInv
<1>3. ShardsTypeOK' /\ ShardsInv' BY <1>0, <1>1, PackageKept
<1>4. dumped = <<>> /\ reading[Dump] = Nil BY <1>0, <1>1 DEF SnapshotInv, DumpOrderOK
<1>5. SnapshotInv'
  <2>1. RestTypeOK' BY <1>0, <1>1 DEF SnapshotInv, RestTypeOK
  <2>2. stage' = stage /\ reading' = reading BY <1>1 DEF package, pages
  <2>3. Nil \notin left' BY <1>1, PagesOK
  <2>4. DumpOrderOK' BY <1>0, <1>1, <1>4, <2>2, <2>3 DEF SnapshotInv, DumpOrderOK
  <2>5. DistinctOK' BY <1>1, <1>4 DEF DistinctOK
  <2>6. OwedOK' BY <1>0, <1>1 DEF SnapshotInv, OwedOK
  <2> QED BY <2>1, <2>4, <2>5, <2>6 DEF SnapshotInv
<1> QED BY <1>2, <1>3, <1>5, PiecesMakeDumpInv

LEMMA NextTalkerInv ==
  ASSUME DumpInv, NextTalker
  PROVE  DumpInv'
<1>0. PagesInv /\ ShardsTypeOK /\ ShardsInv /\ SnapshotInv BY PiecesOfDumpInv
<1>1. PICK t \in left : Open(Dump, t) /\ left' = left \ {t} BY DEF NextTalker
<1>2. /\ loading = "dumping" /\ UNCHANGED <<package, loading, dumped, unwritten, owed>>
      /\ t \in Talker
  BY <1>0 DEF NextTalker, SnapshotInv, RestTypeOK
<1>3. stage = "none" /\ stage' = stage
  BY <1>0, <1>2 DEF SnapshotInv, DumpOrderOK, package
<1>4. PagesInv' BY <1>0, <1>1, <1>2, DumpReads, OpenInv
<1>5. ShardsTypeOK' /\ ShardsInv' BY <1>0, <1>2, <1>3, PackageKept
<1>6. reading'[Dump] = t BY <1>0, <1>1, DumpReads DEF Open, PagesInv, PagesTypeOK
<1>7. SnapshotInv'
  <2>1. RestTypeOK' BY <1>0, <1>1, <1>2 DEF SnapshotInv, RestTypeOK
  <2>2. DumpOrderOK' BY <1>0, <1>1, <1>2, <1>3, <1>6 DEF SnapshotInv, DumpOrderOK
  <2>3. DistinctOK' BY <1>0, <1>1, <1>2, <1>6 DEF SnapshotInv, DistinctOK
  <2>4. OwedOK' BY <1>0, <1>2 DEF SnapshotInv, OwedOK
  <2> QED BY <2>1, <2>2, <2>3, <2>4 DEF SnapshotInv
<1> QED BY <1>4, <1>5, <1>7, PiecesMakeDumpInv

LEMMA TakeDumpInv ==
  ASSUME DumpInv, TakeDump
  PROVE  DumpInv'
<1>0. PagesInv /\ ShardsTypeOK /\ ShardsInv /\ SnapshotInv BY PiecesOfDumpInv
<1>1. /\ reading[Dump] # Nil /\ ~more[Dump] /\ Leave(Dump)
      /\ dumped' = dumped \o Reverse(got[Dump])
      /\ owed' = owed \cup {row \in Stored(reading[Dump]) : row.id \in steady[Dump]}
      /\ UNCHANGED <<package, loading, left, unwritten>>
  BY DEF TakeDump
<1>2. loading = "dumping" /\ stage = "none" /\ stage' = stage /\ unwritten = {}
  BY <1>0, <1>1 DEF SnapshotInv, DumpOrderOK, package
<1>3. PagesInv' BY <1>0, <1>1, DumpReads, LeaveInv
<1>4. ShardsTypeOK' /\ ShardsInv' BY <1>0, <1>1, <1>2, PackageKept
<1>5. reading'[Dump] = Nil BY <1>0, <1>1, DumpReads DEF Leave, PagesInv, PagesTypeOK
<1>6. PICK t \in Talker : t = reading[Dump] BY <1>0, <1>1, DumpReads DEF PagesInv, PagesTypeOK
<1>7. PICK g \in Seq(Rows) : g = got[Dump] BY <1>0, DumpReads DEF PagesInv, PagesTypeOK
<1>8. PICK back \in Seq(Rows) :
        /\ back = Reverse(g) /\ Len(back) = Len(g) /\ DOMAIN back = 1..Len(g)
        /\ \A i \in 1..Len(g) : back[i] = g[Len(g) - i + 1] /\ Len(g) - i + 1 \in DOMAIN g
  <2>1. Len(g) \in Nat /\ DOMAIN g = 1..Len(g) BY <1>7
  <2>2. \A i \in 1..Len(g) : Len(g) - i + 1 \in DOMAIN g BY <2>1
  <2>3. Reverse(g) = [i \in 1..Len(g) |-> g[Len(g) - i + 1]] BY DEF Reverse
  <2>4. Reverse(g) \in [1..Len(g) -> Rows] BY <2>2, <2>3
  <2> QED BY <2>1, <2>2, <2>3, <2>4
<1>9. GotOK(Dump) /\ SteadyOK(Dump) BY <1>0, DumpReads DEF PagesInv
<1>10. /\ \A i, j \in DOMAIN g : i < j => Older(g[j], g[i])
       /\ \A i \in DOMAIN g : TalkerOf[g[i].id] = t
  BY <1>6, <1>7, <1>9 DEF GotOK
<1>11. dumped \in Seq(Rows) /\ Len(dumped) \in Nat BY <1>0 DEF SnapshotInv, RestTypeOK
<1>12. /\ dumped' \in Seq(Rows) /\ DOMAIN dumped' = 1..(Len(dumped) + Len(back))
       /\ \A i \in DOMAIN dumped : dumped'[i] = dumped[i] /\ i \in DOMAIN dumped'
       /\ \A k \in DOMAIN back : /\ dumped'[Len(dumped) + k] = back[k]
                                 /\ Len(dumped) + k \in DOMAIN dumped'
  <2>1. dumped' = dumped \o back BY <1>1, <1>7, <1>8
  <2>2. Len(dumped') = Len(dumped) + Len(back) /\ dumped' \in Seq(Rows)
    <3>1. dumped \in Seq(Rows) /\ back \in Seq(Rows) BY <1>8, <1>11
    <3>2. Len(dumped \o back) = Len(dumped) + Len(back) /\ dumped \o back \in Seq(Rows) BY <3>1
    <3> QED BY <2>1, <3>2
  <2>3. DOMAIN dumped' = 1..(Len(dumped) + Len(back)) BY <2>2
  <2>4. Len(back) \in Nat /\ DOMAIN back = 1..Len(back) /\ DOMAIN dumped = 1..Len(dumped)
    BY <1>8, <1>11
  <2>5. ASSUME NEW i \in DOMAIN dumped PROVE dumped'[i] = dumped[i] /\ i \in DOMAIN dumped'
    BY <1>8, <1>11, <2>1, <2>3, <2>4
  <2>6. ASSUME NEW k \in DOMAIN back
        PROVE  dumped'[Len(dumped) + k] = back[k] /\ Len(dumped) + k \in DOMAIN dumped'
    BY <1>8, <1>11, <2>1, <2>3, <2>4
  <2> QED BY <2>2, <2>3, <2>5, <2>6
<1>13. ASSUME NEW i \in DOMAIN dumped', i \notin DOMAIN dumped
       PROVE  \E k \in DOMAIN g : /\ i = Len(dumped) + (Len(g) - k + 1) /\ dumped'[i] = g[k]
  <2>0. Len(g) \in Nat /\ DOMAIN g = 1..Len(g) /\ DOMAIN dumped = 1..Len(dumped) /\ i \in Nat
    BY <1>7, <1>11, <1>12
  <2>1. i - Len(dumped) \in 1..Len(g) BY <1>8, <1>11, <1>12, <1>13, <2>0
  <2>2. dumped'[i] = back[i - Len(dumped)] BY <1>8, <1>11, <1>12, <2>1
  <2>3. PICK k \in DOMAIN g : k = Len(g) - (i - Len(dumped)) + 1 BY <1>8, <2>0, <2>1
  <2>4. dumped'[i] = g[k] BY <1>8, <2>1, <2>2, <2>3
  <2>5. i = Len(dumped) + (Len(g) - k + 1) BY <1>11, <2>0, <2>3
  <2> QED BY <2>4, <2>5
<1>14. ASSUME NEW k \in DOMAIN g PROVE g[k] \in Range(dumped')
  <2>1. PICK i \in 1..Len(g) : i = Len(g) - k + 1 /\ Len(g) - i + 1 = k BY <1>7
  <2>2. dumped'[Len(dumped) + i] = g[k] /\ Len(dumped) + i \in DOMAIN dumped' BY <1>8, <1>12, <2>1
  <2> QED BY <2>2 DEF Range
<1>15. DistinctOK'
  <2>1. DistinctOK /\ t \notin left BY <1>0, <1>6 DEF SnapshotInv, DumpOrderOK
  <2>2. \A i \in DOMAIN dumped : /\ TalkerOf[dumped[i].id] \notin left
                                 /\ TalkerOf[dumped[i].id] # t /\ TalkerOf[dumped[i].id] # Nil
    <3>1. \A i \in DOMAIN dumped : TalkerOf[dumped[i].id] \in Talker
      BY <1>11, RowFacts
    <3> QED BY <2>1, <1>6, <3>1, PagesOK DEF DistinctOK
  <2>3. \A i \in DOMAIN dumped' : i \notin DOMAIN dumped => TalkerOf[dumped'[i].id] = t
    BY <1>10, <1>13
  <2>4. t # Nil BY PagesOK
  <2>5. \A i \in DOMAIN dumped' : /\ TalkerOf[dumped'[i].id] \notin left
                                  /\ TalkerOf[dumped'[i].id] # Nil
    BY <1>12, <2>1, <2>2, <2>3, <2>4
  <2>6. ASSUME NEW i \in DOMAIN dumped', NEW j \in DOMAIN dumped', dumped'[i] = dumped'[j]
        PROVE  i = j
    <3>1. CASE i \in DOMAIN dumped /\ j \in DOMAIN dumped
      BY <3>1, <2>1, <2>6, <1>12 DEF DistinctOK
    <3>2. CASE i \in DOMAIN dumped /\ j \notin DOMAIN dumped
      <4>1. TalkerOf[dumped'[j].id] = t BY <2>3, <3>2
      <4>2. dumped'[i] = dumped[i] /\ TalkerOf[dumped[i].id] # t BY <1>12, <2>2, <3>2
      <4> QED BY <2>6, <4>1, <4>2
    <3>3. CASE i \notin DOMAIN dumped /\ j \in DOMAIN dumped
      <4>1. TalkerOf[dumped'[i].id] = t BY <2>3, <3>3
      <4>2. dumped'[j] = dumped[j] /\ TalkerOf[dumped[j].id] # t BY <1>12, <2>2, <3>3
      <4> QED BY <2>6, <4>1, <4>2
    <3>4. CASE i \notin DOMAIN dumped /\ j \notin DOMAIN dumped
      <4>1. PICK k \in DOMAIN g : i = Len(dumped) + (Len(g) - k + 1) /\ dumped'[i] = g[k]
        BY <1>13, <3>4
      <4>2. PICK m \in DOMAIN g : j = Len(dumped) + (Len(g) - m + 1) /\ dumped'[j] = g[m]
        BY <1>13, <3>4
      <4>3. g[k] \in Rows /\ g[k] = g[m] /\ ~Older(g[k], g[k]) BY <4>1, <4>2, <2>6, OlderOrder
      <4>4. ~(k < m) /\ ~(m < k) BY <1>10, <4>3
      <4>5. k \in Nat /\ m \in Nat OBVIOUS
      <4>6. k = m BY <4>4, <4>5
      <4> QED BY <4>1, <4>2, <4>6
    <3> QED BY <3>1, <3>2, <3>3, <3>4
  <2> QED BY <1>1, <1>5, <2>5, <2>6 DEF DistinctOK
<1>16. OwedOK' /\ owed' \subseteq Rows
  <2>1. ASSUME NEW row \in owed PROVE row \in Range(dumped') /\ row \in Rows
    <3>1. row \in Range(dumped) /\ row \in Rows BY <1>0 DEF SnapshotInv, OwedOK, RestTypeOK
    <3>2. PICK i \in DOMAIN dumped : dumped[i] = row BY <3>1 DEF Range
    <3> QED BY <1>12, <3>1, <3>2 DEF Range
  <2>2. ASSUME NEW row \in Stored(t), row.id \in steady[Dump]
        PROVE  row \in Range(dumped') /\ row \in Rows
    <3>1. row \in Rows /\ row = RowOf(row.id) BY <1>0, StoredFacts DEF PagesInv
    <3>2. Paging(Dump) BY DumpReads DEF Paging
    <3>3. row \in Range(g) BY <1>1, <1>7, <1>9, <2>2, <3>1, <3>2 DEF SteadyOK
    <3>4. PICK k \in DOMAIN g : g[k] = row BY <3>3 DEF Range
    <3> QED BY <1>14, <3>1, <3>4
  <2> QED BY <1>1, <1>6, <2>1, <2>2 DEF OwedOK
<1>17. RestTypeOK' BY <1>0, <1>1, <1>2, <1>12, <1>16 DEF SnapshotInv, RestTypeOK
<1>18. DumpOrderOK'
  <2>1. Nil \notin left BY <1>0, PagesOK DEF SnapshotInv, RestTypeOK
  <2> QED BY <1>0, <1>1, <1>2, <1>5, <2>1 DEF SnapshotInv, DumpOrderOK
<1>19. SnapshotInv' BY <1>15, <1>16, <1>17, <1>18 DEF SnapshotInv
<1> QED BY <1>3, <1>4, <1>19, PiecesMakeDumpInv

LEMMA LoadedInv ==
  ASSUME DumpInv, Loaded
  PROVE  DumpInv'
<1>0. PagesInv /\ ShardsTypeOK /\ ShardsInv /\ SnapshotInv BY PiecesOfDumpInv
<1>1. /\ loading = "dumping" /\ left = {} /\ reading[Dump] = Nil /\ loading' = "dumped"
      /\ UNCHANGED <<pages, package, left, dumped, unwritten, owed>>
  BY DEF Loaded
<1>2. stage = "none" /\ stage' = stage /\ reading' = reading
  BY <1>0, <1>1 DEF SnapshotInv, DumpOrderOK, package, pages
<1>3. PagesInv'
  <2>1. PagesTypeOK' BY <1>0, <1>1 DEF PagesInv, PagesTypeOK, pages
  <2>2. ASSUME NEW r \in Reader PROVE GotOK(r)' /\ CursorOK(r)' /\ SteadyOK(r)'
    BY <1>0, <1>1, OtherReader DEF pages
  <2> QED BY <2>1, <2>2 DEF PagesInv
<1>4. ShardsTypeOK' /\ ShardsInv' BY <1>0, <1>1, <1>2, PackageKept
<1>5. SnapshotInv'
  <2>1. RestTypeOK' BY <1>0, <1>1 DEF SnapshotInv, RestTypeOK
  <2>2. DumpOrderOK' BY <1>0, <1>1, <1>2 DEF SnapshotInv, DumpOrderOK
  <2>3. DistinctOK' BY <1>0, <1>1, <1>2 DEF SnapshotInv, DistinctOK
  <2>4. OwedOK' BY <1>0, <1>1 DEF SnapshotInv, OwedOK
  <2> QED BY <2>1, <2>2, <2>3, <2>4 DEF SnapshotInv
<1> QED BY <1>3, <1>4, <1>5, PiecesMakeDumpInv

LEMMA PageStepInv ==
  ASSUME DumpInv, PageStep
  PROVE  DumpInv'
<1>0. PagesInv /\ ShardsTypeOK /\ ShardsInv /\ SnapshotInv BY PiecesOfDumpInv
<1>1. stage = "none" /\ PagesNext /\ UNCHANGED <<package, restore>> BY DEF PageStep
<1>2. PagesInv' BY <1>0, <1>1, PagesNextInv
<1>3. ShardsTypeOK' /\ ShardsInv' BY <1>0, <1>1, PackageKept
<1>4. reading'[Dump] = reading[Dump]
  <2>1. ASSUME NEW r \in Client, NEW t \in Talker, Open(r, t) PROVE reading'[Dump] = reading[Dump]
    BY <1>0, <2>1, DumpReads DEF Open, PagesInv, PagesTypeOK
  <2>2. ASSUME NEW r \in Client, Leave(r) PROVE reading'[Dump] = reading[Dump]
    BY <1>0, <2>2, DumpReads DEF Leave, PagesInv, PagesTypeOK
  <2>3. ASSUME NEW r \in Client, ServePage(r) PROVE reading' = reading
    BY <2>3 DEF ServePage, Receive
  <2>4. ASSUME NEW r \in Dumper, DumpPage(r) PROVE reading' = reading
    BY <2>4 DEF DumpPage, Receive
  <2>5. ASSUME NEW m \in Message, NEW at \in PlacesOf[m], PutMessage(m, at) PROVE reading' = reading
    BY <2>5 DEF PutMessage
  <2> QED BY <1>1, <2>1, <2>2, <2>3, <2>4, <2>5 DEF PagesNext
<1>5. /\ UNCHANGED <<loading, left, dumped, owed>> /\ unwritten' \subseteq unwritten
      /\ stage' = stage \/ (stage # "none" /\ stage' # "none")
  <2>1. stage' = stage BY <1>1 DEF package
  <2>2. UNCHANGED <<loading, left, dumped, owed>> /\ unwritten' = unwritten BY <1>1 DEF restore
  <2> QED BY <2>1, <2>2
<1>6. SnapshotInv' BY <1>0, <1>4, <1>5, SnapshotKept
<1> QED BY <1>2, <1>3, <1>6, PiecesMakeDumpInv

LEMMA PagesKept ==
  ASSUME PagesInv, UNCHANGED pages
  PROVE  PagesInv' /\ reading' = reading
<1>1. PagesTypeOK' BY DEF PagesInv, PagesTypeOK, pages
<1>2. ASSUME NEW r \in Reader PROVE GotOK(r)' /\ CursorOK(r)' /\ SteadyOK(r)'
  BY OtherReader DEF pages
<1> QED BY <1>1, <1>2 DEF PagesInv, pages

LEMMA StartWritingInv ==
  ASSUME DumpInv, StartWriting
  PROVE  DumpInv'
<1>0. PagesInv /\ ShardsTypeOK /\ ShardsInv /\ SnapshotInv BY PiecesOfDumpInv
<1>1. /\ stage' = "text" /\ loading' = "idle" /\ unwritten' = DOMAIN dumped
      /\ UNCHANGED <<pages, left, dumped, owed>>
      /\ loading = "dumped"
  BY DEF StartWriting, OpenText
<1>2. PagesInv' /\ reading' = reading BY <1>0, <1>1, PagesKept
<1>3. ShardsTypeOK' /\ ShardsInv' BY <1>0, StartWritingPackage
<1>4. SnapshotInv'
  <2>1. RestTypeOK' BY <1>0, <1>1 DEF SnapshotInv, RestTypeOK
  <2>2. DumpOrderOK' BY <1>0, <1>1, <1>2 DEF SnapshotInv, DumpOrderOK
  <2>3. DistinctOK' BY <1>0, <1>1, <1>2 DEF SnapshotInv, DistinctOK
  <2>4. OwedOK' BY <1>0, <1>1 DEF SnapshotInv, OwedOK
  <2> QED BY <2>1, <2>2, <2>3, <2>4 DEF SnapshotInv
<1> QED BY <1>2, <1>3, <1>4, PiecesMakeDumpInv

LEMMA WriteStepInv ==
  ASSUME DumpInv, WriteStep
  PROVE  DumpInv'
<1>0. PagesInv /\ ShardsTypeOK /\ ShardsInv /\ SnapshotInv BY PiecesOfDumpInv
<1>1. /\ UNCHANGED <<pages, loading, left, dumped, owed>> /\ unwritten' \subseteq unwritten
  BY DEF WriteStep, WriteMessage, restore
<1>2. stage # "none" /\ stage' # "none"
  BY DEF WriteStep, WriteMessage, WriteRecord, WriteTalker, Flush, TextWritten, OpenMedia,
         WriteMedia, CommitIndex, Abandon, ReadBack, ReadSegment, ReadObject, RowsRead, Refuse
<1>3. PagesInv' /\ reading' = reading BY <1>0, <1>1, PagesKept
<1>4. SnapshotInv' BY <1>0, <1>1, <1>2, <1>3, SnapshotKept
<1>5. ShardsTypeOK' /\ ShardsInv'
  <2>1. CASE WriteMessage
    BY <1>0, <2>1, WriteMessagePackage DEF SnapshotInv, RestTypeOK
  <2>2. CASE WriteTalker /\ UNCHANGED restore BY <1>0, <2>2, FlushPackage DEF WriteTalker
  <2>3. CASE TextWritten /\ UNCHANGED restore BY <1>0, <2>3, OpenMediaPackage
  <2>4. CASE WriteMedia /\ UNCHANGED restore BY <1>0, <2>4, WriteMediaPackage
  <2>5. CASE CommitIndex /\ UNCHANGED restore BY <1>0, <2>5, CommitIndexPackage
  <2>6. CASE Abandon BY <1>0, <2>6, AbandonPackage
  <2>7. CASE ReadSegment /\ UNCHANGED restore
    BY <1>0, <2>7, ReadSegmentPackage DEF SnapshotInv, RestTypeOK
  <2>8. CASE ReadObject /\ UNCHANGED restore BY <1>0, <2>8, ReadObjectPackage
  <2>9. CASE RowsRead /\ UNCHANGED restore BY <1>0, <2>9, RowsReadPackage
  <2> QED BY <2>1, <2>2, <2>3, <2>4, <2>5, <2>6, <2>7, <2>8, <2>9 DEF WriteStep, ReadBack
<1> QED BY <1>3, <1>4, <1>5, PiecesMakeDumpInv

LEMMA DumpInitInv == DumpInit => DumpInv
<1> SUFFICES ASSUME DumpInit PROVE DumpInv OBVIOUS
<1>1. /\ PagesInit /\ stage = "none" /\ present = {} /\ objects = {} /\ text = NewWriter
      /\ media = NewWriter /\ segment = Empty /\ index = <<>> /\ blobs = <<>> /\ next = 1
      /\ found = <<>> /\ fetched = [id \in Media |-> <<>>]
      /\ loading = "idle" /\ left = {} /\ dumped = <<>> /\ unwritten = {} /\ owed = {}
  BY DEF DumpInit, ShardsInit
<1>2. PagesInv BY <1>1, PagesInitInv
<1>3. NewWriter \in Writers(Rows) /\ NewWriter \in Writers(Media) /\ LogOK(NewWriter) BY NewLog
<1>4. ShardsTypeOK
  <2>1. <<>> \in Seq(Segments) /\ <<>> \in Seq(Rows) /\ <<>> \in Seq(Media)
        /\ <<>> \in Seq([media : Media, file : Nat, off : Nat, len : Nat \ {0}])
    OBVIOUS
  <2> QED BY <1>1, <1>3, <2>1 DEF ShardsTypeOK, Writers
<1>5. DOMAIN NewWriter.log = {} /\ Len(NewWriter.log) = 0 BY DEF NewWriter
<1>6. DOMAIN <<>> = {} /\ Len(<<>>) = 0 OBVIOUS
<1>7. ShardsInv
  <2>1. LogOK(text) /\ LogOK(media) BY <1>1, <1>3
  <2>2. TilesOK BY <1>1, <1>5, <1>6 DEF TilesOK, Tiles, Upto, Empty
  <2>3. WrittenOK BY <1>1 DEF WrittenOK
  <2>4. BlobsOK BY <1>1, <1>5, <1>6 DEF BlobsOK
  <2>5. ObjectsOK BY <1>1 DEF ObjectsOK
  <2>6. ReadOK BY <1>1 DEF ReadOK
  <2> QED BY <2>1, <2>2, <2>3, <2>4, <2>5, <2>6 DEF ShardsInv
<1>8. SnapshotInv
  <2>1. RestTypeOK BY <1>1 DEF RestTypeOK
  <2>2. reading[Dump] = Nil BY <1>1, DumpReads DEF PagesInit
  <2>3. DumpOrderOK BY <1>1, <2>2 DEF DumpOrderOK
  <2>4. DistinctOK /\ OwedOK BY <1>1, <1>6 DEF DistinctOK, OwedOK
  <2> QED BY <2>1, <2>3, <2>4 DEF SnapshotInv
<1> QED BY <1>2, <1>4, <1>7, <1>8, PiecesOfDumpInv

LEMMA DumpStepInv == DumpInv /\ [DumpNext]_dumpVars => DumpInv'
<1> SUFFICES ASSUME DumpInv, [DumpNext]_dumpVars PROVE DumpInv' OBVIOUS
<1>1. CASE Select BY <1>1, SelectInv
<1>2. CASE NextTalker BY <1>2, NextTalkerInv
<1>3. CASE TakeDump BY <1>3, TakeDumpInv
<1>4. CASE Loaded BY <1>4, LoadedInv
<1>5. CASE StartWriting BY <1>5, StartWritingInv
<1>6. CASE WriteStep BY <1>6, WriteStepInv
<1>7. CASE PageStep BY <1>7, PageStepInv
<1>8. CASE UNCHANGED dumpVars
  <2>0. PagesInv /\ ShardsTypeOK /\ ShardsInv /\ SnapshotInv BY PiecesOfDumpInv
  <2>1. UNCHANGED pages /\ UNCHANGED package /\ UNCHANGED restore BY <1>8 DEF dumpVars
  <2>2. PagesInv' /\ reading'[Dump] = reading[Dump] BY <2>0, <2>1, PagesKept
  <2>3. ShardsTypeOK' /\ ShardsInv' BY <2>0, <2>1, PackageKept DEF restore
  <2>4. /\ UNCHANGED <<loading, left, dumped, owed>> /\ unwritten' \subseteq unwritten
        /\ stage' = stage \/ (stage # "none" /\ stage' # "none")
    <3>1. stage' = stage BY <2>1 DEF package
    <3>2. UNCHANGED <<loading, left, dumped, owed>> /\ unwritten' = unwritten BY <2>1 DEF restore
    <3> QED BY <3>1, <3>2
  <2>5. SnapshotInv' BY <2>0, <2>2, <2>4, SnapshotKept
  <2> QED BY <2>2, <2>3, <2>5, PiecesMakeDumpInv
<1> QED BY <1>1, <1>2, <1>3, <1>4, <1>5, <1>6, <1>7, <1>8 DEF DumpNext

-----------------------------------------------------------------------------
(* What was read back.                                                     *)

LEMMA ReadIsSorted ==
  ASSUME DumpInv, stage = "read"
  PROVE  /\ Range(found) = Range(dumped)
         /\ \A i, j \in DOMAIN found : i < j => Before(found[i], found[j])
         /\ \A i \in DOMAIN found : found[i] \in Rows
<1>0. ShardsTypeOK /\ WrittenOK /\ ReadOK BY DEF DumpInv, DumpTypeOK, ShardsInv
<1>1. /\ DOMAIN found = DOMAIN text.log
      /\ \A i \in DOMAIN found : found[i] = text.log[i].rec /\ found[i] \in Rows
  <2>1. found \in Seq(Rows) /\ text.log \in Seq(Placed(Rows)) BY <1>0, LogTypes DEF ShardsTypeOK
  <2>2. Len(found) = Len(text.log) /\ \A i \in 1..Len(text.log) : found[i] = text.log[i].rec
    BY <1>0 DEF ReadOK, Says
  <2> QED BY <2>1, <2>2
<1>2. /\ \A i, j \in DOMAIN text.log : i < j => Before(text.log[i].rec, text.log[j].rec)
      /\ \A i \in DOMAIN text.log : text.log[i].rec \in Range(dumped)
      /\ \A n \in DOMAIN dumped : \E i \in DOMAIN text.log : text.log[i].rec = dumped[n]
  BY <1>0 DEF WrittenOK
<1>3. Range(found) \subseteq Range(dumped) BY <1>1, <1>2 DEF Range
<1>4. Range(dumped) \subseteq Range(found) BY <1>1, <1>2 DEF Range
<1> QED BY <1>1, <1>2, <1>3, <1>4

LEMMA ReadIsWhole == DumpInv => RoundTrip
<1> SUFFICES ASSUME DumpInv PROVE RoundTrip OBVIOUS
<1>1. stage = "refused" => Oversize BY DEF DumpInv, ShardsInv, ReadOK
<1>2. stage = "read" => \A id \in Media : fetched[id] = IF id \in present THEN <<id>> ELSE <<>>
  BY DEF DumpInv, ShardsInv, ReadOK
<1> QED BY <1>1, <1>2, ReadIsSorted DEF RoundTrip

LEMMA OwedIsRead == DumpInv => Restored
<1> SUFFICES ASSUME DumpInv, stage = "read", NEW row \in owed
             PROVE  \E i \in DOMAIN found : \A j \in DOMAIN found : found[j] = row <=> j = i
  BY DEF Restored
<1>1. row \in Range(found)
  <2>1. row \in Range(dumped) BY DEF DumpInv, OwedOK
  <2> QED BY <2>1, ReadIsSorted
<1>2. PICK i \in DOMAIN found : found[i] = row BY <1>1 DEF Range
<1>3. found[i] \in Rows /\ ~Before(found[i], found[i]) BY ReadIsSorted, BeforeOrder
<1>4. ASSUME NEW j \in DOMAIN found, found[j] = row PROVE j = i
  <2>1. ~(i < j) /\ ~(j < i) BY <1>2, <1>3, <1>4, ReadIsSorted
  <2>2. i \in Nat /\ j \in Nat
    <3>1. found \in Seq(Rows) BY DEF DumpInv, DumpTypeOK, ShardsTypeOK
    <3> QED BY <3>1
  <2> QED BY <2>1, <2>2
<1> QED BY <1>2, <1>4

-----------------------------------------------------------------------------
(* Types of the dump, the shards and what is read back. *)
THEOREM DumpTypeCorrect == DumpSpec => []DumpTypeOK
<1>1. DumpInv => DumpTypeOK BY DEF DumpInv
<1> QED BY <1>1, DumpInitInv, DumpStepInv, PTL DEF DumpSpec

(* PagesComplete: whatever is stored between a reader's pages, it gets each  *)
(* message that stood still, newest first and none twice.                  *)
THEOREM PagesMissNothing == DumpSpec => []PagesComplete
<1>1. DumpInv => PagesComplete BY PagesAreComplete DEF DumpInv
<1> QED BY <1>1, DumpInitInv, DumpStepInv, PTL DEF DumpSpec

(* RoundTrip: what writing commits is read back, every record once and in   *)
(* order, for all sizes of records and shards; only what is longer than the *)
(* reader takes is refused.                                                *)
THEOREM PackagesReadBack == DumpSpec => []RoundTrip
BY ReadIsWhole, DumpInitInv, DumpStepInv, PTL DEF DumpSpec

(* Restored: from the table to what the session reads, no message that      *)
(* stood still while it was dumped is lost or doubled.                     *)
THEOREM WhatStoodStillIsRestored == DumpSpec => []Restored
BY OwedIsRead, DumpInitInv, DumpStepInv, PTL DEF DumpSpec
=============================================================================
