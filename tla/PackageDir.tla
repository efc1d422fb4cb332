----------------------------- MODULE PackageDir -----------------------------
(***************************************************************************)
(* The package directory of the sidecar session, Backup.db and its BAK_*   *)
(* shards: restore jobs write it (internal/adapter/backupfmt/writer.go),   *)
(* the user copies packages into it, and backup jobs wait until it looks   *)
(* settled and read it (internal/adapter/devicesession/sidecar.go,         *)
(* waitPackage and fingerprint; backupfmt/reader.go).                      *)
(*                                                                         *)
(* Nothing but the look of the directory coordinates them.  Write clears   *)
(* it, creates an empty database, fills the shards inside a transaction of *)
(* that database (SQLite's rollback journal is a file next to it) and      *)
(* commits last; Read takes the database's rows first and the shards they  *)
(* point into afterwards.                                                  *)
(*                                                                         *)
(* There is one such directory for all accounts: Resolver hands the same   *)
(* session to every job.  What a job has read it stamps with its account   *)
(* (transfer) and stores in that account's database (ingestSnapshot).      *)
(*                                                                         *)
(* The directory has one writer at a time.  The fingerprint changes with   *)
(* every write to a file; a copy under way writes between any two polls.   *)
(***************************************************************************)
EXTENDS Naturals

CONSTANTS Package,    \* contents a package can have
          Backup,     \* backup jobs waiting for a package
          OwnerOf,    \* the account each package is of
          AccountOf,  \* the account each backup job is for
          None, Blank, Partial, Mixed,  \* states of files, and of a snapshot
          StableFor,  \* polls without a change before the package is opened
          MaxWrites   \* bound: packages written or copied

ASSUME ConstantsOK ==
  /\ {None, Blank, Partial, Mixed} \cap Package = {}
  /\ DOMAIN OwnerOf = Package /\ DOMAIN AccountOf = Backup
  /\ StableFor \in Nat /\ MaxWrites \in Nat

VARIABLES
  db,       \* Backup.db: None, Blank (no committed rows) or a package's index
  shards,   \* the BAK_* files: None, Partial or a package's
  journal,  \* whether Backup.db-journal exists
  writer,   \* where the writer is
  target,   \* the package it writes
  writes,   \* how many writes have begun
  written,  \* history: the packages completely written
  phase,    \* each job: away, polling, reading, indexed, got, stored, failed, cancelled
  fresh,    \* whether its next look differs from its last
  age,      \* polls since its fingerprint last changed
  taken,    \* the index it has read, then its snapshot
  disturbed \* history: whether files changed while it was inside Read

files  == <<db, shards, journal>>
source == <<writer, target, writes, written>>
jobs   == <<phase, fresh, age, taken, disturbed>>
vars   == <<files, source, jobs>>

TypeOK ==
  /\ db \in Package \cup {None, Blank}
  /\ shards \in Package \cup {None, Partial}
  /\ journal \in BOOLEAN
  /\ writer \in {"idle", "clear", "cleared", "schema", "begin", "shards", "fill", "commit",
                 "undo", "undone", "copy", "copy db", "copy shards"}
  /\ target \in Package \cup {None}
  /\ writes \in 0..MaxWrites
  /\ written \subseteq Package
  /\ phase \in [Backup -> {"away", "polling", "reading", "indexed",
                           "got", "stored", "failed", "cancelled"}]
  /\ fresh \in [Backup -> BOOLEAN]
  /\ age \in [Backup -> 0..StableFor]
  /\ taken \in [Backup -> Package \cup {None, Mixed}]
  /\ disturbed \in [Backup -> BOOLEAN]

Init ==
  /\ db = None /\ shards = None /\ journal = FALSE
  /\ writer = "idle" /\ target = None /\ writes = 0 /\ written = {}
  /\ phase = [b \in Backup |-> "away"]
  /\ fresh = [b \in Backup |-> TRUE]
  /\ age = [b \in Backup |-> 0]
  /\ taken = [b \in Backup |-> None]
  /\ disturbed = [b \in Backup |-> FALSE]

Reading(b) == phase[b] \in {"reading", "indexed"}

Noticed ==
  /\ fresh' = [b \in Backup |-> TRUE]
  /\ disturbed' = [b \in Backup |-> disturbed[b] \/ Reading(b)]

(* The writer goes from one place to the next; the jobs will notice.       *)
Step(from, to) ==
  /\ writer = from
  /\ writer' = to
  /\ Noticed
  /\ UNCHANGED <<writes, phase, age, taken>>

Begin(p, place) ==
  /\ writer = "idle" /\ writes < MaxWrites
  /\ writer' = place
  /\ target' = p
  /\ writes' = writes + 1
  /\ Noticed
  /\ UNCHANGED <<written, files, phase, age, taken>>

-----------------------------------------------------------------------------
(* backupfmt.Write, from a restore job. *)

WriteBegin(p) == Begin(p, "clear")

(* clearPackageFiles, in the order of ReadDir: BAK_* before Backup.db.  It  *)
(* knows -wal and -shm but not -journal.                                    *)
ClearShards ==
  /\ Step("clear", "cleared") \/ Step("undo", "undone")
  /\ shards' = None
  /\ UNCHANGED <<db, journal, target, written>>

ClearIndex ==
  /\ \/ Step("cleared", "schema") /\ UNCHANGED target
     \/ Step("undone", "idle") /\ target' = None
  /\ db' = None
  /\ UNCHANGED <<shards, journal, written>>

(* The schema: SQLite drops a journal it finds beside an empty database. *)
CreateIndex ==
  /\ Step("schema", "begin")
  /\ db' = Blank
  /\ journal' = FALSE
  /\ UNCHANGED <<shards, target, written>>

(* The transaction and its first rows. *)
BeginTx ==
  /\ Step("begin", "shards")
  /\ journal' = TRUE
  /\ UNCHANGED <<db, shards, target, written>>

CreateShards ==
  /\ Step("shards", "fill")
  /\ shards' = Partial
  /\ UNCHANGED <<db, journal, target, written>>

(* Both shard writers are filled and closed. *)
FillShards ==
  /\ Step("fill", "commit")
  /\ shards' = target
  /\ UNCHANGED <<db, journal, target, written>>

Commit ==
  /\ Step("commit", "idle")
  /\ db' = target /\ journal' = FALSE
  /\ written' = written \cup {target}
  /\ target' = None
  /\ UNCHANGED shards

(* writePackage fails: the transaction is rolled back, the database closed, *)
(* and the directory cleared again.                                         *)
WriteFails ==
  /\ \E from \in {"schema", "begin", "shards", "fill", "commit"} : Step(from, "undo")
  /\ journal' = FALSE
  /\ UNCHANGED <<db, shards, target, written>>

-----------------------------------------------------------------------------
(* The user copies a package in, file by file, in either order. *)

CopyBegin(p) == Begin(p, "copy")

CopyIndex ==
  /\ Step("copy", "copy shards") \/ Step("copy db", "idle")
  /\ db' = target
  /\ written' = IF writer = "copy db" THEN written \cup {target} ELSE written
  /\ target' = IF writer = "copy db" THEN None ELSE target
  /\ UNCHANGED <<shards, journal>>

CopyShards ==
  /\ Step("copy", "copy db") \/ Step("copy shards", "idle")
  /\ shards' = target
  /\ written' = IF writer = "copy shards" THEN written \cup {target} ELSE written
  /\ target' = IF writer = "copy shards" THEN None ELSE target
  /\ UNCHANGED <<db, journal>>

Copying == writer \in {"copy", "copy db", "copy shards"}

-----------------------------------------------------------------------------
(* waitPackage and Read, in a backup job. *)

Wait(b) ==
  /\ phase[b] = "away"
  /\ phase' = [phase EXCEPT ![b] = "polling"]
  /\ fresh' = [fresh EXCEPT ![b] = TRUE]
  /\ age' = [age EXCEPT ![b] = 0]
  /\ disturbed' = [disturbed EXCEPT ![b] = FALSE]
  /\ UNCHANGED <<files, source, taken>>

(* fingerprint's verdict: an index, a shard, and no file that says busy. *)
Ready == db # None /\ shards # None /\ ~journal

(* Mutant: a package is opened as soon as it is there. *)
OpenAtOnce(b) ==
  /\ phase[b] = "polling" /\ Ready
  /\ phase' = [phase EXCEPT ![b] = "reading"]
  /\ UNCHANGED <<files, source, fresh, age, taken, disturbed>>

(* Mutant: the look is not remembered, so the next one always differs. *)
Forgetful(b) ==
  /\ phase[b] = "polling" /\ Ready
  /\ fresh' = [fresh EXCEPT ![b] = TRUE]
  /\ IF fresh[b]
     THEN age' = [age EXCEPT ![b] = 0] /\ UNCHANGED phase
     ELSE phase' = [phase EXCEPT ![b] = "reading"] /\ UNCHANGED age
  /\ UNCHANGED <<files, source, taken, disturbed>>

(* Mutant: the age is not reset by a look that differs. *)
Ageing(b) ==
  /\ phase[b] = "polling" /\ Ready
  /\ fresh' = [fresh EXCEPT ![b] = Copying]
  /\ IF fresh[b] \/ age[b] < StableFor
     THEN age' = [age EXCEPT ![b] = @ + 1] /\ UNCHANGED phase
     ELSE phase' = [phase EXCEPT ![b] = "reading"] /\ UNCHANGED age
  /\ UNCHANGED <<files, source, taken, disturbed>>

(* try: one look at the directory. *)
Poll(b) ==
  /\ phase[b] = "polling" /\ Ready
  /\ fresh' = [fresh EXCEPT ![b] = Copying]
  /\ IF fresh[b]
     THEN age' = [age EXCEPT ![b] = 0] /\ UNCHANGED phase
     ELSE IF age[b] < StableFor
     THEN age' = [age EXCEPT ![b] = @ + 1] /\ UNCHANGED phase
     ELSE phase' = [phase EXCEPT ![b] = "reading"] /\ UNCHANGED age
  /\ UNCHANGED <<files, source, taken, disturbed>>

Fail(b) == phase' = [phase EXCEPT ![b] = "failed"] /\ UNCHANGED taken

(* Read, the database: without committed rows of an interchange package it  *)
(* is refused, and the job fails.                                           *)
ReadIndex(b) ==
  /\ phase[b] = "reading"
  /\ IF db \in Package
     THEN /\ taken' = [taken EXCEPT ![b] = db]
          /\ phase' = [phase EXCEPT ![b] = "indexed"]
     ELSE Fail(b)
  /\ UNCHANGED <<files, source, fresh, age, disturbed>>

(* The database is locked by a commit: look again from the start. *)
ReadBusy(b) ==
  /\ phase[b] = "reading" /\ writer = "commit"
  /\ phase' = [phase EXCEPT ![b] = "polling"]
  /\ fresh' = [fresh EXCEPT ![b] = TRUE]
  /\ disturbed' = [disturbed EXCEPT ![b] = FALSE]
  /\ UNCHANGED <<files, source, age, taken>>

(* Read, the shards.  Bytes of another package, or not all there, usually  *)
(* fail to decode; if they do decode, the snapshot is a mixture.           *)
ReadShards(b) ==
  /\ phase[b] = "indexed"
  /\ \/ /\ shards = taken[b]
        /\ phase' = [phase EXCEPT ![b] = "got"]
        /\ UNCHANGED taken
     \/ /\ shards \notin {taken[b], None}
        /\ taken' = [taken EXCEPT ![b] = Mixed]
        /\ phase' = [phase EXCEPT ![b] = "got"]
     \/ shards # taken[b] /\ Fail(b)
  /\ UNCHANGED <<files, source, fresh, age, disturbed>>

(* The job's context is cancelled while it waits. *)
CancelWait(b) ==
  /\ phase[b] = "polling"
  /\ phase' = [phase EXCEPT ![b] = "cancelled"]
  /\ UNCHANGED <<files, source, fresh, age, taken, disturbed>>

-----------------------------------------------------------------------------
(* transfer and ingestSnapshot. *)

(* The chunks of a package say nothing of whose it is, so the snapshot made *)
(* of them carries the name of the job's account.                           *)
Stamp(b) == AccountOf[b]

(* organize: a snapshot of another account is refused. *)
Organize(b) ==
  /\ phase[b] = "got"
  /\ phase' = [phase EXCEPT ![b] = IF Stamp(b) = AccountOf[b] THEN "stored" ELSE "failed"]
  /\ UNCHANGED <<files, source, fresh, age, taken, disturbed>>

(* The process is killed; the user's copy is not its business. *)
Kill ==
  /\ IF Copying THEN UNCHANGED <<writer, target>> ELSE writer' = "idle" /\ target' = None
  /\ phase' = [b \in Backup |-> "away"]
  /\ taken' = [b \in Backup |-> None]
  /\ UNCHANGED <<files, writes, written, fresh, age, disturbed>>

-----------------------------------------------------------------------------
Write ==
  ClearShards \/ ClearIndex \/ CreateIndex \/ BeginTx \/ CreateShards \/ FillShards \/ Commit

Copy == CopyIndex \/ CopyShards

Read(b) == ReadIndex(b) \/ ReadShards(b)

Next ==
  \/ \E p \in Package : WriteBegin(p) \/ CopyBegin(p)
  \/ Write \/ WriteFails \/ Copy
  \/ \E b \in Backup : Wait(b) \/ Poll(b) \/ Read(b) \/ ReadBusy(b)
                          \/ CancelWait(b) \/ Organize(b)
  \/ Kill

(* The ticker ticks; what has begun to write or to copy goes on. *)
Spec == Init /\ [][Next]_vars /\ WF_vars(Write) /\ WF_vars(Copy)
             /\ \A b \in Backup : WF_vars(Poll(b)) /\ WF_vars(Read(b))

-----------------------------------------------------------------------------
(* What a backup job gets is one package, completely written: neither a     *)
(* half-written one nor the remains of a write that failed or was killed    *)
(* (sidecar.go:138-164, writer.go:48-173), at whatever point of a write the *)
(* directory was opened, unless files changed while the job was reading.    *)
WholeSnapshot ==
  \A b \in Backup : phase[b] \in {"got", "stored"} /\ ~disturbed[b] => taken[b] \in written

(* The directory holds a whole package. *)
Whole == writer = "idle" /\ db = shards /\ db \in written

(* When it does, with no journal beside it, and is left alone, a job that   *)
(* waits for a package stops waiting (sidecar.go:138-188), whatever has     *)
(* been written, failed or killed before.                                   *)
PackageArrives ==
  <>[](Whole /\ ~journal) => \A b \in Backup : phase[b] = "polling" ~> phase[b] # "polling"

(* A job stores in its account's database no package of another account:    *)
(* ingestSnapshot refuses a snapshot whose wxid is not the account's        *)
(* (ingest.go:48-50).                                                       *)
OwnHistoryOnly ==
  \A b \in Backup : phase[b] = "stored" /\ taken[b] # Mixed => OwnerOf[taken[b]] = AccountOf[b]
=============================================================================
