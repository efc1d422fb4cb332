---------------------------- MODULE PackageDump ----------------------------
(***************************************************************************)
(* A restore's way from the account's table to what the session reads: the *)
(* conversations are dumped page by page (internal/app/restore/snapshot.go)*)
(* and written to shards (internal/adapter/backupfmt/writer.go), while a   *)
(* backup job stores messages and clients page through the same table.     *)
(* Composes MessagePages and ShardFiles.                                   *)
(*                                                                         *)
(* One restore is followed.  Another finds what this one found: writing    *)
(* begins with a cleared directory.                                        *)
(***************************************************************************)
EXTENDS MessagePages, ShardFiles

CONSTANT Dump  \* the reader that is the restore's dumpMessages

ASSUME DumpOK ==
  /\ Dumper = {Dump}
  /\ Rows \subseteq DOMAIN Size
  /\ MaxShard <= MaxSegment

VARIABLES
  loading,   \* "idle", "dumping" or "dumped"
  left,      \* selected conversations still to be dumped
  dumped,    \* Snapshot.Messages
  unwritten, \* those of them, by position, that are still to be written
  owed       \* history: messages that stood still while they were dumped

restore  == <<loading, left, dumped, unwritten, owed>>
dumpVars == <<pages, package, restore>>

Placed(recs) == [rec : recs, file : Nat, off : Nat]
Segments == [file : Nat, off : Nat, len : Nat \ {0}, count : Nat \ {0}, from : Nat \ {0}]

PagesTypeOK ==
  /\ table   \in [Message -> Places \cup {Nil}]
  /\ reading \in [Reader -> Talker \cup {Nil}]
  /\ before  \in [Reader -> Rows \cup {Nil}]
  /\ got     \in [Reader -> Seq(Rows)]
  /\ more    \in [Reader -> BOOLEAN]
  /\ steady  \in [Reader -> SUBSET Message]

ShardsTypeOK ==
  /\ stage   \in {"none", "text", "media", "written", "failed", "found", "read", "refused"}
  /\ present \in SUBSET Media /\ objects \in SUBSET Media
  /\ text    \in [log : Seq(Placed(Rows)), file : Nat, size : Nat]
  /\ media   \in [log : Seq(Placed(Media)), file : Nat, size : Nat]
  /\ segment \in Segments \cup {Empty}
  /\ index   \in Seq(Segments)
  /\ blobs   \in Seq([media : Media, file : Nat, off : Nat, len : Nat \ {0}])
  /\ next    \in Nat \ {0}
  /\ found   \in Seq(Rows)
  /\ fetched \in [Media -> Seq(Media)]

DumpTypeOK ==
  /\ PagesTypeOK /\ ShardsTypeOK
  /\ loading   \in {"idle", "dumping", "dumped"}
  /\ left      \in SUBSET Talker
  /\ dumped    \in Seq(Rows)
  /\ unwritten \in SUBSET (DOMAIN dumped)
  /\ owed      \in SUBSET Rows

DumpInit ==
  /\ PagesInit /\ ShardsInit
  /\ loading = "idle" /\ left = {} /\ dumped = <<>> /\ unwritten = {} /\ owed = {}

-----------------------------------------------------------------------------
(* loadSnapshot, for all conversations or for those selected. *)
Select ==
  /\ loading = "idle" /\ stage = "none"
  /\ loading' = "dumping"
  /\ \E chosen \in SUBSET Talker : left' = chosen
  /\ UNCHANGED <<pages, package, dumped, unwritten, owed>>

NextTalker ==
  /\ loading = "dumping"
  /\ \E t \in left : Open(Dump, t) /\ left' = left \ {t}
  /\ UNCHANGED <<package, loading, dumped, unwritten, owed>>

(* Mutant: a conversation's messages replace those of the one before. *)
TakeOver ==
  /\ reading[Dump] # Nil /\ ~more[Dump]
  /\ dumped' = Reverse(got[Dump])
  /\ owed' = owed \cup {row \in Stored(reading[Dump]) : row.id \in steady[Dump]}
  /\ Leave(Dump)
  /\ UNCHANGED <<package, loading, left, unwritten>>

(* The messages of a conversation are put oldest first. *)
TakeDump ==
  /\ reading[Dump] # Nil /\ ~more[Dump]
  /\ dumped' = dumped \o Reverse(got[Dump])
  /\ owed' = owed \cup {row \in Stored(reading[Dump]) : row.id \in steady[Dump]}
  /\ Leave(Dump)
  /\ UNCHANGED <<package, loading, left, unwritten>>

Loaded ==
  /\ loading = "dumping" /\ left = {} /\ reading[Dump] = Nil
  /\ loading' = "dumped"
  /\ UNCHANGED <<pages, package, left, dumped, unwritten, owed>>

-----------------------------------------------------------------------------
StartWriting ==
  /\ loading = "dumped" /\ \A r \in Client : reading[r] = Nil
  /\ loading' = "idle"
  /\ unwritten' = DOMAIN dumped
  /\ OpenText
  /\ UNCHANGED <<pages, left, dumped, owed>>

(* groupMessages: talker by talker, and the messages of each oldest first. *)
Before(a, b) ==
  \/ TalkerOf[a.id] < TalkerOf[b.id]
  \/ TalkerOf[a.id] = TalkerOf[b.id] /\ Older(a, b)

(* Whether writeTextSegments is through with the talker it was called for. *)
TalkerDone ==
  /\ segment.count > 0
  /\ \A n \in unwritten : TalkerOf[dumped[n].id] # TalkerOf[Last(text.log).rec.id]

WriteMessage ==
  /\ ~TalkerDone
  /\ \E n \in unwritten :
       /\ \A k \in unwritten : ~Before(dumped[k], dumped[n])
       /\ WriteRecord(dumped[n])
       /\ unwritten' = unwritten \ {n}
  /\ UNCHANGED <<pages, loading, left, dumped, owed>>

WriteTalker == TalkerDone /\ Flush

TextWritten == unwritten = {} /\ OpenMedia

WriteStep ==
  \/ WriteMessage
  \/ /\ WriteTalker \/ TextWritten \/ WriteMedia \/ CommitIndex \/ Abandon \/ ReadBack
     /\ UNCHANGED <<pages, restore>>

(* Pages and writing have no variable in common, so their steps commute; of *)
(* the orders they may come in, the one with the pages first is followed,   *)
(* and with no client in the middle of a conversation when writing begins.  *)
PageStep == stage = "none" /\ PagesNext /\ UNCHANGED <<package, restore>>

DumpNext == Select \/ NextTalker \/ TakeDump \/ Loaded \/ StartWriting \/ WriteStep \/ PageStep

DumpSpec == DumpInit /\ [][DumpNext]_dumpVars

-----------------------------------------------------------------------------
(* A record is too long for the reader; the writer writes it all the same. *)
Oversize ==
  \/ \E i \in DOMAIN dumped : Size[dumped[i]] > MaxSegment
  \/ \E id \in present : Size[id] > MaxSegment

(* What writing has committed is read back, wherever the shards were        *)
(* rotated (writer.go:228-288, 368-385, reader.go:150-306): the dumped      *)
(* messages and no others, each once, talker by talker and oldest first,    *)
(* and for each media object its own bytes.  Nothing is refused but what is *)
(* too long for the reader.                                                 *)
RoundTrip ==
  /\ stage = "read" =>
       /\ Range(found) = Range(dumped)
       /\ \A i, j \in DOMAIN found : i < j => Before(found[i], found[j])
       /\ \A id \in Media : fetched[id] = IF id \in present THEN <<id>> ELSE <<>>
  /\ stage = "refused" => Oversize

(* What is read back holds every message of the conversations selected that *)
(* stood still while its conversation was dumped, exactly once              *)
(* (snapshot.go:39-95, writer.go:100-117).                                  *)
Restored ==
  stage = "read" => \A row \in owed : \E i \in DOMAIN found :
                      \A j \in DOMAIN found : found[j] = row <=> j = i
=============================================================================
