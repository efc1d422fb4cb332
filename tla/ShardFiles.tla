----------------------------- MODULE ShardFiles -----------------------------
(***************************************************************************)
(* One backup package as backupfmt writes and reads it: records appended   *)
(* to numbered shard files that are rotated when full, an index of the     *)
(* segments they lie in, and the reader that finds them again              *)
(* (internal/adapter/backupfmt/writer.go, reader.go).                      *)
(*                                                                         *)
(* A record is what it says and its length.  The files of one kind are the *)
(* log of the records appended, each with the file and the offset it lies  *)
(* at, in units of which the magic takes Magic.                            *)
(***************************************************************************)
EXTENDS Naturals, SequencesExt

CONSTANTS Size,        \* the length of each record, by what it says
          Media,       \* the account's media ids
          Magic,       \* the length of the magic
          MaxShard,    \* the size at which a shard is rotated
          MaxSegment   \* the longest segment the reader takes

ASSUME ShardsOK ==
  /\ Size \in [DOMAIN Size -> Nat \ {0}] /\ Media \subseteq DOMAIN Size
  /\ Magic \in Nat \ {0} /\ MaxShard \in Nat /\ MaxSegment \in Nat

VARIABLES
  stage,    \* "none", "text", "media", "written", "failed";
            \* "found" (the messages), "read", "refused"
  present,  \* the media that have bytes
  objects,  \* the media that are still to be written
  text,     \* the shard writer of the text, and its log
  media,    \* that of the media
  segment,  \* the segment being gathered, as writeTextSegments has it
  index,    \* MsgSegments, in the order of their ids
  blobs,    \* MsgFileSegments
  next,     \* the row of either that is read next
  found,    \* the messages read back
  fetched   \* the bytes read back for each media id

package == <<stage, present, objects, text, media, segment, index, blobs, next, found, fetched>>
reader  == <<next, found, fetched>>

NewWriter == [log |-> <<>>, file |-> 0, size |-> Magic]

(* A segment also says, as history, which record of the log is its first.  *)
Empty == [file |-> 0, off |-> 0, len |-> 0, count |-> 0, from |-> 0]

Cleared ==
  /\ objects' = {} /\ text' = NewWriter /\ media' = NewWriter
  /\ segment' = Empty /\ index' = <<>> /\ blobs' = <<>>

ShardsInit ==
  /\ stage = "none" /\ present = {} /\ objects = {}
  /\ text = NewWriter /\ media = NewWriter
  /\ segment = Empty /\ index = <<>> /\ blobs = <<>>
  /\ next = 1 /\ found = <<>> /\ fetched = [id \in Media |-> <<>>]

-----------------------------------------------------------------------------
(* The shard writer. *)

(* A file that has a record is not made longer than MaxShard. *)
NeedRotate(w, rec) == w.size > Magic /\ w.size + Size[rec] > MaxShard

(* Where shardWriter.Append puts a record. *)
Place(w, rec) ==
  IF NeedRotate(w, rec)
  THEN [rec |-> rec, file |-> w.file + 1, off |-> Magic]
  ELSE [rec |-> rec, file |-> w.file, off |-> w.size]

End(at) == at.off + Size[at.rec]

AppendTo(w, rec) ==
  LET at == Place(w, rec)
  IN  [log |-> Append(w.log, at), file |-> at.file, size |-> End(at)]

(* Mutant: a segment goes on in the next file. *)
NeverApart(seg, at) == FALSE

(* Whether what is appended at a place cannot join the segment. *)
Apart(seg, at) == at.file # seg.file \/ at.off # seg.off + seg.len

(* Mutant: the record that starts a segment is not counted. *)
Uncounted(at) ==
  [file |-> at.file, off |-> at.off, len |-> Size[at.rec], count |-> 0, from |-> Len(text.log) + 1]

(* The segment a record starts. *)
FirstOf(at) ==
  [file |-> at.file, off |-> at.off, len |-> Size[at.rec], count |-> 1, from |-> Len(text.log) + 1]

-----------------------------------------------------------------------------
(* writePackage. *)

(* The directory is cleared and the first text shard made.  The files of    *)
(* some media are there.                                                    *)
OpenText ==
  /\ stage = "none"
  /\ stage' = "text"
  /\ present' \in SUBSET Media /\ objects' = Media
  /\ text' = NewWriter /\ segment' = Empty /\ index' = <<>>
  /\ UNCHANGED <<media, blobs, reader>>

(* writeTextSegments appends a message, and inserts the segment so far when *)
(* the message does not follow on.                                          *)
WriteRecord(rec) ==
  /\ stage = "text"
  /\ LET at  == Place(text, rec)
         cut == segment.count > 0 /\ Apart(segment, at)
     IN  /\ index' = IF cut THEN Append(index, segment) ELSE index
         /\ segment' = IF cut \/ segment.count = 0
                       THEN FirstOf(at)
                       ELSE [segment EXCEPT !.len = @ + Size[rec], !.count = @ + 1]
  /\ text' = AppendTo(text, rec)
  /\ UNCHANGED <<stage, present, objects, media, blobs, reader>>

(* A talker's messages end, and with them a segment. *)
Flush ==
  /\ stage = "text" /\ segment.count > 0
  /\ index' = Append(index, segment)
  /\ segment' = Empty
  /\ UNCHANGED <<stage, present, objects, text, media, blobs, reader>>

OpenMedia ==
  /\ stage = "text" /\ segment.count = 0
  /\ stage' = "media" /\ media' = NewWriter
  /\ UNCHANGED <<present, objects, text, segment, index, blobs, reader>>

(* The media, in the order they are listed.  An object without bytes gets   *)
(* no segment.                                                              *)
WriteMedia ==
  /\ stage = "media" /\ objects # {}
  /\ LET id == CHOOSE x \in objects : TRUE
         at == Place(media, id)
     IN  /\ IF id \in present
            THEN /\ media' = AppendTo(media, id)
                 /\ blobs' = Append(blobs, [media |-> id, file |-> at.file,
                                            off |-> at.off, len |-> Size[id]])
            ELSE UNCHANGED <<media, blobs>>
         /\ objects' = objects \ {id}
  /\ UNCHANGED <<stage, present, text, segment, index, reader>>

CommitIndex ==
  /\ stage = "media" /\ objects = {}
  /\ stage' = "written"
  /\ UNCHANGED <<present, objects, text, media, segment, index, blobs, reader>>

(* Anything fails: the package's files are cleared. *)
Abandon ==
  /\ stage \in {"text", "media"}
  /\ stage' = "failed"
  /\ Cleared
  /\ UNCHANGED <<present, reader>>

-----------------------------------------------------------------------------
(* Read. *)

(* readShardRange and decodeTextRecords: the first and the last of the      *)
(* records that fill a range of a file.  There are none if the range cuts a *)
(* record, goes beyond the end, or is too long.                             *)
Fill(w, seg) ==
  {fill \in [first : DOMAIN w.log, last : DOMAIN w.log] :
     LET first == w.log[fill.first]
         last  == w.log[fill.last]
     IN  /\ fill.first <= fill.last /\ seg.len <= MaxSegment
         /\ first.file = seg.file /\ first.off = seg.off
         /\ last.file = seg.file /\ End(last) = seg.off + seg.len}

(* What the records say. *)
Contents(w, fill) == [k \in 1..(fill.last + 1 - fill.first) |-> w.log[fill.first + k - 1].rec]

Refuse == stage' = "refused" /\ UNCHANGED reader

ReadSegment ==
  /\ stage = "written" /\ next <= Len(index)
  /\ \/ /\ \E fill \in Fill(text, index[next]) : found' = found \o Contents(text, fill)
        /\ next' = next + 1
        /\ UNCHANGED <<stage, fetched>>
     \/ Fill(text, index[next]) = {} /\ Refuse
  /\ UNCHANGED <<present, objects, text, media, segment, index, blobs>>

ReadObject ==
  /\ stage = "found" /\ next <= Len(blobs)
  /\ \/ /\ \E fill \in Fill(media, blobs[next]) :
             fetched' = [fetched EXCEPT ![blobs[next].media] = @ \o Contents(media, fill)]
        /\ next' = next + 1
        /\ UNCHANGED <<stage, found>>
     \/ Fill(media, blobs[next]) = {} /\ Refuse
  /\ UNCHANGED <<present, objects, text, media, segment, index, blobs>>

(* The rows of one table are read: the messages, then the media. *)
RowsRead ==
  /\ \/ stage = "written" /\ next > Len(index) /\ stage' = "found"
     \/ stage = "found" /\ next > Len(blobs) /\ stage' = "read"
  /\ next' = 1
  /\ UNCHANGED <<present, objects, text, media, segment, index, blobs, found, fetched>>

ReadBack == ReadSegment \/ ReadObject \/ RowsRead
=============================================================================
