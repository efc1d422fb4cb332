------------------------------- MODULE Ingest -------------------------------
(***************************************************************************)
(* Filling an account's canonical store: what run, organize and           *)
(* ingestSnapshot of internal/app/backup do to one account.db, over any    *)
(* number of jobs, modes, failures and restarts.                           *)
(*                                                                         *)
(* A job reads the cursors, takes the phone's package as it is at that     *)
(* moment and drops what the cursors cover (the stream's filterChunks); it *)
(* writes the rest to the account's incoming directory and reads it back;  *)
(* then it reads the cursors again and commits one talker per transaction, *)
(* messages, conversation and cursor together, and finally the media, file *)
(* before row.  A failure, a cancellation or a kill between any two of     *)
(* those steps abandons the job and keeps what it has committed.  Two jobs *)
(* for one account can overlap (module BackupJob), hence several workers.  *)
(*                                                                         *)
(* Messages are numbered so that, among those of one create time, the      *)
(* order is the store's (msg_seq, msg_id); a create time of 0 is "none".   *)
(***************************************************************************)
EXTENDS Integers, FiniteSets

CONSTANTS Message,    \* messages the phone may ever hold, as numbers
          Talker,     \* conversations, numbered in the order they are sorted
          TalkerOf,   \* the conversation of each message
          TimeOf,     \* the create time of each message
          Media,      \* media objects, numbered in the package's order
          Worker,     \* backup jobs that may run at the same time
          LateArrival,\* whether old messages may reach the phone late
          Clearable   \* the messages the user may clear from the phone

ASSUME ConstantsOK ==
  /\ Message \subseteq Nat \ {0} /\ IsFiniteSet(Message)
  /\ Talker \subseteq Nat
  /\ Media \subseteq Nat
  /\ TalkerOf \in [Message -> Talker]
  /\ TimeOf \in [Message -> Nat]
  /\ LateArrival \in BOOLEAN
  /\ Clearable \subseteq Message

Modes == {"full", "incremental", "resume"}

Phases == {"idle", "taken", "written", "talkers", "media", "truncated", "filed", "done"}

VARIABLES
  phone,     \* the messages on the phone
  arrived,   \* history: the messages the phone has ever held
  late,      \* history: those that came after a newer one of their talker
  gallery,   \* per media object: absent, listed without its file, or blob
  stored,    \* the messages table
  known,     \* talkers with a conversations row and a backup_cursors row
  count,     \* conversations.msg_count
  cursor,    \* backup_cursors
  files,     \* the files of the media directory: none, partial or whole
  mediaRow,  \* the media table: none, unavailable or available
  phase,     \* where each job is: idle, taken, written, talkers, media,
             \* truncated, filed, done
  mode,      \* its mode
  offered,   \* history: the phone's messages and media when it took them
  package,   \* the snapshot it ingests: messages, talkers, media
  resume,    \* the cursors it compares messages with
  todo       \* talkers, then media objects, it still has to commit

device == <<phone, arrived, late, gallery>>
canon  == <<stored, known, count, cursor>>
media  == <<files, mediaRow>>
job    == <<phase, mode, offered, package, resume, todo>>
vars   == <<device, canon, media, job>>

NoMessage == 0
Zero == [end |-> 0, segment |-> NoMessage, received |-> 0, total |-> 0]

Cursors == [end      : {0} \cup {TimeOf[m] : m \in Message},
            segment  : {NoMessage} \cup Message,
            received : 0..Cardinality(Message),
            total    : 0..Cardinality(Message)]

Holdings == [messages : SUBSET Message, media : [Media -> {"absent", "listed", "blob"}]]

Packages == [messages : SUBSET Message, talkers : SUBSET Talker,
             media    : [Media -> {"absent", "listed", "blob"}]]

TypeOK ==
  /\ phone \subseteq arrived /\ late \subseteq arrived /\ arrived \subseteq Message
  /\ gallery \in [Media -> {"absent", "listed", "blob"}]
  /\ stored \subseteq arrived
  /\ known \subseteq Talker
  /\ count \in [Talker -> 0..Cardinality(Message)]
  /\ cursor \in [Talker -> Cursors]
  /\ files \in [Media -> {"none", "partial", "whole"}]
  /\ mediaRow \in [Media -> {"none", "unavailable", "available"}]
  /\ phase \in [Worker -> Phases]
  /\ mode \in [Worker -> Modes]
  /\ offered \in [Worker -> Holdings]
  /\ package \in [Worker -> Packages]
  /\ resume \in [Worker -> [Talker -> Cursors]]
  /\ todo \in [Worker -> (SUBSET Talker) \cup (SUBSET Media)]

Nothing == [messages |-> {}, media |-> [x \in Media |-> "absent"]]

NoPackage == [messages |-> {}, talkers |-> {}, media |-> Nothing.media]

Init ==
  /\ phone = {} /\ arrived = {} /\ late = {}
  /\ gallery = [x \in Media |-> "absent"]
  /\ stored = {} /\ known = {}
  /\ count = [t \in Talker |-> 0]
  /\ cursor = [t \in Talker |-> Zero]
  /\ files = [x \in Media |-> "none"]
  /\ mediaRow = [x \in Media |-> "none"]
  /\ phase = [w \in Worker |-> "idle"]
  /\ mode = [w \in Worker |-> "full"]
  /\ offered = [w \in Worker |-> Nothing]
  /\ package = [w \in Worker |-> NoPackage]
  /\ resume = [w \in Worker |-> [t \in Talker |-> Zero]]
  /\ todo = [w \in Worker |-> {}]

-----------------------------------------------------------------------------
(* Pure parts. *)

Of(t, messages) == {m \in messages : TalkerOf[m] = t}

(* ORDER BY create_time, msg_seq, msg_id. *)
Newer(m, n) == TimeOf[m] > TimeOf[n] \/ (TimeOf[m] = TimeOf[n] /\ m > n)

(* ListMessages(talker, nil, 1): the newest message, if any. *)
Latest(messages) ==
  IF messages = {} THEN NoMessage
  ELSE CHOOSE m \in messages : \A n \in messages \ {m} : Newer(m, n)

Later(a, b) == IF a > b THEN a ELSE b

(* Mutant: every message of the cursor's time counts as covered. *)
NotAfter(c, m) ==
  IF c.end # 0 THEN TimeOf[m] <= c.end ELSE c.segment # NoMessage /\ m = c.segment

(* messageAtOrBeforeCursor: the same test in the stream and in the ingest. *)
AtOrBefore(c, m) ==
  IF c.end # 0
  THEN \/ TimeOf[m] < c.end
       \/ TimeOf[m] = c.end /\ c.segment \in {NoMessage, m}
  ELSE c.segment # NoMessage /\ m = c.segment

(* filterChunks, one chunk per talker: a full job, or one without cursors, *)
(* takes every chunk; otherwise a talker with a cursor loses the messages  *)
(* it covers, and its chunk if none is left.                               *)
Filter(md, messages) ==
  IF md = "full" \/ known = {}
  THEN [messages |-> messages, talkers |-> Talker]
  ELSE LET kept == {m \in messages :
                      TalkerOf[m] \in known => ~AtOrBefore(cursor[TalkerOf[m]], m)}
       IN [messages |-> kept,
           talkers  |-> {t \in Talker : t \in known => Of(t, kept) # {}}]

-----------------------------------------------------------------------------
(* The phone. *)

Arrive(m) ==
  LET overtaken == \E n \in Of(TalkerOf[m], arrived) : TimeOf[n] > TimeOf[m] IN
  /\ m \notin arrived
  /\ overtaken => LateArrival
  /\ phone' = phone \cup {m}
  /\ arrived' = arrived \cup {m}
  /\ late' = IF overtaken THEN late \cup {m} ELSE late
  /\ UNCHANGED <<gallery, canon, media, job>>

(* The user clears messages from the phone. *)
Clear(m) ==
  /\ m \in Clearable \cap phone
  /\ phone' = phone \ {m}
  /\ UNCHANGED <<arrived, late, gallery, canon, media, job>>

(* A media object appears, is opened (its file is there) or expires. *)
Gallery(x) ==
  /\ \E g \in {"listed", "blob"} : gallery' = [gallery EXCEPT ![x] = g]
  /\ UNCHANGED <<phone, arrived, late, canon, media, job>>

-----------------------------------------------------------------------------
(* A backup job. *)

(* ListCursors and StartBackup: take the package, filtered. *)
Take(w, md) ==
  /\ phase[w] \in {"idle", "done"}
  /\ phase' = [phase EXCEPT ![w] = "taken"]
  /\ mode' = [mode EXCEPT ![w] = md]
  /\ offered' = [offered EXCEPT ![w] = [messages |-> phone, media |-> gallery]]
  /\ package' = [package EXCEPT ![w] =
       [messages |-> Filter(md, phone).messages,
        talkers  |-> Filter(md, phone).talkers,
        media    |-> gallery]]
  /\ UNCHANGED <<device, canon, media, resume, todo>>

IsEmpty(p) ==
  p.messages = {} /\ p.talkers = {} /\ \A x \in Media : p.media[x] = "absent"

(* materializePackage.  A package with anything in it goes to the account's *)
(* incoming directory, where it replaces the package of a job that has     *)
(* written its own and not read it back yet.  When the stream brought      *)
(* nothing, the package in the account's backup root is used, if there is  *)
(* one, as it is now.                                                      *)
Materialize(w) ==
  /\ phase[w] = "taken"
  /\ \/ /\ ~IsEmpty(package[w])
        /\ package' = [v \in Worker |->
                          IF phase[v] = "written" THEN package[w] ELSE package[v]]
     \/ /\ IsEmpty(package[w])
        /\ \E root \in {package[w],
                        [messages |-> phone, talkers |-> Talker, media |-> gallery]} :
             package' = [package EXCEPT ![w] = root]
  /\ phase' = [phase EXCEPT ![w] = "written"]
  /\ UNCHANGED <<device, canon, media, mode, offered, resume, todo>>

(* backupfmt.Read, OpenAccount, loadCursors and the list of talkers. *)
Load(w) ==
  /\ phase[w] = "written"
  /\ resume' = [resume EXCEPT ![w] = cursor]
  /\ todo' = [todo EXCEPT ![w] = package[w].talkers]
  /\ phase' = [phase EXCEPT ![w] = "talkers"]
  /\ UNCHANGED <<device, canon, media, mode, offered, package>>

(* skipByCursor. *)
Skip(w, m) == mode[w] # "full" /\ AtOrBefore(resume[w][TalkerOf[m]], m)

(* Mutant: the messages are counted before the new ones are put in. *)
CountedBefore(w, t, now) == Cardinality(Of(t, stored))

(* CountMessages, inside the transaction. *)
Counted(w, t, now) == Cardinality(Of(t, now))

(* ingestTalker: one transaction for the talker next in order. *)
IngestTalker(w, t) ==
  LET now  == stored \cup {m \in Of(t, package[w].messages) : m \in stored \/ ~Skip(w, m)}
      n    == Counted(w, t, now)
      last == Latest(Of(t, now))
      was  == resume[w][t]
  IN
  /\ phase[w] = "talkers"
  /\ t \in todo[w] /\ \A u \in todo[w] : t <= u
  /\ stored' = now
  /\ known' = known \cup {t}
  /\ count' = [count EXCEPT ![t] = n]
  /\ cursor' = [cursor EXCEPT ![t] =
       [end      |-> IF last = NoMessage THEN was.end ELSE Later(TimeOf[last], was.end),
        segment  |-> IF last = NoMessage THEN was.segment ELSE last,
        received |-> n,
        total    |-> Later(n, was.total)]]
  /\ todo' = [todo EXCEPT ![w] = @ \ {t}]
  /\ UNCHANGED <<device, media, phase, mode, offered, package, resume>>

(* All talkers are in: on to the media. *)
TalkersDone(w) ==
  /\ phase[w] = "talkers" /\ todo[w] = {}
  /\ phase' = [phase EXCEPT ![w] = "media"]
  /\ todo' = [todo EXCEPT ![w] = {x \in Media : package[w].media[x] # "absent"}]
  /\ UNCHANGED <<device, canon, media, mode, offered, package, resume>>

(* The media are taken in the package's order. *)
Turn(w, x) == x \in todo[w] /\ \A y \in todo[w] : x <= y

(* Mutant: a file that is there already is not written again. *)
KeepExisting(w, x) ==
  /\ phase[w] = "media" /\ Turn(w, x) /\ package[w].media[x] = "blob"
  /\ files' = [files EXCEPT ![x] = IF @ = "none" THEN "partial" ELSE @]
  /\ phase' = [phase EXCEPT ![w] = IF files[x] = "none" THEN "truncated" ELSE "filed"]
  /\ UNCHANGED <<device, canon, mediaRow, mode, offered, package, resume, todo>>

(* os.WriteFile, when the package holds the object's bytes: open with       *)
(* O_TRUNC, whatever the file held, then write.                            *)
TruncateFile(w, x) ==
  /\ phase[w] = "media" /\ Turn(w, x) /\ package[w].media[x] = "blob"
  /\ files' = [files EXCEPT ![x] = "partial"]
  /\ phase' = [phase EXCEPT ![w] = "truncated"]
  /\ UNCHANGED <<device, canon, mediaRow, mode, offered, package, resume, todo>>

WriteFile(w, x) ==
  /\ phase[w] = "truncated" /\ Turn(w, x)
  /\ files' = [files EXCEPT ![x] = "whole"]
  /\ phase' = [phase EXCEPT ![w] = "filed"]
  /\ UNCHANGED <<device, canon, mediaRow, mode, offered, package, resume, todo>>

(* PutMedia overwrites the row: available if the bytes came along. *)
PutMedia(w, x) ==
  /\ Turn(w, x)
  /\ \/ phase[w] = "filed"
     \/ phase[w] = "media" /\ package[w].media[x] = "listed"
  /\ mediaRow' = [mediaRow EXCEPT ![x] =
       IF package[w].media[x] = "blob" THEN "available" ELSE "unavailable"]
  /\ todo' = [todo EXCEPT ![w] = @ \ {x}]
  /\ phase' = [phase EXCEPT ![w] = "media"]
  /\ UNCHANGED <<device, canon, files, mode, offered, package, resume>>

(* What a job held in memory is gone; after a job that ended otherwise than *)
(* by completing, so is what the properties remember of it.                *)
Gone(ws) ==
  /\ package' = [w \in Worker |-> IF w \in ws THEN NoPackage ELSE package[w]]
  /\ resume' = [w \in Worker |-> IF w \in ws THEN [t \in Talker |-> Zero] ELSE resume[w]]
  /\ todo' = [w \in Worker |-> IF w \in ws THEN {} ELSE todo[w]]
  /\ UNCHANGED <<device, canon, media>>

Forgotten(ws) ==
  /\ Gone(ws)
  /\ phase' = [w \in Worker |-> IF w \in ws THEN "idle" ELSE phase[w]]
  /\ mode' = [w \in Worker |-> IF w \in ws THEN "full" ELSE mode[w]]
  /\ offered' = [w \in Worker |-> IF w \in ws THEN Nothing ELSE offered[w]]

(* organize returns. *)
Complete(w) ==
  /\ phase[w] = "media" /\ todo[w] = {}
  /\ phase' = [phase EXCEPT ![w] = "done"]
  /\ Gone({w})
  /\ UNCHANGED <<mode, offered>>

(* The job fails or is cancelled, at any point. *)
Abandon(w) ==
  /\ phase[w] \notin {"idle", "done"}
  /\ Forgotten({w})

(* The process is killed and restarted. *)
Crash == Forgotten(Worker)

Next ==
  \/ \E m \in Message : Arrive(m) \/ Clear(m)
  \/ \E x \in Media : Gallery(x)
  \/ \E w \in Worker :
       \/ \E md \in Modes : Take(w, md)
       \/ Materialize(w) \/ Load(w)
       \/ \E t \in Talker : IngestTalker(w, t)
       \/ TalkersDone(w)
       \/ \E x \in Media : TruncateFile(w, x) \/ WriteFile(w, x) \/ PutMedia(w, x)
       \/ Complete(w) \/ Abandon(w)
  \/ Crash

Spec == Init /\ [][Next]_vars

-----------------------------------------------------------------------------
(* A full job that completes has stored every message the phone held when   *)
(* the job took its package, and a job of another mode all but those that   *)
(* came late, after a newer message of their talker: neither the cursors    *)
(* nor the filters built on them, nor the jobs before it that were cut      *)
(* short, make a job skip any other message nobody stored                   *)
(* (ingest.go:204-225, fake.go:320-365).  Jobs must not overlap.            *)
NothingLost ==
  \A w \in Worker : phase[w] = "done" =>
    (IF mode[w] = "full" THEN offered[w].messages ELSE offered[w].messages \ late) \subseteq stored

(* At every moment, kills included, a talker's message count and cursor     *)
(* describe exactly the messages stored for it, even when they were         *)
(* computed from a cursor another job has moved since (ingest.go:148-200).  *)
SummariesMatch ==
  \A t \in Talker :
    LET mine == Of(t, stored) IN
    /\ count[t] = Cardinality(mine)
    /\ cursor[t].received = Cardinality(mine)
    /\ cursor[t].total = Cardinality(mine)
    /\ cursor[t].segment = Latest(mine)
    /\ mine # {} => cursor[t].end = TimeOf[Latest(mine)]
    /\ t \notin known => mine = {}

(* A media row says "available" only when the object has a file, whatever   *)
(* step a kill falls on, and a job that completes has left every object     *)
(* whose bytes the phone had available and its file whole: what a kill in   *)
(* the middle of a file cut short, the next job that has the bytes repairs  *)
(* (ingest.go:104-123).  Jobs must not overlap.                             *)
MediaServed ==
  /\ \A x \in Media : mediaRow[x] = "available" => files[x] # "none"
  /\ \A w \in Worker : phase[w] = "done" =>
       \A x \in Media : offered[w].media[x] = "blob" =>
                         mediaRow[x] = "available" /\ files[x] = "whole"
=============================================================================
