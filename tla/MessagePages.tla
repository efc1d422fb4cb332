---------------------------- MODULE MessagePages ----------------------------
(***************************************************************************)
(* The messages of one account and the readers that page through them      *)
(* newest first while a backup job stores more: ListMessages and           *)
(* PutMessage (internal/store/sqlite/canonical.go), dumpMessages           *)
(* (internal/app/restore/snapshot.go) and handleMessages                   *)
(* (internal/http/api.go).                                                 *)
(*                                                                         *)
(* A page starts below the last message of the one before it, by time,     *)
(* sequence number and identifier, so nothing but that message is          *)
(* remembered between pages.  A stored message is its identifier and its   *)
(* place in that order; the rest of it is left out.  A query that fails    *)
(* ends the request or the restore, which here just stops.                 *)
(***************************************************************************)
EXTENDS Naturals, SequencesExt

CONSTANTS Talker,     \* conversations, numbered in the order of their ids
          Message,    \* message ids, numbered in their own order
          TalkerOf,   \* the conversation of each
          PlacesOf,   \* the <<time, sequence number>> each may have
          Dumper,     \* readers that are dumpMessages
          Client,     \* readers that are clients of handleMessages
          Limit,      \* the page size of each
          MaxPage,    \* the most ListMessages returns
          Nil         \* no cursor, no conversation, no place

Reader == Dumper \cup Client
Places == UNION {PlacesOf[m] : m \in Message}

(* A message as it is read from the table. *)
Rows == [id : Message, at : Places]

ASSUME PagesOK ==
  /\ Message \subseteq Nat /\ Talker \subseteq Nat
  /\ TalkerOf \in [Message -> Talker]
  /\ PlacesOf \in [Message -> SUBSET (Nat \X Nat)]
  /\ Dumper \cap Client = {}
  /\ MaxPage \in Nat \ {0}
  /\ Limit \in [Reader -> 1..MaxPage]
  /\ Nil \notin Talker /\ Nil \notin Places /\ Nil \notin Rows

VARIABLES
  table,    \* the place of each message in the table, Nil if it has none
  reading,  \* the conversation each reader is reading
  before,   \* the last message of its last page, the cursor
  got,      \* the messages it has received
  more,     \* whether it will ask for another page
  steady    \* history: messages that have stayed as they are while it read

pages == <<table, reading, before, got, more, steady>>

PagesInit ==
  /\ table \in {f \in [Message -> Places \cup {Nil}] :
                 \A m \in Message : f[m] \in PlacesOf[m] \cup {Nil}}
  /\ reading = [r \in Reader |-> Nil]
  /\ before = [r \in Reader |-> Nil]
  /\ got = [r \in Reader |-> <<>>]
  /\ more = [r \in Reader |-> FALSE]
  /\ steady = [r \in Reader |-> {}]

-----------------------------------------------------------------------------
(* The order of the pages. *)
Older(a, b) ==
  \/ a.at[1] < b.at[1]
  \/ a.at[1] = b.at[1] /\ a.at[2] < b.at[2]
  \/ a.at = b.at /\ a.id < b.id

(* Mutant: a cursor leaves out the rest of its own time. *)
BelowTime(row, cursor) == cursor = Nil \/ row.at[1] < cursor.at[1]

(* The bound a cursor sets. *)
Below(row, cursor) == cursor = Nil \/ Older(row, cursor)

Stored(t) == {[id |-> m, at |-> table[m]] : m \in {n \in Message : TalkerOf[n] = t /\ table[n] # Nil}}

(* The page of t below the cursor, newest first: all there is, or the       *)
(* newest of it, as many as the limit and MaxPage let through.              *)
ListMessages(t, cursor, limit) ==
  LET older == {row \in Stored(t) : Below(row, cursor)}
      most  == IF limit > MaxPage THEN MaxPage ELSE limit
  IN  {page \in SeqOf(older, most) :
         /\ \A i, j \in DOMAIN page : i < j => Older(page[j], page[i])
         /\ \A row \in older \ Range(page) :
              Len(page) = most /\ \A i \in DOMAIN page : Older(row, page[i])}

(* PutMessage inserts a message or moves it to its new place. *)
PutMessage(m, at) ==
  /\ table[m] # at
  /\ table' = [table EXCEPT ![m] = at]
  /\ steady' = [r \in Reader |-> steady[r] \ {m}]
  /\ UNCHANGED <<reading, before, got, more>>

(* A reader asks for the first page of t, next. *)
Open(r, t) ==
  /\ reading[r] = Nil
  /\ reading' = [reading EXCEPT ![r] = t]
  /\ more' = [more EXCEPT ![r] = TRUE]
  /\ steady' = [steady EXCEPT ![r] = {m.id : m \in Stored(t)}]
  /\ UNCHANGED <<table, before, got>>

Receive(r, page, again) ==
  /\ got' = [got EXCEPT ![r] = @ \o page]
  /\ before' = [before EXCEPT ![r] = IF again THEN Last(page) ELSE @]
  /\ more' = [more EXCEPT ![r] = again]
  /\ UNCHANGED <<table, reading, steady>>

(* dumpMessages goes on as long as its pages are full. *)
DumpPage(r) ==
  /\ r \in Dumper /\ more[r]
  /\ \E page \in ListMessages(reading[r], before[r], Limit[r]) :
       Receive(r, page, Len(page) = Limit[r])

(* handleMessages peeks at one message more, and drops it. *)
ServePage(r) ==
  /\ r \in Client /\ more[r]
  /\ \E page \in ListMessages(reading[r], before[r], Limit[r] + 1) :
       LET again == Len(page) > Limit[r]
       IN  Receive(r, IF again THEN Front(page) ELSE page, again)

(* The reader is through, or gives up. *)
Leave(r) ==
  /\ reading[r] # Nil
  /\ reading' = [reading EXCEPT ![r] = Nil]
  /\ before' = [before EXCEPT ![r] = Nil]
  /\ got' = [got EXCEPT ![r] = <<>>]
  /\ more' = [more EXCEPT ![r] = FALSE]
  /\ steady' = [steady EXCEPT ![r] = {}]
  /\ UNCHANGED table

PagesNext ==
  \/ \E m \in Message : \E at \in PlacesOf[m] : PutMessage(m, at)
  \/ \E r \in Client : (\E t \in Talker : Open(r, t)) \/ ServePage(r) \/ Leave(r)
  \/ \E r \in Dumper : DumpPage(r)

-----------------------------------------------------------------------------
Ids(s) == {s[i].id : i \in DOMAIN s}

(* Whether a reader asks for fewer messages than a page may have.  One that *)
(* asks for MaxPage never sees the message handleMessages peeks at.         *)
Paging(r) == r \in Dumper \/ Limit[r] < MaxPage

(* A reader that pages through a conversation to its end has received every *)
(* message that stood still meanwhile, newest first and none of them twice, *)
(* whatever was stored between its pages (canonical.go:100-142,             *)
(* snapshot.go:71-96, api.go:126-140).                                      *)
PagesComplete ==
  \A r \in Reader :
    /\ \A i, j \in DOMAIN got[r] : i < j => Older(got[r][j], got[r][i])
    /\ reading[r] # Nil /\ ~more[r] /\ Paging(r) => steady[r] \subseteq Ids(got[r])
=============================================================================
