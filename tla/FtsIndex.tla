------------------------------ MODULE FtsIndex ------------------------------
(***************************************************************************)
(* The full-text index of one account (internal/store/fts/fts.go), built  *)
(* by the first search and kept by triggers from then on, while backup     *)
(* jobs write messages to the same database (internal/http/api.go,         *)
(* handleSearch; internal/store/sqlite/canonical.go, PutMessage).          *)
(*                                                                         *)
(* The account's database has one connection (openDB), so statements are   *)
(* atomic and a transaction excludes everybody else; but Search is several *)
(* statements and one transaction, and between them other requests and     *)
(* jobs have their turn.  A search runs under its request's context and    *)
(* can be cut short after any of them.                                     *)
(*                                                                         *)
(* Rows are never deleted from messages, so the delete trigger has no      *)
(* occasion.  Filters by type and date narrow a search and its answer      *)
(* alike and are left out; RebuildAsync is called by tests only.           *)
(***************************************************************************)
EXTENDS Naturals, Sequences, FiniteSets

CONSTANTS Message,    \* messages, numbered from the oldest to the newest
          Text,       \* message texts
          Needle,     \* what users search for
          Phrase,     \* the texts MATCH finds for a needle
          Literal,    \* the texts that contain a needle, case folded
          Search,     \* search requests
          Limit       \* the number of hits a request asks for

ASSUME ConstantsOK ==
  /\ Message \subseteq Nat
  /\ Needle # {}
  /\ Phrase \in [Needle -> SUBSET Text]
  /\ Literal \in [Needle -> SUBSET Text]
  /\ Limit \in Nat \ {0}

VARIABLES
  messages,   \* the messages table: message -> text, for those stored
  index,      \* messages_fts: the texts indexed for each message, row by row
  installed,  \* how many of the statements of Ensure have taken effect
  phase,      \* each search: idle, ensure, index, messages, rebuild, query, done
  executed,   \* the statements of Ensure it has executed
  needle,     \* what it searches for
  answer,     \* the rows it has returned, as <<message, row of the index>>
  due,        \* history: the messages it should have returned
  rebuilt,    \* history: whether a rebuild has been committed
  premature   \* history: whether a job wrote while the index was half built

store == <<messages, index, installed, rebuilt>>
request == <<phase, executed, needle, answer, due>>
vars == <<store, request, premature>>

Stored == DOMAIN messages

TypeOK ==
  /\ Stored \subseteq Message /\ \A m \in Stored : messages[m] \in Text
  /\ index \in [Message -> Seq(Text)]
  /\ installed \in 0..4
  /\ phase \in [Search -> {"idle", "ensure", "index", "messages", "rebuild", "query", "done"}]
  /\ executed \in [Search -> 0..4]
  /\ needle \in [Search -> Needle]
  /\ answer \in [Search -> SUBSET (Message \X Nat)]
  /\ due \in [Search -> SUBSET Message]
  /\ rebuilt \in BOOLEAN /\ premature \in BOOLEAN

Init ==
  /\ messages = <<>>
  /\ index = [m \in Message |-> <<>>]
  /\ installed = 0
  /\ phase = [s \in Search |-> "idle"]
  /\ executed = [s \in Search |-> 0]
  /\ needle = [s \in Search |-> CHOOSE n \in Needle : TRUE]
  /\ answer = [s \in Search |-> {}]
  /\ due = [s \in Search |-> {}]
  /\ rebuilt = FALSE /\ premature = FALSE

(* ensureStmts: the table, then the triggers ai, ad and au. *)
Statements == 4
HasInsert == installed >= 2
HasUpdate == installed >= 4

(* Before the first rebuild: triggers that are not all in yet, or messages *)
(* from before them that are not in the index.                             *)
HalfBuilt == HasInsert /\ ~rebuilt /\ (~HasUpdate \/ \E m \in Stored : index[m] = <<>>)

Busy(s) == phase[s] \notin {"idle", "done"}

-----------------------------------------------------------------------------
(* PutMessage of a new message, with the insert trigger if it is there. *)
Insert(m, t) ==
  /\ m \notin Stored
  /\ premature' = (premature \/ HalfBuilt)
  /\ messages' = [n \in Stored \cup {m} |-> IF n = m THEN t ELSE messages[n]]
  /\ index' = IF HasInsert THEN [index EXCEPT ![m] = Append(@, t)] ELSE index
  /\ UNCHANGED <<installed, rebuilt, request>>

(* Mutant: the update trigger leaves the old row where it is. *)
UpdateKeeps(m, t) ==
  /\ m \in Stored
  /\ premature' = (premature \/ HalfBuilt)
  /\ messages' = [messages EXCEPT ![m] = t]
  /\ UNCHANGED <<index, installed, rebuilt, request>>

(* PutMessage of a stored message: the update trigger replaces its rows. *)
Update(m, t) ==
  /\ m \in Stored
  /\ premature' = (premature \/ HalfBuilt)
  /\ messages' = [messages EXCEPT ![m] = t]
  /\ index' = IF HasUpdate THEN [index EXCEPT ![m] = <<t>>] ELSE index
  /\ UNCHANGED <<installed, rebuilt, request>>

-----------------------------------------------------------------------------
(* Search. *)

Begin(s, n) ==
  /\ phase[s] \in {"idle", "done"}
  /\ phase' = [phase EXCEPT ![s] = "ensure"]
  /\ executed' = [executed EXCEPT ![s] = 0]
  /\ needle' = [needle EXCEPT ![s] = n]
  /\ answer' = [answer EXCEPT ![s] = {}]
  /\ due' = [due EXCEPT ![s] = {}]
  /\ UNCHANGED <<store, premature>>

(* One statement of Ensure: a no-op for what exists already. *)
Ensure(s) ==
  /\ phase[s] = "ensure"
  /\ executed' = [executed EXCEPT ![s] = @ + 1]
  /\ installed' = IF installed < executed'[s] THEN executed'[s] ELSE installed
  /\ phase' = [phase EXCEPT ![s] = IF executed'[s] = Statements THEN "index" ELSE "ensure"]
  /\ UNCHANGED <<messages, index, rebuilt, needle, answer, due, premature>>

(* Mutant: nothing is ever backfilled. *)
NeverRebuild(s) ==
  /\ phase[s] = "index"
  /\ phase' = [phase EXCEPT ![s] = "query"]
  /\ UNCHANGED <<store, executed, needle, answer, due, premature>>

(* needsRebuild: an index with a row in it is taken for complete. *)
LookAtIndex(s) ==
  /\ phase[s] = "index"
  /\ phase' = [phase EXCEPT ![s] =
       IF \E m \in Message : index[m] # <<>> THEN "query" ELSE "messages"]
  /\ UNCHANGED <<store, executed, needle, answer, due, premature>>

LookAtMessages(s) ==
  /\ phase[s] = "messages"
  /\ phase' = [phase EXCEPT ![s] = IF Stored = {} THEN "query" ELSE "rebuild"]
  /\ UNCHANGED <<store, executed, needle, answer, due, premature>>

(* Mutant: the rebuild does not empty the index first. *)
RebuildOnTop(s) ==
  /\ phase[s] = "rebuild"
  /\ index' = [m \in Message |-> IF m \in Stored THEN Append(index[m], messages[m]) ELSE index[m]]
  /\ rebuilt' = TRUE
  /\ phase' = [phase EXCEPT ![s] = "query"]
  /\ UNCHANGED <<messages, installed, executed, needle, answer, due, premature>>

(* Rebuild: its own Ensure finds everything in place, since nothing drops  *)
(* it; the replacement of the index is one transaction.                    *)
Rebuild(s) ==
  /\ phase[s] = "rebuild"
  /\ index' = [m \in Message |-> IF m \in Stored THEN <<messages[m]>> ELSE <<>>]
  /\ rebuilt' = TRUE
  /\ phase' = [phase EXCEPT ![s] = "query"]
  /\ UNCHANGED <<messages, installed, executed, needle, answer, due, premature>>

(* The n newest rows of a set, ORDER BY create_time DESC ... LIMIT n. *)
Newest(rows, n) ==
  {r \in rows : Cardinality({q \in rows : q[1] > r[1] \/ (q[1] = r[1] /\ q[2] < r[2])}) < n}

(* The query: rows MATCH finds, joined with their messages, cut at the     *)
(* limit, and then only those whose text has the needle in it.             *)
Query(s) ==
  LET n == needle[s]
      rows == UNION {{<<m, i>> : i \in DOMAIN index[m]} : m \in Stored}
      matches == {r \in rows : index[r[1]][r[2]] \in Phrase[n]}
  IN
  /\ phase[s] = "query"
  /\ answer' = [answer EXCEPT ![s] = {r \in Newest(matches, Limit) : messages[r[1]] \in Literal[n]}]
  /\ due' = [due EXCEPT ![s] =
       LET all == {<<m, 1>> : m \in {x \in Stored : messages[x] \in Literal[n]}}
       IN {r[1] : r \in Newest(all, Limit)}]
  /\ phase' = [phase EXCEPT ![s] = "done"]
  /\ UNCHANGED <<store, executed, needle, premature>>

(* The client goes away, or the process does: what a statement has done    *)
(* stays done, and Rebuild's transaction happens whole or not at all.      *)
Abort(s) ==
  /\ Busy(s)
  /\ phase' = [phase EXCEPT ![s] = "idle"]
  /\ UNCHANGED <<store, executed, needle, answer, due, premature>>

Next ==
  \/ \E m \in Message, t \in Text : Insert(m, t) \/ Update(m, t)
  \/ \E s \in Search :
       \/ \E n \in Needle : Begin(s, n)
       \/ Ensure(s) \/ LookAtIndex(s) \/ LookAtMessages(s) \/ Rebuild(s) \/ Query(s)
       \/ Abort(s)

Spec == Init /\ [][Next]_vars

-----------------------------------------------------------------------------
(* No search shows a message twice, though two first searches may both find *)
(* the index empty and both rebuild it while jobs write (fts.go:67-86,      *)
(* 106-117).                                                                *)
NoDoubleHit ==
  \A s \in Search : \A r, q \in answer[s] : r[1] = q[1] => r = q

(* Once a rebuild is committed, the index holds every stored message with   *)
(* its current text, and no other row, whatever happens afterwards: the     *)
(* triggers were complete before the rebuild (fts.go:21-42, 67-86).         *)
ExactOnceRebuilt ==
  rebuilt => \A m \in Message : index[m] = IF m \in Stored THEN <<messages[m]>> ELSE <<>>

(* A search returns the newest of the messages that contain its needle, as  *)
(* many as were asked for, including those stored before anybody searched   *)
(* (fts.go:98-117, README.md:153), for needles MATCH finds wherever they    *)
(* occur, however searches interleave, are cut short or meet jobs that      *)
(* write; unless a job wrote between the first triggers and the first       *)
(* rebuild, while some message was not in the index.                        *)
SearchFindsAll ==
  ~premature => \A s \in Search : phase[s] = "done" => {r[1] : r \in answer[s]} = due[s]

(* The same, whenever jobs write: what has been taken in can be browsed and *)
(* searched (README.md:153).  Search means to see to it by a rebuild when   *)
(* the index is empty (fts.go:107-115, 175-188); one that is not empty      *)
(* passes for complete.                                                     *)
EverythingIsFound ==
  \A s \in Search : phase[s] = "done" => {r[1] : r \in answer[s]} = due[s]
=============================================================================
