---------------------------- MODULE AccountStore ----------------------------
(***************************************************************************)
(* One account of the store (internal/store/sqlite/store.go, meta.go): its *)
(* row in meta.db, its directory, its job rows, and the one database       *)
(* handle all its users share, under the requests that change them.        *)
(*                                                                         *)
(* Settings and password requests (internal/http/settings.go) read the     *)
(* whole row, change a field and write it all back.  A deletion checks the *)
(* password against a row it has read and then, under s.mu, closes the     *)
(* handle, removes the files and deletes the rows.  Meanwhile searches and *)
(* backup jobs open the account, keep its handle, write into its directory *)
(* and store their rows, and only OpenAccount takes s.mu.                  *)
(*                                                                         *)
(* An identifier of a request serves any number of calls, one at a time; a *)
(* backup job's again once a deletion has removed its row.                 *)
(***************************************************************************)
EXTENDS Naturals, FiniteSets

CONSTANTS Settings, Passwording, Deletion,  \* requests, by what they ask
          Search, Backup,                   \* users of the account's database
          Root, Password,                   \* values a request can ask for
          NoPassword,                       \* an account without a password
          Gone,                             \* no row
          None,                             \* no handle, nothing given
          MaxHandles                        \* bound: databases ever opened

ASSUME ConstantsOK ==
  /\ NoPassword \notin Password \cup {None} /\ None \notin Password
  /\ MaxHandles \in Nat \ {0} /\ None \notin 1..MaxHandles
  /\ None \notin Settings \cup Passwording \cup Deletion \cup Search \cup Backup
  /\ Gone \notin [root : Root, pwd : Password \cup {NoPassword}]

User    == Search \cup Backup
Reader  == Settings \cup Passwording \cup Deletion
Request == Reader \cup User

Accounts == [root : Root, pwd : Password \cup {NoPassword}]

VARIABLES
  row,      \* the account's row in meta.db, or Gone
  files,    \* whether its directory exists
  jobRows,  \* the backup jobs that have a row
  place,    \* where each request is
  got,      \* the row each request that keeps it has read
  given,    \* the password a deletion was given
  lock,     \* who holds s.mu
  cached,   \* the handle in s.accts
  opened,   \* the handles whose database is open
  opens,    \* how many databases have been opened
  held,     \* the handle each user has
  want,     \* history: the account as acknowledged requests made it
  evicted,  \* history: users that held a handle when it was closed
  overrun   \* history: whether a backup was under way during a deletion

disk    == <<row, files, jobRows>>
handles == <<cached, opened, opens>>
history == <<want, evicted, overrun>>
vars    == <<disk, place, got, given, lock, handles, held, history>>

Places == {"idle", "store", "lock", "close", "remove", "commit", "open", "use",
           "put", "package", "acquire", "settle"}

TypeOK ==
  /\ row     \in Accounts \cup {Gone}
  /\ files   \in BOOLEAN
  /\ jobRows \in SUBSET Backup
  /\ place   \in [Request -> Places]
  /\ got     \in [Reader -> Accounts \cup {Gone}]
  /\ given   \in [Deletion -> Password \cup {None}]
  /\ lock    \in Request \cup {None}
  /\ cached  \in (1..MaxHandles) \cup {None}
  /\ opened  \in SUBSET (1..MaxHandles)
  /\ opens   \in 0..MaxHandles
  /\ held    \in [User -> (1..MaxHandles) \cup {None}]
  /\ want    \in Accounts
  /\ evicted \in SUBSET User
  /\ overrun \in BOOLEAN

New(root) == [root |-> root, pwd |-> NoPassword]

Init ==
  /\ \E root \in Root : row = New(root)
  /\ files = FALSE /\ jobRows = {}
  /\ place = [r \in Request |-> "idle"]
  /\ got = [r \in Reader |-> Gone]
  /\ given = [r \in Deletion |-> None]
  /\ lock = None /\ cached = None /\ opened = {} /\ opens = 0
  /\ held = [u \in User |-> None]
  /\ want = row /\ evicted = {} /\ overrun = FALSE

Goes(r, from, to) == place[r] = from /\ place' = [place EXCEPT ![r] = to]

(* loadAccount: the request has the row, or is answered 404. *)
Load(r, next) ==
  /\ row # Gone
  /\ Goes(r, "idle", next)
  /\ got' = [got EXCEPT ![r] = row]

-----------------------------------------------------------------------------
(* handlePutSettings and handlePutPassword. *)

LoadToChange(r) ==
  /\ r \in Settings \cup Passwording
  /\ Load(r, "store")
  /\ UNCHANGED <<disk, given, lock, handles, held, history>>

(* PutAccount inserts the row it is given, or overwrites all but its key.   *)
PutAccount(r, account) ==
  /\ Goes(r, "store", "idle")
  /\ row' = account
  /\ got' = [got EXCEPT ![r] = Gone]
  /\ UNCHANGED <<files, jobRows, given, lock, handles, held, evicted, overrun>>

(* The account as it is wanted once r has been told that its change is     *)
(* stored.  If the row is not the one r read, other requests straddled it, *)
(* and r's row is the one that counts.                                     *)
Wanted(r, change) == IF got[r] = row THEN change ELSE row'

(* Mutant: the account is built from the request's body. *)
StoreBody(r) ==
  /\ r \in Settings /\ place[r] = "store"
  /\ \E root \in Root : /\ PutAccount(r, New(root))
                        /\ want' = Wanted(r, [want EXCEPT !.root = root])

StoreRoot(r) ==
  /\ r \in Settings /\ place[r] = "store"
  /\ \E root \in Root : /\ PutAccount(r, [got[r] EXCEPT !.root = root])
                        /\ want' = Wanted(r, [want EXCEPT !.root = root])

StorePassword(r) ==
  /\ r \in Passwording /\ place[r] = "store"
  /\ \E pwd \in Password : /\ PutAccount(r, [got[r] EXCEPT !.pwd = pwd])
                           /\ want' = Wanted(r, [want EXCEPT !.pwd = pwd])

-----------------------------------------------------------------------------
(* handleDeleteAccount and DeleteAccount. *)

(* Mutant: an empty password is let through. *)
OpensLoosely(pwd, attempt) == attempt \in {pwd, None}

(* checkAccessPassword. *)
Opens(pwd, attempt) == pwd = NoPassword \/ attempt = pwd

(* The account is read and the password checked against it; a wrong or     *)
(* missing one is refused.                                                 *)
AskDelete(d) ==
  /\ d \in Deletion
  /\ Load(d, "lock")
  /\ \E attempt \in Password \cup {None} :
       /\ Opens(row.pwd, attempt)
       /\ given' = [given EXCEPT ![d] = attempt]
  /\ UNCHANGED <<disk, lock, handles, held, history>>

(* A deletion is answered. *)
Answer(d) ==
  /\ got' = [got EXCEPT ![d] = Gone]
  /\ given' = [given EXCEPT ![d] = None]

Lock(r) == lock = None /\ lock' = r

Unlock(r) == lock = r /\ lock' = None

(* s.mu is taken; GetAccountByWxID may find that the row has gone. *)
LockDelete(d) ==
  /\ d \in Deletion /\ Lock(d)
  /\ Goes(d, "lock", "close")
  /\ UNCHANGED <<disk, got, given, handles, held, history>>

DeleteMissing(d) ==
  /\ d \in Deletion /\ row = Gone
  /\ Goes(d, "close", "idle") /\ Unlock(d) /\ Answer(d)
  /\ UNCHANGED <<disk, handles, held, history>>

(* Mutant: the rows go first, the files after them. *)
CommitFirst(d) ==
  /\ d \in Deletion /\ row # Gone
  /\ Goes(d, "close", "remove")
  /\ row' = Gone /\ jobRows' = {}
  /\ opened' = opened \ {cached} /\ cached' = None
  /\ evicted' = evicted \cup {u \in User : held[u] # None}
  /\ UNCHANGED <<files, got, given, lock, opens, held, want, overrun>>

(* The shared handle is closed and forgotten, whoever is using it. *)
CloseHandle(d) ==
  /\ d \in Deletion /\ row # Gone
  /\ Goes(d, "close", "remove")
  /\ opened' = opened \ {cached}
  /\ cached' = None
  /\ evicted' = evicted \cup {u \in User : held[u] # None}
  /\ UNCHANGED <<disk, got, given, lock, opens, held, want, overrun>>

Underway(b) == b \in Backup /\ place[b] # "idle"

(* RemoveAll succeeds. *)
RemoveFiles(d) ==
  /\ d \in Deletion
  /\ Goes(d, "remove", "commit")
  /\ files' = FALSE
  /\ overrun' = \E b \in Backup : Underway(b)
  /\ UNCHANGED <<row, jobRows, got, given, lock, handles, held, want, evicted>>

(* RemoveAll or the transaction fails: the row stays. *)
DeleteFails(d) ==
  /\ d \in Deletion
  /\ Goes(d, "remove", "idle") \/ Goes(d, "commit", "idle")
  /\ Unlock(d) /\ Answer(d)
  /\ UNCHANGED <<disk, handles, held, history>>

(* The transaction: job rows and account row go together. *)
CommitDelete(d) ==
  /\ d \in Deletion
  /\ Goes(d, "commit", "idle") /\ Unlock(d) /\ Answer(d)
  /\ row' = Gone /\ jobRows' = {}
  /\ overrun' = (overrun \/ \E b \in Backup : Underway(b))
  /\ UNCHANGED <<files, handles, held, want, evicted>>

-----------------------------------------------------------------------------
(* Searches and backup jobs. *)

(* A search is for an account that exists; so is a Start. *)
BeginSearch(u) ==
  /\ u \in Search /\ row # Gone
  /\ Goes(u, "idle", "acquire")
  /\ UNCHANGED <<disk, got, given, lock, handles, held, history>>

BeginBackup(b) ==
  /\ b \in Backup /\ b \notin jobRows /\ row # Gone
  /\ Goes(b, "idle", "put")
  /\ UNCHANGED <<disk, got, given, lock, handles, held, history>>

Deleting == \E d \in Deletion : place[d] = "commit"

(* The job's row is stored, whether the account's still exists or not. *)
PutJob(b) ==
  /\ b \in Backup
  /\ Goes(b, "put", "package") \/ Goes(b, "settle", "idle")
  /\ jobRows' = jobRows \cup {b}
  /\ overrun' = (overrun \/ Deleting)
  /\ UNCHANGED <<row, files, got, given, lock, handles, held, want, evicted>>

(* materializePackage writes incoming/ below the account's directory. *)
WritePackage(b) ==
  /\ b \in Backup /\ Goes(b, "package", "acquire")
  /\ files' = TRUE
  /\ overrun' = (overrun \/ Deleting)
  /\ UNCHANGED <<row, jobRows, got, given, lock, handles, held, want, evicted>>

(* The job fails before that, or is cancelled. *)
GiveUp(b) ==
  /\ b \in Backup
  /\ Goes(b, "package", "settle") \/ Goes(b, "acquire", "settle")
  /\ UNCHANGED <<disk, got, given, lock, handles, held, history>>

(* Where a user goes when it is through with the database. *)
After(u) == IF u \in Backup THEN "settle" ELSE "idle"

(* OpenAccount takes s.mu. *)
LockOpen(u) ==
  /\ u \in User /\ Lock(u)
  /\ Goes(u, "acquire", "open")
  /\ UNCHANGED <<disk, got, given, handles, held, history>>

(* OpenAccount: there is no such account. *)
OpenMissing(u) ==
  /\ u \in User /\ row = Gone
  /\ Goes(u, "open", After(u)) /\ Unlock(u)
  /\ UNCHANGED <<disk, got, given, handles, held, history>>

(* OpenAccount: the handle in the map, when its database is open. *)
OpenCached(u) ==
  /\ u \in User /\ row # Gone /\ cached \in opened
  /\ Goes(u, "open", "use") /\ Unlock(u)
  /\ held' = [held EXCEPT ![u] = cached]
  /\ evicted' = evicted \ {u}
  /\ UNCHANGED <<disk, got, given, handles, want, overrun>>

(* Mutant: the new handle is not put into the map. *)
OpenPrivate(u) ==
  /\ u \in User /\ row # Gone /\ cached \notin opened /\ opens < MaxHandles
  /\ Goes(u, "open", "use") /\ Unlock(u)
  /\ opens' = opens + 1 /\ opened' = opened \cup {opens + 1}
  /\ files' = TRUE
  /\ held' = [held EXCEPT ![u] = opens + 1]
  /\ evicted' = evicted \ {u}
  /\ UNCHANGED <<row, jobRows, got, given, cached, want, overrun>>

(* OpenAccount: the directory and the database are made or opened anew. *)
OpenNew(u) ==
  /\ u \in User /\ row # Gone /\ cached \notin opened /\ opens < MaxHandles
  /\ Goes(u, "open", "use") /\ Unlock(u)
  /\ opens' = opens + 1 /\ opened' = opened \cup {opens + 1} /\ cached' = opens + 1
  /\ files' = TRUE
  /\ held' = [held EXCEPT ![u] = opens + 1]
  /\ evicted' = evicted \ {u}
  /\ UNCHANGED <<row, jobRows, got, given, want, overrun>>

(* OpenAccount: the directory, the database or a migration fails. *)
OpenFails(u) ==
  /\ u \in User /\ row # Gone /\ cached \notin opened
  /\ Goes(u, "open", After(u)) /\ Unlock(u)
  /\ files' \in {files, TRUE}
  /\ UNCHANGED <<row, jobRows, got, given, handles, held, history>>

(* The database is used, for any number of statements, and let go. *)
Use(u) ==
  /\ u \in User /\ held[u] \in opened
  /\ Goes(u, "use", After(u))
  /\ held' = [held EXCEPT ![u] = None]
  /\ evicted' = evicted \ {u}
  /\ UNCHANGED <<disk, got, given, lock, handles, want, overrun>>

(* The handle has been closed, and its db is nil: the statement fails, or  *)
(* panics, which ends a request and, in a job's goroutine, the process.    *)
UseFails(u) ==
  /\ u \in User /\ held[u] \notin opened
  /\ Goes(u, "use", After(u))
  /\ held' = [held EXCEPT ![u] = None]
  /\ evicted' = evicted \ {u}
  /\ UNCHANGED <<disk, got, given, lock, handles, want, overrun>>

-----------------------------------------------------------------------------
(* The process ends: killed, or by the panic of a backup's goroutine.       *)
Exit ==
  /\ place'  = [r \in Request |-> "idle"]
  /\ got'    = [r \in Reader |-> Gone]
  /\ given'  = [r \in Deletion |-> None]
  /\ lock'   = None /\ cached' = None /\ opened' = {}
  /\ held'   = [u \in User |-> None]
  /\ evicted' = {}
  /\ UNCHANGED <<disk, opens, want, overrun>>

(* Somebody outside these modules adds the account again. *)
Provision ==
  /\ row = Gone
  /\ \E root \in Root : row' = New(root)
  /\ want' = row'
  /\ UNCHANGED <<files, jobRows, place, got, given, lock, handles, held, evicted, overrun>>

Change(r) == LoadToChange(r) \/ StoreRoot(r) \/ StorePassword(r)

Delete(d) == \/ AskDelete(d) \/ LockDelete(d) \/ DeleteMissing(d) \/ CloseHandle(d)
             \/ RemoveFiles(d) \/ DeleteFails(d) \/ CommitDelete(d)

Work(u) == \/ BeginSearch(u) \/ BeginBackup(u) \/ PutJob(u) \/ WritePackage(u) \/ GiveUp(u)
           \/ LockOpen(u) \/ OpenMissing(u) \/ OpenCached(u) \/ OpenNew(u) \/ OpenFails(u)
           \/ Use(u) \/ UseFails(u)

Next ==
  \/ \E r \in Request : Change(r) \/ Delete(r) \/ Work(r)
  \/ Exit \/ Provision

Spec == Init /\ [][Next]_vars

-----------------------------------------------------------------------------
(* "One connection avoids SQLITE_BUSY" (store.go:191): an account has at    *)
(* most one open database, and whoever holds a handle holds that one,       *)
(* through deletions and openings in any order.  A user whose handle a      *)
(* deletion closed is excused: it is about to fail.                         *)
OneOpenHandle ==
  /\ opened \subseteq {cached}
  /\ \A u \in User : held[u] # None /\ u \notin evicted => held[u] \in opened

(* "Drop files first so a failed RemoveAll leaves the meta row"             *)
(* (meta.go:88): an account that is not listed has left neither files nor   *)
(* job rows, wherever a deletion failed or was killed.  Excused is a        *)
(* deletion during which a backup of the account was under way.             *)
NothingLeftBehind ==
  row = Gone /\ ~overrun => ~files /\ jobRows = {}

(* What settings and password requests were told is stored stays stored     *)
(* (settings.go:38-83): no request that reads and writes without another    *)
(* one in between changes what an earlier one set.                          *)
AcknowledgedKept == row # Gone => row = want

(* An account goes only by a deletion that gave the password in force       *)
(* (settings.go:103-127, 151-162), unless it was changed after the          *)
(* deletion had read the account.                                           *)
DeletionAuthorised ==
  [][row # Gone /\ row' = Gone =>
       \E d \in Deletion : /\ lock = d
                           /\ row.pwd \in {NoPassword, given[d]} \/ got[d] # row]_row
=============================================================================
