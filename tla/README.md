# wxbackup: models, checks and proofs

wxbackup takes WeChat backup packages from a directory the phone's computer
client fills (the sidecar), turns them into one canonical SQLite database per
account, serves and searches that history over HTTP, and writes packages back
for the phone to restore. This directory holds TLA+ modules of the parts whose
steps interleave, fail or get killed, the TLC runs that check them, and TLAPS
proofs about the server's services, the package format and the two web pages. Every definition is translated from the
source at the lines `PROJECT.json` gives under `map`.

## 1. The system

| component | state | operations | talks to |
|---|---|---|---|
| backup job service (`internal/app/backup/service.go`) | map of runtime jobs, each with its record, context, stream, subscribers; table `backup_jobs` | Start, run (queued, transfer, organize, index, done), progress goroutine, Cancel, finish, Subscribe, Close, recover | device session, meta store, ingest |
| job events (`service.go` emit/forceSend/Subscribe, `http.go` streamSSE) | list of subscribers, a channel of eight per request | emit, forceSend, subscribe, read, unsubscribe | job service, HTTP clients |
| ingest (`ingest.go`) | account database, `media/` files, `incoming/` package | materialize, organize, one transaction per talker, media | account database, backup format |
| device sessions (`devicesession/sidecar.go`, `fake.go`; `capture` is a stub) | the package directory, streams with two channels | StartBackup, waitPackage, chunks filtered by cursors | job service, package directory |
| backup format (`backupfmt`) | Backup.db, BAK_n_TEXT, BAK_n_MEDIA | Write (clear, schema, transaction, shards, commit), Read | restore, ingest, sidecar |
| restore service (`internal/app/restore`) | runtime jobs, table `restore_jobs` | Start, run, Export, Close, recover | account database, package directory |
| stores (`internal/store/sqlite`) | meta.db, one account.db each behind a single connection | upserts, keyset pages, InTx, OpenAccount, DeleteAccount | everybody |
| full-text index (`internal/store/fts`) | FTS5 table and three triggers in account.db | Ensure, needsRebuild, Rebuild, Search | search handler; ingest through the triggers |
| HTTP API (`internal/http`) | none | reads, search, settings, password, delete | stores |
| web chat page (`stores/chat.js`, `ChatView.vue`) | what is selected and shown, signs of loading, generations of requests | syncRoute, loadConversations, loadMessages | HTTP API |
| web account page (`stores/accounts.js`, `HomeView.vue`) | accounts, settings, input fields, the delete dialog | fetchAccounts, fetchSettings, saveBackupRoot, setPassword, removeAccount | HTTP API |
| statistics, message types, media transcoder, password hash, configuration, migrations, scripts | none, or only at start | pure functions, external programs, wiring | - |

What is hard here: the run goroutine, the progress goroutine, the device's
goroutine, the request that cancels and the one that starts share a record under
one mutex and write it to the database outside it; events are sent to a copy of
a list; ingest is cut short anywhere and resumed from cursors; search builds its
index lazily while jobs write; a directory without locks is shared by jobs of
all accounts, restores, exports and the user; answers reach the web client in
any order.

What makes each part correct:

* jobs: one active per account; a row that ends, ends once, and equals what the
  service answered; nobody owns no row; counts grow; Cancel is answered; jobs end.
* events: in order, to everybody listed; once the job is over its streams end, with
  the last word.
* ingest: nothing the phone held is missing after a completed job, and every medium
  it had bytes of is whole; counts and cursors describe the stored rows.
* index: no double hits, exact once rebuilt, searches find what they should.
* package directory: a job gets one whole package, gets it, and it is its account's.
* restores: as jobs, and a job restores its own package, with every message that
  stood still while it was dumped, once and in order.
* accounts: one open database each; what was acknowledged stays; a deletion needs
  the password and leaves nothing behind.
* pages: complete and without repetition, whatever is stored between them.
* web: what is shown belongs to what is selected, and that to the route; the account
  page ends up with the server's settings; signs of loading go off.

## 2. Modules

| module | models | state and actions |
|---|---|---|
| `JobStatus` | `domain/job.go` | statuses, Terminal |
| `JobLedger` | what the two job tables promise; the order of the stages is a parameter | `ledger`: Admit (one active job per account), Advance (one stage), Abort |
| `BackupJob` | backup `service.go`, streams of `fake.go` and `sidecar.go`, kills by `deploy/fnos/cmd/main` | one goroutine place `pc` per job, its record `job` and durable `row`, its stream and progress goroutine; an action per step between two looks at shared state |
| `JobEvents` | emit, forceSend, Subscribe, streamSSE | one job as a version number; publisher phase, channels, readers |
| `Ingest` | materializePackage, organize, `ingest.go` | phone, stored messages, counts, cursors, media rows and files; workers are jobs |
| `FtsIndex` | `fts.go`, handleSearch, PutMessage with triggers | messages, index rows, installed statements, searches statement by statement |
| `PackageDir` | writer, `waitPackage`, reader, the user's copies, and what transfer and organize make of whose package it is | files of the directory, the writer's place, each waiting job's last look and what it took |
| `RestoreJob` | restore `service.go` with Export, StartRestore of the sidecar | as BackupJob, with its own stages; `package`, whose package the one directory holds, `exporting`, the exports that write into it, and `crossed`, the writers whose files another one touched |
| `AccountStore` | `settings.go`, PutAccount, OpenAccount, DeleteAccount, the jobs and searches that use an account | `row`, `files`, `jobRows` on disk; s.mu, the cached handle, the handles held; one place per request |
| `MessagePages` | ListMessages, dumpMessages, handleMessages | `table`, and per reader its cursor and what it has received |
| `ShardFiles` | writePackage's shards and segments, Read | `stage`; the shard writers with the log of what they have appended, the segment being gathered, the two indexes; the row read next and what has been read back |
| `PackageDump` | loadSnapshot, from the table to the package and back | composes the last two: conversations left, `dumped`, which of it is `unwritten`, and `owed`, what must be found again |
| `ChatView` | `web/src/stores/chat.js`, the watch of `ChatView.vue` | the store's fields, one record per call of syncRoute; a step is one turn of the event loop |
| `AccountsPage` | `web/src/stores/accounts.js`, `HomeView.vue`, the handlers of `settings.go` they call | the server's `row`s, the store, the page's fields, and per visit of the page the requests under way |
| `WebClient` | the router's two pages | composes the last two; a behaviour follows the user on one page |
| `*Proofs` | - | the theorems of section 5 |
| `MC*` | - | instances for TLC |

`BackupJob` and `RestoreJob` are shown to implement `JobLedger` by the mapping
`ledger[j] = row[j].status`, each with its own `Successor`. In `BackupJob` the package, messages and indexing
are one step each; `Ingest` opens that step up, `PackageDir` the wait for a
package, `JobEvents` what emit does after each write. `RestoreJob` loads and
writes in two steps each; `PackageDump` opens them up.

Mutants: each module also defines a few operators marked `Mutant:`, plausible
mistakes (a dropped check, a swapped order, a missing reset) that `PROJECT.json`
pairs with the property they break. No specification uses them.

### How the models abstract

* `BackupJob`: a job's record is status, session count and error kind; bytes
  received are left out (they are written with the count). Each identifier in
  `Job` is one call of Start. A database write either happens or is refused; it
  may be refused for jobs in `Faulty`, and `lost` remembers that. Start's errors
  before the conflict check change nothing. Cancel's branch for a missing
  runtime is not an action: by `NoOrphanRow` it can only meet a Start that has
  not registered its job yet. `Wait` is used by tests only.
* `JobEvents`: the job's life is any sequence of changes, ending in a terminal
  one or stopping before it for ever; BackupJob says which sequences occur.
* `Ingest`: a message is a number, its talker and create time are functions of
  it; upserts of equal rows are set union. The jobs of an account share one
  `incoming` directory: a package written into it replaces one another job has
  written and not yet read. The content of files is none, partial or whole.
  `late` remembers the messages that reached the phone after a newer one of
  their talker. Transcoding is left out.
* `FtsIndex`: a text is a model value, MATCH and containsFold are sets of texts
  given as constants; filters by type and date are left out. `premature`
  remembers a write into a half-built index.
* `PackageDir`: a package is a model value with an account; decoding another
  package's bytes either fails or yields `Mixed`. Time is polls: `StableFor`
  polls without a change stand for 400 ms. There is one writer at a time
  (`RestoreJob` has several). `disturbed` remembers that files changed while a
  job was inside Read.
* `RestoreJob`: the validation of selectors is left out; `Sessions` says how many
  conversations a job selects. Of the directories an export can name only the
  session's is modelled. The directory is whose package a reader would find;
  `Nobody` when it has none, `Other` when what it has is no job's: an export's
  own, or what two writers at once have left.
* `AccountStore`: one account, its nickname, avatar and login state left out, for
  nothing changes them. Closing a database succeeds. A backup job is what it does to
  the account: its row, its package below the account's directory, its use of the
  database. A user of a closed handle gets an error or panics; that the panic of a
  job's goroutine ends the process is Exit. Accounts are added by a tool that is
  not in the repository (`Provision`). The job modules assume that no account is
  deleted under a job.
* `MessagePages`: a message is its identifier and its place, create time and
  sequence number; the first page's state on the client is `reading`. Base64 of a
  cursor is left out: it is taken apart into what it was made of.
* `ShardFiles`: lengths are small numbers. The files of one kind are one log of
  records, each with the file and offset it lies at, and a range that cuts a record
  cannot be decoded. A segment carries, as history, which record it begins with.
  The read goes row by row through the two indexes; nobody writes meanwhile
  (`PackageDir` has those who do).
* `PackageDump`: writing and paging have no variable in common, so page steps are
  taken before writing begins only; one restore is followed. Which media have bytes
  is chosen when writing begins.
* `ChatView`: what is shown is the account or pair it was fetched for; a list that
  could not be fetched is `Nothing`, and `error` says whether the store has an
  error to show. `overtaken` remembers that a call went on for a talker left since.
* `AccountsPage`: an account is its path and whether it has a password. A request is
  asked, handled and answered, in any order, and any answer may be lost. The
  server's handlers are one step each (`AccountStore` has those that overlap). A
  page has one change under way, for `busy` disables its buttons; a page left with
  one under way and the next page may have one each. Two histories: `strayed`, an
  answer was lost or arrived when a change had outdated it; `early`, a path was
  saved before the page had filled its fields.

## 3. Runs

| run | checks | bounds, and why they do |
|---|---|---|
| `backup_jobs` | TypeOK, DurableOutcome, NoOrphanRow, OneActivePerAccount, ProgressNeverRegresses, refinement of JobLedger, CancelCompletes, EveryJobSettles | two Starts of one account, not in flight together; two chunks, progress channel of one slot, so the device really blocks; one job's writes may be refused; kills and Close anywhere |
| `backup_overlap` (violation) | OneActivePerAccount | Starts in flight together |
| `events` | NobodyLeftBehind, LastWordDelivered, EventsInOrder, StreamEnds | two listeners, channels of two slots against five events, so every full-channel branch is taken |
| `ingest_talkers` | NothingLost, MediaServed, SummariesMatch | one worker, four messages: one without a time, two of equal time, one of another talker; arrivals in any order; two of them can be cleared from the phone; a media object; any sequence of modes, aborts, kills. That SummariesMatch holds for jobs that overlap is proved (section 5) |
| `fts_races` | NoDoubleHit, ExactOnceRebuilt, SearchFindsAll | two searches, three messages, limit two, so the limit cuts |
| `fts_missed` (violation) | EverythingIsFound | two messages |
| `package_waits` | TypeOK, WholeSnapshot, PackageArrives | two jobs of two accounts polling, three writes or copies of two packages, so that one can fail or be killed before and after a good one; two stable polls |
| `foreign_package` (violation) | OwnHistoryOnly | one write |
| `restore` | DurableOutcome, RestoredItsOwn, refinement of JobLedger | two jobs of one account, with nothing to restore, one of another with a conversation, and an export: any of them in the directory at once, and one after the other; one job's writes may be refused |
| `accounts` | OneOpenHandle, NothingLeftBehind, AcknowledgedKept, DeletionAuthorised | one request of each kind and two deletions, each repeated at will (the backup job once per life of the account); two databases opened between kills, so that one is opened after a deletion |
| `dump` | DumpTypeOK, PagesComplete, RoundTrip, Restored | four messages, three of one talker; one can be moved before, between and behind the others by time, number and id; pages of two and of one; one message fills a shard, so that a shard is rotated before and behind it; another, and one of three media, is too long for the reader, so that a read is refused in either index |
| `web_pages` | WebTypeOK, ShownIsSelected, RouteIsShown, PageMatchesServer, NothingBlanked, LoadingStops, PageLoads | chat page: three navigations over two accounts and two talkers, a call, one that overtakes it, one that returns; account page: one account, two visits, so that two fetches cross, and two changes, so that a save and a deletion, or two saves of two visits, do |

The other modules' TypeOK are proved (section 5). Deadlock checking is off where
the system may rest: all streams over, no writes left within the bound, the
package written, all navigations answered, the last visit at rest. Bounds:
`MaxChunks`, `MaxSessions`, `MaxVersion`, `MaxWrites`, `MaxNavigations`,
`MaxVisits`, `MaxChanges`, `MaxHandles`, the sets given in the `.cfg` files,
and `StableFor`, `ChannelCap`, `ProgressCap`, `Limit`, `MaxPage`, `Magic`,
`MaxShard`, `MaxSegment`, which stand for larger numbers of the code.

### Conditions under which the passing properties hold

* OneActivePerAccount and the refinement: Starts do not overlap (`ConcurrentStarts`).
* DurableOutcome, EveryJobSettles: the database did not refuse a write of that job.
* EveryJobSettles: the phone delivers, or the wait for it fails (`PhoneAnswers`).
* StreamEnds: the job is over, and the write of "done" was not refused. A job that
  waits for its package for ever (sidecar.go:138-188 has no timeout) keeps its streams
  open. LastWordDelivered: the reader's channel was not full when the last event came.
* NothingLost: jobs of an account do not overlap; a message that reached the phone
  after a newer one of its talker is owed by full jobs only. MediaServed: jobs of
  an account do not overlap.
* SearchFindsAll: no job wrote between the first triggers and the first rebuild
  while a message was missing from the index, and MATCH finds the needle wherever
  it occurs.
* WholeSnapshot: no file changes while Read is running. PackageArrives: no journal
  is left beside the package.
* RestoredItsOwn: no other restore, and no export, has touched the directory since
  the job began to write.
* NothingLeftBehind: no backup of the account was under way during its deletion.
  AcknowledgedKept: no other change came between a request's read and its write.
  DeletionAuthorised: the row is the one the deletion had read.
  OneOpenHandle: of those whose handle a deletion has just closed nothing is said.
* PagesComplete: the client asks for fewer than `MaxPage` messages. RoundTrip: no
  record is longer than `MaxSegment`. Both, and Restored: the message was not moved
  while its conversation was read.
* RouteIsShown: the last call to go on was not for a talker left within its account.
* PageMatchesServer: no answer was lost, and none came after a change had outdated
  it, with no later answer to set it right. NothingBlanked: the same, and no path
  was saved before the page had filled its fields.

### What the violation runs show

* `backup_overlap`: Start checks for an active job and inserts its own row later,
  with nothing held in between; two requests both pass.
* `fts_missed`: a message committed between the first search's triggers and its
  look at the index makes the index look complete, and older messages stay
  unindexed.
* `foreign_package`: the sidecar's directory is every account's, its chunks do not
  say whose they are, and transfer stamps them with the job's account; the check
  of ingestSnapshot (ingest.go:48-50) then compares the account with itself, and a
  job stores another account's package as its own.

### Observations without a run

The models, or a run of them with an excuse taken away, or the reading they took
show these too:

* a refused write of "done" leaves an active row without a goroutine, so that Start
  answers ErrConflict until a restart (`finish`, service.go:524-539), and the streams
  of the job never end (`muted` in JobEvents);
* a job cancelled while it waits for a package ends as failed (service.go:321-324);
* a reader that empties its full channel between forceSend's two selects is closed
  without the last event (service.go:572);
* a message that reaches the phone with a time before the cursor is stored by a full
  job only (ingest.go:215);
* a later package that lists a medium without its bytes makes the row unavailable
  though the file is there (ingest.go:104-123, canonical.go:144-166), and a kill in
  mid-write leaves a short file under an available row until a job has the bytes;
* a keyword inside an unbroken run of Chinese characters is not found, since
  unicode61 makes one token of the run (fts.go:28);
* a kill in mid-write leaves `Backup.db-journal`, which clearPackageFiles does not
  know (writer.go:407) and fingerprint takes for a writer (sidecar.go:204): a
  package the user copies in afterwards is never picked up;
* restores of two accounts share the sidecar's directory with no lock, and
  StartRestore may read the other's package (restore service.go:254-276); an export
  may name that directory too (restore service.go:226); and any such write clears
  a package the user has put there and no job has read yet;
* deleting an account under a running job leaves the job's row and its `incoming`
  directory behind, and the job's next statement finds a nil database (meta.go:80-86);
  a settings request that had read the account inserts it again (meta.go:32);
* a settings request that read the account before a password was set stores it
  without one (settings.go:38-55);
* a client that asks for 1000 messages, the most both parseLimit and ListMessages
  allow, never gets `next_before` and loses the rest (api.go:127, canonical.go:107);
* a record over 64 MiB, a video say, is written but refused by the reader, so a
  package with one cannot be restored (writer.go:368-385, reader.go:258);
* a call of syncRoute that resumes after its await compares only the account, and
  selects a talker that was left (chat.js:25); loadMessages clears the error of a
  loadConversations that failed, so that the page says there are no conversations
  (chat.js:59); while those of a newly selected account are fetched, the old
  account's messages are still on the page (ChatView.vue:74-80);
* an answer to fetchSettings that a change has outdated overwrites the newer
  settings, or brings back those of a deleted account (accounts.js:38-41); a path
  saved before the page's fetch is over is stored as the empty field
  (HomeView.vue:55), and what was typed by then is overwritten (HomeView.vue:39-41);
* a second server on the same data runs recover before it finds the port taken, and
  marks the first one's running jobs as failed (service.go:106, cmd/server/main.go:63);
  the models have one process.

## 4. Fairness

* BackupJob: goroutines that can take a step do (Go's scheduler), and so does the
  device's goroutine once its package is in memory; New runs after a kill (the
  service manager starts the process again) and recovers. Requests, kills and the
  phone owe nothing; `PhoneAnswers` is a hypothesis of EveryJobSettles only.
* JobEvents: a change that has been made gets told, and a connected reader goes on
  (Go's scheduler). The job owes no change and need not end; nobody has to subscribe
  or to go away.
* PackageDir: a write or copy that has begun goes on, the ticker ticks, a read ends.
  Nobody has to write.
* ChatView: every request is answered or fails. AccountsPage: so is every request
  of a fetch; saves and deletions owe nothing, and the user does not either.
* Ingest, FtsIndex, RestoreJob, AccountStore and PackageDump have safety properties
  only (with three jobs RestoreJob is too large for TLC's liveness check).

## 5. Proofs

Checked by tlapm, for any number of jobs, accounts, messages, requests and files,
any capacity, limit and bound, and any faults:

| module | theorem | states |
|---|---|---|
| `BackupJobProofs` | `TypeCorrect`, `OutcomeIsDurable`, `RowsAreOwned` | TypeOK, DurableOutcome, NoOrphanRow |
| | `CountsOnlyGrow` | ProgressNeverRegresses |
| | `AtMostOneActive`, `ImplementsLedger` | OneActivePerAccount, LedgerSpec, assuming Starts do not overlap |
| `JobEventsProofs` | `TypeCorrect`, `EverybodyIsClosed`, `LastWordArrives`, `OrderIsKept` | TypeOK, NobodyLeftBehind, LastWordDelivered, EventsInOrder |
| `IngestProofs` | `TypeCorrect`, `SummariesAreExact` | TypeOK and SummariesMatch, however many jobs overlap |
| | `NoMessageIsLost`, `MediaAreServed` | NothingLost, MediaServed, assuming jobs do not overlap |
| `FtsIndexProofs` | `TypeCorrect`, `HitsAreSingle`, `ExactAfterRebuild` | TypeOK, NoDoubleHit, ExactOnceRebuilt |
| | `SearchIsComplete` | SearchFindsAll, assuming MATCH finds needles wherever they occur |
| `PackageProofs` | `TypeCorrect`, `SnapshotIsWhole` | `PackageDir`'s TypeOK, WholeSnapshot |
| | `DumpTypeCorrect`, `PagesMissNothing`, `PackagesReadBack`, `WhatStoodStillIsRestored` | `PackageDump`'s DumpTypeOK, PagesComplete, RoundTrip, Restored |
| `RestoreJobProofs` | `TypeCorrect`, `OutcomeIsDurable`, `OwnPackageRestored` | TypeOK, DurableOutcome, RestoredItsOwn |
| | `ImplementsLedger` | LedgerSpec, assuming Starts do not overlap |
| `AccountStoreProofs` | `TypeCorrect`, `HandleIsShared`, `DeletionIsComplete`, `SettingsAreKept`, `DeletionNeedsPassword` | TypeOK, OneOpenHandle, NothingLeftBehind, AcknowledgedKept, DeletionAuthorised |
| `WebClientProofs` | `WebTypeCorrect`, `ChatShowsSelected`, `ChatShowsRoute` | WebTypeOK, ShownIsSelected, RouteIsShown |
| | `AccountsConverge`, `PathsNotBlanked` | PageMatchesServer, NothingBlanked |

Each module first proves that its inductive invariant holds (`Invariance`,
`SerialInvariance`; `DumpStepInv` for the dump), with a lemma per action. The
assumptions are the modules' ASSUMEs (`ConstantsOK`, `PagesOK`, `ShardsOK`,
`DumpOK`), which TLC evaluates, and what the table names. Hardly one of the
properties is inductive; what has to be added is the reason the code works:

* `BackupJobProofs`: a row equals the record at the end only because it did at each
  earlier stage: it is behind the record by exactly the write the goroutine is
  about to make, and while a stream is open by what the progress goroutine holds.
  `StageOK` ties the goroutine's place `pc` to the statuses of record and row,
  `ProgressOK` the copy the progress goroutine is about to write, what it has taken
  and the device has sent, `StartOK` the stages of Start to the row it has or has
  not inserted; what a step does to other jobs is the lemma `Frame`. `SerialInv`
  adds that at most one Start is between check and registration, and that while it
  is there its account has no rival; most steps only make active rows fewer
  (`Quiet`). The refinement follows per step: a table write is an Advance, an Abort
  or a stutter, an insertion an Admit.
* `RestoreJobProofs`: the same argument with restore's stages, and `OwnOK`: the
  directory holds the package of a job that has written it and that nobody has
  crossed, up to the hand-over. `DirKept` says what a step of one writer leaves of
  the others' packages.
* `JobEventsProofs`: `OrderOK`, what a channel holds lies between its reader's last
  event and the job, in order; `EndOK`, who is still reading is listed or has a
  channel that will be, or is, closed behind the last event; `PublisherOK`, what
  the publisher's place says of the job, the list and its copy.
* `IngestProofs`: `OldCursors`, a cursor read at any time and used talkers later is
  `Behind` what is stored: no later, and no more.
  Without overlaps (`SerialInvariance`): of the messages on the phone or in a package, one older than
  a stored one of its talker is stored too, late ones apart (`InOrder`), so a cursor
  covers only what is stored (`Takes`, `Covers`, with `Dated` and `Listed` about
  what a job has read), and what a job owes is stored or still in its package
  (`Kept`). For media, `Filing` says what file and row are between the steps of a
  file's writing, `MediaKept` what a job has done and has still to do.
* `FtsIndexProofs`: `Lean`, one row per stored message at most; `Installed`, a
  search past Ensure has its triggers; `Sound`, unless a job wrote into a half-built
  index, an index anybody would trust is exact.
* `PackageProofs`, the directory: `Coherent`, outside of a copy an index with rows and shards
  are one written package; `PlaceOK`, what the writer's place, a kill at it
  included, leaves in the files; `LookOK`, what a look that was not followed by a
  change still says of them.
* `PackageProofs`, the dump: `PagesInv`, a reader's messages lie in order above its
  cursor, and what stood still it has or will meet below it (`CursorOK`,
  `SteadyOK`); that pages are of a total order, so that the next one begins where
  the last one ended, is `OlderOrder`. `WrittenOK`, the log holds what is no longer
  unwritten, in order and before all that is; `LogOK` and `TilesOK`, records lie
  without overlap, and the segments, with the one being gathered, cover the log
  piece by piece, each within one file; `BlobsOK`, a medium's row is the range of
  its object; `ReadOK`, what has been read is the beginning of the log. That a range
  determines the records that fill it is `FillFacts`. `DumpOK` assumes that a shard
  that can be rotated is no longer than the reader takes (4 MiB against 64 in the
  code): without that a whole segment, not only a record, could be too long.
* `AccountStoreProofs`: `LockOK`, who holds s.mu between which steps; `ReadOK`, what
  a request that has read the row may know; `LeftOK`, a deletion at its commit has
  left no file.

* `WebClientProofs`, the chat page: `GensOK`, the request of the latest generation is
  for what the store now holds, and `CountOK`, generations never outrun the calls,
  so that an overtaken answer is known by its generation; `FollowsRoute`, the store
  holds the route's account and talker or a call that will set them is waiting;
  `LoadingOK` and `ErrorOK`, why a page without messages is not a finished one.
  The account page: `AnswersOK`, an answer leaves out no account that is still
  there; `ListedOK` and `SettingsOK`, where list or settings differ from the
  server's, an answer that repairs them is on its way; `NoBlankStored`,
  `NoBlankOnItsWay` and `NoBlankShown` follow a path from the server to the store,
  the field, the request and back.

Only model-checked: everything under fairness (EveryJobSettles, CancelCompletes,
StreamEnds, PackageArrives, LoadingStops, PageLoads), which is out of the prover's
reach. Every safety invariant and action property of a passing run is a theorem.

## 6. Not modelled, and why

The capture session answers ErrNotImplemented. Statistics are one read-only query;
message types, access password and transcoder are functions; migrations run before
anything else; configuration and server wire the rest; web cards render. Of the fake
session Hold and Release, which only tests use, are left out; of the scripts
everything but the kill of `stop_process`.

## 7. Plan

1. `RestoreJob` refined by the writer of `PackageDir`, the writer's place being a
   job's, with writers that overlap file by file.
2. Liveness of restores with two jobs: a Close returns, every job ends.
3. `AccountStore` with a restore job, whose dump reads the database over many
   statements.
4. Two processes on one data directory: recover against running jobs.
