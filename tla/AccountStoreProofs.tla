-------------------------- MODULE AccountStoreProofs --------------------------
(***************************************************************************)
(* Proofs about AccountStore, for any number of requests, values and       *)
(* databases ever opened.  IInv adds to the four safety properties who      *)
(* holds s.mu, what a request that has read the account knows of it, and    *)
(* that a deletion at its commit has left no file behind.                   *)
(***************************************************************************)
EXTENDS AccountStore, TLAPS

(* Who is between Lock and Unlock holds s.mu, and a row under deletion      *)
(* stays until the deletion's commit.                                       *)
LockOK ==
  \A r \in Request :
    /\ place[r] \in {"close", "remove", "commit", "open"} => lock = r
    /\ place[r] \in {"remove", "commit"} => row # Gone

(* What a request has read, and the password a deletion was checked with.   *)
ReadOK ==
  /\ \A r \in Reader : place[r] = "store" => got[r] \in Accounts
  /\ \A d \in Deletion : place[d] \in {"lock", "close", "remove", "commit"} =>
       got[d] \in Accounts /\ got[d].pwd \in {NoPassword, given[d]}

(* Without a backup that runs into a deletion, a deletion at its commit has *)
(* left no file, and an account that is gone neither files nor jobs.        *)
LeftOK ==
  /\ \A d \in Deletion : place[d] = "commit" /\ ~overrun => ~files
  /\ row = Gone /\ ~overrun => ~files /\ jobRows = {} /\ \A b \in Backup : ~Underway(b)

IInv == /\ TypeOK /\ LockOK /\ ReadOK /\ LeftOK
        /\ OneOpenHandle /\ AcknowledgedKept

(* A settings or password request reads the account.                       *)
LEMMA LoadToChangeInv == ASSUME IInv, NEW r \in Request, LoadToChange(r) PROVE IInv'
<1> USE DEF LoadToChange, Load, disk, handles, history, Goes, User, Reader, Request
<1>1. TypeOK' BY DEF IInv, TypeOK, Places
<1>2. LockOK' BY DEF IInv, TypeOK, LockOK
<1>3. ReadOK' BY DEF IInv, TypeOK, ReadOK
<1>4. LeftOK' BY DEF IInv, TypeOK, LockOK, LeftOK, Underway
<1>5. OneOpenHandle' BY DEF IInv, TypeOK, OneOpenHandle
<1>6. AcknowledgedKept' BY DEF IInv, AcknowledgedKept
<1> QED BY <1>1, <1>2, <1>3, <1>4, <1>5, <1>6 DEF IInv

(* An account is a row.                                                    *)
LEMMA RowExists == Gone \notin Accounts /\ None \notin Request
BY ConstantsOK DEF Accounts, Request, Reader, User

(* A whole row is written back, and is the account as it is wanted.        *)
LEMMA PutAccountInv ==
  ASSUME IInv, NEW r \in Request, r \in Reader, NEW account \in Accounts,
         PutAccount(r, account), want' = account
  PROVE  IInv'
<1> USE DEF PutAccount, Goes
<1>1. row' = account /\ row' # Gone BY RowExists
<1>2. TypeOK' BY <1>1 DEF IInv, TypeOK, Places, handles
<1>3. LockOK' BY <1>1 DEF IInv, TypeOK, LockOK
<1>4. ReadOK' BY DEF IInv, TypeOK, ReadOK
<1>5. LeftOK' BY <1>1 DEF IInv, TypeOK, LeftOK, Underway
<1>6. OneOpenHandle' BY DEF IInv, TypeOK, OneOpenHandle, handles
<1>7. AcknowledgedKept' BY <1>1 DEF AcknowledgedKept
<1> QED BY <1>2, <1>3, <1>4, <1>5, <1>6, <1>7 DEF IInv

(* The account as it is wanted is the one just stored: nobody has changed   *)
(* it since the request read it, or this request's row is the one that      *)
(* counts.                                                                  *)
LEMMA StoreRootInv == ASSUME IInv, NEW r \in Request, StoreRoot(r) PROVE IInv'
<1>1. r \in Settings /\ place[r] = "store" /\ r \in Reader BY DEF StoreRoot, Reader
<1>2. PICK root \in Root : /\ PutAccount(r, [got[r] EXCEPT !.root = root])
                           /\ want' = Wanted(r, [want EXCEPT !.root = root])
  BY DEF StoreRoot
<1>3. got[r] \in Accounts BY <1>1 DEF IInv, ReadOK
<1>4. [got[r] EXCEPT !.root = root] \in Accounts BY <1>3 DEF Accounts
<1>5. row' = [got[r] EXCEPT !.root = root] BY <1>2 DEF PutAccount
<1>6. got[r] = row => want = got[r] BY <1>3, RowExists DEF IInv, AcknowledgedKept
<1>7. want' = row' BY <1>2, <1>5, <1>6 DEF Wanted
<1> QED BY <1>1, <1>2, <1>4, <1>5, <1>7, PutAccountInv

LEMMA StorePasswordInv == ASSUME IInv, NEW r \in Request, StorePassword(r) PROVE IInv'
<1>1. r \in Passwording /\ place[r] = "store" /\ r \in Reader BY DEF StorePassword, Reader
<1>2. PICK pwd \in Password : /\ PutAccount(r, [got[r] EXCEPT !.pwd = pwd])
                              /\ want' = Wanted(r, [want EXCEPT !.pwd = pwd])
  BY DEF StorePassword
<1>3. got[r] \in Accounts BY <1>1 DEF IInv, ReadOK
<1>4. [got[r] EXCEPT !.pwd = pwd] \in Accounts BY <1>3 DEF Accounts
<1>5. row' = [got[r] EXCEPT !.pwd = pwd] BY <1>2 DEF PutAccount
<1>6. got[r] = row => want = got[r] BY <1>3, RowExists DEF IInv, AcknowledgedKept
<1>7. want' = row' BY <1>2, <1>5, <1>6 DEF Wanted
<1> QED BY <1>1, <1>2, <1>4, <1>5, <1>7, PutAccountInv

(* A deletion is asked for, with the password in force.                    *)
LEMMA AskDeleteInv == ASSUME IInv, NEW d \in Request, AskDelete(d) PROVE IInv'
<1> USE DEF AskDelete, Load, disk, handles, history, Goes, User, Reader, Request
<1>1. TypeOK' BY DEF IInv, TypeOK, Places
<1>2. LockOK' BY DEF IInv, TypeOK, LockOK
<1>3. ReadOK'
  <2>1. row \in Accounts BY DEF IInv, TypeOK
  <2>2. got'[d] = row /\ row.pwd \in {NoPassword, given'[d]} BY DEF IInv, TypeOK, Opens
  <2> QED BY <2>1, <2>2 DEF IInv, TypeOK, ReadOK
<1>4. LeftOK' BY DEF IInv, TypeOK, LockOK, LeftOK, Underway
<1>5. OneOpenHandle' BY DEF IInv, TypeOK, OneOpenHandle
<1>6. AcknowledgedKept' BY DEF IInv, AcknowledgedKept
<1> QED BY <1>1, <1>2, <1>3, <1>4, <1>5, <1>6 DEF IInv

(* It takes s.mu.                                                          *)
LEMMA LockDeleteInv == ASSUME IInv, NEW d \in Request, LockDelete(d) PROVE IInv'
<1> USE DEF LockDelete, Goes, Lock, disk, handles, history, User, Reader, Request
<1>1. TypeOK' BY DEF IInv, TypeOK, Places
<1>2. LockOK' BY RowExists DEF IInv, TypeOK, LockOK
<1>3. ReadOK' BY DEF IInv, TypeOK, ReadOK
<1>4. LeftOK' BY DEF IInv, TypeOK, LockOK, LeftOK, Underway
<1>5. OneOpenHandle' BY DEF IInv, TypeOK, OneOpenHandle
<1>6. AcknowledgedKept' BY DEF IInv, AcknowledgedKept
<1> QED BY <1>1, <1>2, <1>3, <1>4, <1>5, <1>6 DEF IInv

(* It finds nothing to delete.                                             *)
LEMMA DeleteMissingInv == ASSUME IInv, NEW d \in Request, DeleteMissing(d) PROVE IInv'
<1> USE DEF DeleteMissing, Goes, Unlock, Answer, disk, handles, history, User, Reader, Request
<1>1. TypeOK' BY DEF IInv, TypeOK, Places
<1>2. LockOK' BY DEF IInv, TypeOK, LockOK
<1>3. ReadOK' BY DEF IInv, TypeOK, ReadOK
<1>4. LeftOK' BY DEF IInv, TypeOK, LockOK, LeftOK, Underway
<1>5. OneOpenHandle' BY DEF IInv, TypeOK, OneOpenHandle
<1>6. AcknowledgedKept' BY DEF IInv, AcknowledgedKept
<1> QED BY <1>1, <1>2, <1>3, <1>4, <1>5, <1>6 DEF IInv

(* It closes the handle, whoever holds it.                                 *)
LEMMA CloseHandleInv == ASSUME IInv, NEW d \in Request, CloseHandle(d) PROVE IInv'
<1> USE DEF CloseHandle, Goes, disk, User, Reader, Request
<1>1. TypeOK' BY DEF IInv, TypeOK, Places
<1>2. LockOK' BY DEF IInv, TypeOK, LockOK
<1>3. ReadOK' BY DEF IInv, TypeOK, ReadOK
<1>4. LeftOK' BY DEF IInv, TypeOK, LockOK, LeftOK, Underway
<1>5. OneOpenHandle' BY DEF IInv, TypeOK, OneOpenHandle
<1>6. AcknowledgedKept' BY DEF IInv, AcknowledgedKept
<1> QED BY <1>1, <1>2, <1>3, <1>4, <1>5, <1>6 DEF IInv

(* It removes the files.                                                   *)
LEMMA RemoveFilesInv == ASSUME IInv, NEW d \in Request, RemoveFiles(d) PROVE IInv'
<1> USE DEF RemoveFiles, Goes, Underway, handles, User, Reader, Request
<1>1. TypeOK' BY DEF IInv, TypeOK, Places
<1>2. LockOK' BY DEF IInv, TypeOK, LockOK
<1>3. ReadOK' BY DEF IInv, TypeOK, ReadOK
<1>4. LeftOK' BY DEF IInv, TypeOK, LockOK, LeftOK, Underway
<1>5. OneOpenHandle' BY DEF IInv, TypeOK, OneOpenHandle
<1>6. AcknowledgedKept' BY DEF IInv, AcknowledgedKept
<1> QED BY <1>1, <1>2, <1>3, <1>4, <1>5, <1>6 DEF IInv

(* It fails, and the row stays.                                            *)
LEMMA DeleteFailsInv == ASSUME IInv, NEW d \in Request, DeleteFails(d) PROVE IInv'
<1> USE DEF DeleteFails, Goes, Unlock, Answer, disk, handles, history, User, Reader, Request
<1>1. TypeOK' BY DEF IInv, TypeOK, Places
<1>2. LockOK' BY DEF IInv, TypeOK, LockOK
<1>3. ReadOK' BY DEF IInv, TypeOK, ReadOK
<1>4. LeftOK' BY DEF IInv, TypeOK, LockOK, LeftOK, Underway
<1>5. OneOpenHandle' BY DEF IInv, TypeOK, OneOpenHandle
<1>6. AcknowledgedKept' BY DEF IInv, AcknowledgedKept
<1> QED BY <1>1, <1>2, <1>3, <1>4, <1>5, <1>6 DEF IInv

(* It commits.                                                             *)
LEMMA CommitDeleteInv == ASSUME IInv, NEW d \in Request, CommitDelete(d) PROVE IInv'
<1> USE DEF CommitDelete, Goes, Unlock, Answer, Underway, handles, User, Reader, Request
<1>1. TypeOK' BY DEF IInv, TypeOK, Places
<1>2. LockOK' BY DEF IInv, TypeOK, LockOK
<1>3. ReadOK' BY DEF IInv, TypeOK, ReadOK
<1>4. LeftOK' BY DEF IInv, TypeOK, LockOK, LeftOK, Underway
<1>5. OneOpenHandle' BY DEF IInv, TypeOK, OneOpenHandle
<1>6. AcknowledgedKept' BY DEF IInv, AcknowledgedKept
<1> QED BY <1>1, <1>2, <1>3, <1>4, <1>5, <1>6 DEF IInv

(* A search begins.                                                        *)
LEMMA BeginSearchInv == ASSUME IInv, NEW u \in Request, BeginSearch(u) PROVE IInv'
<1> USE DEF BeginSearch, Goes, disk, handles, history, User, Reader, Request
<1>1. TypeOK' BY DEF IInv, TypeOK, Places
<1>2. LockOK' BY DEF IInv, TypeOK, LockOK
<1>3. ReadOK' BY DEF IInv, TypeOK, ReadOK
<1>4. LeftOK' BY DEF IInv, TypeOK, LockOK, LeftOK, Underway
<1>5. OneOpenHandle' BY DEF IInv, TypeOK, OneOpenHandle
<1>6. AcknowledgedKept' BY DEF IInv, AcknowledgedKept
<1> QED BY <1>1, <1>2, <1>3, <1>4, <1>5, <1>6 DEF IInv

(* A backup begins.                                                        *)
LEMMA BeginBackupInv == ASSUME IInv, NEW b \in Request, BeginBackup(b) PROVE IInv'
<1> USE DEF BeginBackup, Goes, disk, handles, history, User, Reader, Request
<1>1. TypeOK' BY DEF IInv, TypeOK, Places
<1>2. LockOK' BY DEF IInv, TypeOK, LockOK
<1>3. ReadOK' BY DEF IInv, TypeOK, ReadOK
<1>4. LeftOK' BY DEF IInv, TypeOK, LockOK, LeftOK, Underway
<1>5. OneOpenHandle' BY DEF IInv, TypeOK, OneOpenHandle
<1>6. AcknowledgedKept' BY DEF IInv, AcknowledgedKept
<1> QED BY <1>1, <1>2, <1>3, <1>4, <1>5, <1>6 DEF IInv

(* Its row is stored.                                                      *)
LEMMA PutJobInv == ASSUME IInv, NEW b \in Request, PutJob(b) PROVE IInv'
<1> USE DEF PutJob, Goes, Deleting, handles, User, Reader, Request
<1>1. TypeOK' BY DEF IInv, TypeOK, Places
<1>2. LockOK' BY DEF IInv, TypeOK, LockOK
<1>3. ReadOK' BY DEF IInv, TypeOK, ReadOK
<1>4. LeftOK' BY DEF IInv, TypeOK, LockOK, LeftOK, Underway
<1>5. OneOpenHandle' BY DEF IInv, TypeOK, OneOpenHandle
<1>6. AcknowledgedKept' BY DEF IInv, AcknowledgedKept
<1> QED BY <1>1, <1>2, <1>3, <1>4, <1>5, <1>6 DEF IInv

(* Its package is written.                                                 *)
LEMMA WritePackageInv == ASSUME IInv, NEW b \in Request, WritePackage(b) PROVE IInv'
<1> USE DEF WritePackage, Goes, Deleting, handles, User, Reader, Request
<1>1. TypeOK' BY DEF IInv, TypeOK, Places
<1>2. LockOK' BY DEF IInv, TypeOK, LockOK
<1>3. ReadOK' BY DEF IInv, TypeOK, ReadOK
<1>4. LeftOK' BY DEF IInv, TypeOK, LockOK, LeftOK, Underway
<1>5. OneOpenHandle' BY DEF IInv, TypeOK, OneOpenHandle
<1>6. AcknowledgedKept' BY DEF IInv, AcknowledgedKept
<1> QED BY <1>1, <1>2, <1>3, <1>4, <1>5, <1>6 DEF IInv

(* It gives up.                                                            *)
LEMMA GiveUpInv == ASSUME IInv, NEW b \in Request, GiveUp(b) PROVE IInv'
<1> USE DEF GiveUp, Goes, disk, handles, history, User, Reader, Request
<1>1. TypeOK' BY DEF IInv, TypeOK, Places
<1>2. LockOK' BY DEF IInv, TypeOK, LockOK
<1>3. ReadOK' BY DEF IInv, TypeOK, ReadOK
<1>4. LeftOK' BY DEF IInv, TypeOK, LockOK, LeftOK, Underway
<1>5. OneOpenHandle' BY DEF IInv, TypeOK, OneOpenHandle
<1>6. AcknowledgedKept' BY DEF IInv, AcknowledgedKept
<1> QED BY <1>1, <1>2, <1>3, <1>4, <1>5, <1>6 DEF IInv

(* OpenAccount takes s.mu.                                                 *)
LEMMA LockOpenInv == ASSUME IInv, NEW u \in Request, LockOpen(u) PROVE IInv'
<1> USE DEF LockOpen, Goes, Lock, disk, handles, history, User, Reader, Request
<1>1. TypeOK' BY DEF IInv, TypeOK, Places
<1>2. LockOK' BY RowExists DEF IInv, TypeOK, LockOK
<1>3. ReadOK' BY DEF IInv, TypeOK, ReadOK
<1>4. LeftOK' BY DEF IInv, TypeOK, LockOK, LeftOK, Underway
<1>5. OneOpenHandle' BY DEF IInv, TypeOK, OneOpenHandle
<1>6. AcknowledgedKept' BY DEF IInv, AcknowledgedKept
<1> QED BY <1>1, <1>2, <1>3, <1>4, <1>5, <1>6 DEF IInv

(* It finds no account.                                                    *)
LEMMA OpenMissingInv == ASSUME IInv, NEW u \in Request, OpenMissing(u) PROVE IInv'
<1> USE DEF OpenMissing, Goes, Unlock, After, disk, handles, history, User, Reader, Request
<1>1. TypeOK' BY DEF IInv, TypeOK, Places
<1>2. LockOK' BY DEF IInv, TypeOK, LockOK
<1>3. ReadOK' BY DEF IInv, TypeOK, ReadOK
<1>4. LeftOK' BY DEF IInv, TypeOK, LockOK, LeftOK, Underway
<1>5. OneOpenHandle' BY DEF IInv, TypeOK, OneOpenHandle
<1>6. AcknowledgedKept' BY DEF IInv, AcknowledgedKept
<1> QED BY <1>1, <1>2, <1>3, <1>4, <1>5, <1>6 DEF IInv

(* It finds the handle in the map.                                         *)
LEMMA OpenCachedInv == ASSUME IInv, NEW u \in Request, OpenCached(u) PROVE IInv'
<1> USE DEF OpenCached, Goes, Unlock, disk, handles, User, Reader, Request
<1>1. TypeOK' BY DEF IInv, TypeOK, Places
<1>2. LockOK' BY DEF IInv, TypeOK, LockOK
<1>3. ReadOK' BY DEF IInv, TypeOK, ReadOK
<1>4. LeftOK' BY DEF IInv, TypeOK, LockOK, LeftOK, Underway
<1>5. OneOpenHandle' BY DEF IInv, TypeOK, OneOpenHandle
<1>6. AcknowledgedKept' BY DEF IInv, AcknowledgedKept
<1> QED BY <1>1, <1>2, <1>3, <1>4, <1>5, <1>6 DEF IInv

(* It opens the database.                                                  *)
LEMMA OpenNewInv == ASSUME IInv, NEW u \in Request, OpenNew(u) PROVE IInv'
<1> USE DEF OpenNew, Goes, Unlock, User, Reader, Request
<1>1. TypeOK'
  <2>1. opens + 1 \in 1..MaxHandles BY ConstantsOK DEF IInv, TypeOK
  <2>2. opened' \subseteq 1..MaxHandles /\ opens' \in 0..MaxHandles BY <2>1 DEF IInv, TypeOK
  <2>3. held' \in [User -> (1..MaxHandles) \cup {None}] BY <2>1 DEF IInv, TypeOK
  <2> QED BY <2>1, <2>2, <2>3 DEF IInv, TypeOK, Places
<1>2. LockOK' BY DEF IInv, TypeOK, LockOK
<1>3. ReadOK' BY DEF IInv, TypeOK, ReadOK
<1>4. LeftOK' BY DEF IInv, TypeOK, LockOK, LeftOK, Underway
<1>5. OneOpenHandle' BY DEF IInv, TypeOK, OneOpenHandle
<1>6. AcknowledgedKept' BY DEF IInv, AcknowledgedKept
<1> QED BY <1>1, <1>2, <1>3, <1>4, <1>5, <1>6 DEF IInv

(* It fails to.                                                            *)
LEMMA OpenFailsInv == ASSUME IInv, NEW u \in Request, OpenFails(u) PROVE IInv'
<1> USE DEF OpenFails, Goes, Unlock, After, handles, history, User, Reader, Request
<1>1. TypeOK' BY DEF IInv, TypeOK, Places
<1>2. LockOK' BY DEF IInv, TypeOK, LockOK
<1>3. ReadOK' BY DEF IInv, TypeOK, ReadOK
<1>4. LeftOK' BY DEF IInv, TypeOK, LockOK, LeftOK, Underway
<1>5. OneOpenHandle' BY DEF IInv, TypeOK, OneOpenHandle
<1>6. AcknowledgedKept' BY DEF IInv, AcknowledgedKept
<1> QED BY <1>1, <1>2, <1>3, <1>4, <1>5, <1>6 DEF IInv

(* The database is used and let go.                                        *)
LEMMA UseInv == ASSUME IInv, NEW u \in Request, Use(u) PROVE IInv'
<1> USE DEF Use, Goes, After, disk, handles, User, Reader, Request
<1>1. TypeOK' BY DEF IInv, TypeOK, Places
<1>2. LockOK' BY DEF IInv, TypeOK, LockOK
<1>3. ReadOK' BY DEF IInv, TypeOK, ReadOK
<1>4. LeftOK' BY DEF IInv, TypeOK, LockOK, LeftOK, Underway
<1>5. OneOpenHandle' BY DEF IInv, TypeOK, OneOpenHandle
<1>6. AcknowledgedKept' BY DEF IInv, AcknowledgedKept
<1> QED BY <1>1, <1>2, <1>3, <1>4, <1>5, <1>6 DEF IInv

(* The handle was closed.                                                  *)
LEMMA UseFailsInv == ASSUME IInv, NEW u \in Request, UseFails(u) PROVE IInv'
<1> USE DEF UseFails, Goes, After, disk, handles, User, Reader, Request
<1>1. TypeOK' BY DEF IInv, TypeOK, Places
<1>2. LockOK' BY DEF IInv, TypeOK, LockOK
<1>3. ReadOK' BY DEF IInv, TypeOK, ReadOK
<1>4. LeftOK' BY DEF IInv, TypeOK, LockOK, LeftOK, Underway
<1>5. OneOpenHandle' BY DEF IInv, TypeOK, OneOpenHandle
<1>6. AcknowledgedKept' BY DEF IInv, AcknowledgedKept
<1> QED BY <1>1, <1>2, <1>3, <1>4, <1>5, <1>6 DEF IInv

(* The process ends.                                                       *)
LEMMA ExitInv == ASSUME IInv, Exit PROVE IInv'
<1> USE DEF Exit, disk
<1>1. TypeOK' BY DEF IInv, TypeOK, Places
<1>2. LockOK' /\ ReadOK' BY DEF LockOK, ReadOK, Request, Reader, User
<1>3. LeftOK' BY DEF IInv, LeftOK, Underway, Request, Reader, User
<1>4. OneOpenHandle' BY DEF OneOpenHandle
<1>5. AcknowledgedKept' BY DEF IInv, AcknowledgedKept
<1> QED BY <1>1, <1>2, <1>3, <1>4, <1>5 DEF IInv

(* The account is added again.                                             *)
LEMMA ProvisionInv == ASSUME IInv, Provision PROVE IInv'
<1>1. row' \in Accounts /\ want' = row' BY DEF Provision, New, Accounts
<1>2. row' # Gone BY <1>1, RowExists
<1>3. UNCHANGED <<files, jobRows, place, got, given, lock, handles, held, evicted, overrun>> BY DEF Provision
<1>4. TypeOK' BY <1>1, <1>3 DEF IInv, TypeOK, handles
<1>5. LockOK' /\ ReadOK' /\ LeftOK' BY <1>2, <1>3 DEF IInv, LockOK, ReadOK, LeftOK, Underway
<1>6. OneOpenHandle' /\ AcknowledgedKept' BY <1>1, <1>3 DEF IInv, OneOpenHandle, AcknowledgedKept, handles
<1> QED BY <1>4, <1>5, <1>6 DEF IInv

(* Init: an account without files, jobs or requests.                       *)
LEMMA InitInv == Init => IInv
<1> SUFFICES ASSUME Init PROVE IInv OBVIOUS
<1>1. row \in Accounts /\ want = row BY DEF Init, New, Accounts
<1>2. row # Gone BY <1>1, RowExists
<1>3. TypeOK
  <2>1. opens \in 0..MaxHandles /\ cached \in (1..MaxHandles) \cup {None} /\ opened \in SUBSET (1..MaxHandles)
    BY ConstantsOK DEF Init
  <2>2. place \in [Request -> Places] /\ got \in [Reader -> Accounts \cup {Gone}]
    BY DEF Init, Places
  <2>3. given \in [Deletion -> Password \cup {None}] /\ held \in [User -> (1..MaxHandles) \cup {None}]
    BY DEF Init
  <2> QED BY <1>1, <2>1, <2>2, <2>3 DEF Init, TypeOK
<1>4. LockOK /\ ReadOK BY DEF Init, LockOK, ReadOK, Request, Reader, User
<1>5. LeftOK BY <1>2 DEF Init, LeftOK, Request, Reader, User
<1>6. OneOpenHandle /\ AcknowledgedKept BY <1>1 DEF Init, OneOpenHandle, AcknowledgedKept
<1> QED BY <1>3, <1>4, <1>5, <1>6 DEF IInv

(* Every step preserves IInv.                                              *)
LEMMA NextInv == ASSUME IInv, [Next]_vars PROVE IInv'
<1>1. CASE UNCHANGED vars
  BY <1>1 DEF vars, disk, handles, history, IInv, TypeOK, LockOK, ReadOK, LeftOK, Underway,
     OneOpenHandle, AcknowledgedKept
<1>2. ASSUME NEW r \in Request, Change(r) PROVE IInv'
  BY <1>2, LoadToChangeInv, StoreRootInv, StorePasswordInv DEF Change
<1>3. ASSUME NEW d \in Request, Delete(d) PROVE IInv'
  BY <1>3, AskDeleteInv, LockDeleteInv, DeleteMissingInv, CloseHandleInv, RemoveFilesInv, DeleteFailsInv,
     CommitDeleteInv DEF Delete
<1>4. ASSUME NEW u \in Request, Work(u) PROVE IInv'
  BY <1>4, BeginSearchInv, BeginBackupInv, PutJobInv, WritePackageInv, GiveUpInv, LockOpenInv, OpenMissingInv,
     OpenCachedInv, OpenNewInv, OpenFailsInv, UseInv, UseFailsInv DEF Work
<1> QED BY <1>1, <1>2, <1>3, <1>4, ExitInv, ProvisionInv DEF Next

-----------------------------------------------------------------------------
(* IInv holds in every reachable state. *)
THEOREM Invariance == Spec => []IInv
<1>1. IInv /\ [Next]_vars => IInv' BY NextInv
<1> QED BY <1>1, InitInv, PTL DEF Spec

(* TypeOK, for any number of requests, values and databases. *)
THEOREM TypeCorrect == Spec => []TypeOK
<1>1. IInv => TypeOK BY DEF IInv
<1> QED BY <1>1, Invariance, PTL

(* OneOpenHandle: the account never has two open databases, and whoever     *)
(* holds a handle holds the open one or is about to fail.                  *)
THEOREM HandleIsShared == Spec => []OneOpenHandle
<1>1. IInv => OneOpenHandle BY DEF IInv
<1> QED BY <1>1, Invariance, PTL

(* NothingLeftBehind: an account that is gone has left neither files nor    *)
(* job rows, unless a backup was under way during its deletion.            *)
THEOREM DeletionIsComplete == Spec => []NothingLeftBehind
<1>1. IInv => NothingLeftBehind BY DEF IInv, LeftOK, NothingLeftBehind
<1> QED BY <1>1, Invariance, PTL

(* AcknowledgedKept: what a request was told is stored stays stored.       *)
THEOREM SettingsAreKept == Spec => []AcknowledgedKept
<1>1. IInv => AcknowledgedKept BY DEF IInv
<1> QED BY <1>1, Invariance, PTL

(* A row goes only by the commit of a deletion.                            *)
LEMMA GoneByCommit ==
  ASSUME IInv, [Next]_vars, row # Gone, row' = Gone PROVE \E d \in Deletion : CommitDelete(d)
<1>1. ASSUME NEW r \in Request, NEW account, PutAccount(r, account), account \in Accounts PROVE FALSE
  BY <1>1, RowExists DEF PutAccount
<1>2. ASSUME NEW r \in Request, StoreRoot(r) \/ StorePassword(r) PROVE FALSE
  <2>1. r \in Reader /\ got[r] \in Accounts BY <1>2 DEF StoreRoot, StorePassword, IInv, ReadOK, Reader
  <2>2. CASE StoreRoot(r)
    <3>1. PICK root \in Root : PutAccount(r, [got[r] EXCEPT !.root = root]) BY <2>2 DEF StoreRoot
    <3>2. [got[r] EXCEPT !.root = root] \in Accounts BY <2>1 DEF Accounts
    <3> QED BY <1>1, <3>1, <3>2
  <2>3. CASE StorePassword(r)
    <3>1. PICK pwd \in Password : PutAccount(r, [got[r] EXCEPT !.pwd = pwd]) BY <2>3 DEF StorePassword
    <3>2. [got[r] EXCEPT !.pwd = pwd] \in Accounts BY <2>1 DEF Accounts
    <3> QED BY <1>1, <3>1, <3>2
  <2> QED BY <1>2, <2>2, <2>3
<1>3. ASSUME Provision PROVE FALSE BY <1>3 DEF Provision
<1>4. CASE UNCHANGED row BY <1>4
<1>5. ASSUME NEW r \in Request, Change(r) PROVE UNCHANGED row
  BY <1>2, <1>5 DEF Change, LoadToChange, disk
<1>6. ASSUME NEW d \in Request, Delete(d) PROVE UNCHANGED row \/ (d \in Deletion /\ CommitDelete(d))
  BY <1>6 DEF Delete, AskDelete, LockDelete, DeleteMissing, CloseHandle, RemoveFiles, DeleteFails,
     CommitDelete, disk
<1>7. ASSUME NEW u \in Request, Work(u) PROVE UNCHANGED row
  BY <1>7 DEF Work, BeginSearch, BeginBackup, PutJob, WritePackage, GiveUp, LockOpen, OpenMissing,
     OpenCached, OpenNew, OpenFails, Use, UseFails, disk
<1> QED BY <1>3, <1>4, <1>5, <1>6, <1>7 DEF Next, Exit, vars, disk

(* DeletionAuthorised: an account goes only by a deletion that gave the     *)
(* password in force, unless it was changed under it.                      *)
THEOREM DeletionNeedsPassword == Spec => DeletionAuthorised
<1> DEFINE A == row # Gone /\ row' = Gone =>
                  \E d \in Deletion : /\ lock = d
                                      /\ row.pwd \in {NoPassword, given[d]} \/ got[d] # row
<1>1. ASSUME IInv, [Next]_vars PROVE [A]_row
  <2> SUFFICES ASSUME row # Gone, row' = Gone
               PROVE  \E d \in Deletion : /\ lock = d
                                          /\ row.pwd \in {NoPassword, given[d]} \/ got[d] # row
    OBVIOUS
  <2>1. PICK d \in Deletion : CommitDelete(d) BY <1>1, GoneByCommit
  <2>2. lock = d /\ place[d] = "commit" BY <2>1 DEF CommitDelete, Goes, Unlock
  <2>3. got[d].pwd \in {NoPassword, given[d]} BY <1>1, <2>2 DEF IInv, ReadOK
  <2> QED BY <2>2, <2>3
<1> QED BY <1>1, Invariance, PTL DEF Spec, DeletionAuthorised
==============================================================================
