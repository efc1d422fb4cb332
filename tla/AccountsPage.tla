---------------------------- MODULE AccountsPage ----------------------------
(***************************************************************************)
(* The account page of the web client: HomeView.vue and the accounts store *)
(* (web/src/stores/accounts.js) against the settings handlers              *)
(* (internal/http/settings.go).                                            *)
(*                                                                         *)
(* A request is asked, handled by the server and then answered; requests   *)
(* are handled and answered in any order, and an answer may be an error    *)
(* although the server has done what it was asked.  The page runs to       *)
(* completion between awaits.  Nothing is cancelled when the user leaves:  *)
(* the store outlives the page, and the next visit fetches everything once *)
(* more while the last one's requests are under way.  A visit has at most  *)
(* one change under way (busy disables the buttons), another visit another.*)
(***************************************************************************)
EXTENDS Naturals, FiniteSets

CONSTANTS Account,
          Path,        \* the backup paths a user may type
          Blank,       \* the empty path
          Missing,     \* no row, no settings, no account in the dialog
          MaxVisits,   \* bound: visits of the page
          MaxChanges   \* bound: changes asked for

VARIABLES
  row,       \* the server's accounts
  accounts, settings, loading,  \* the store
  visits,    \* visits so far
  mounted,   \* whether the page is shown
  field,     \* the path in each account's input field
  deleting,  \* the account of the delete dialog
  list,      \* per visit: the list it waits for, as it will be answered
  get,       \* per visit and account: the settings it waits for, likewise
  change,    \* per visit: the change under way
  changes,   \* how many changes were asked for
  strayed,   \* history: an answer failed, or came after it was outdated
  early      \* history: a path was saved before the fields were filled

server == <<row>>
store  == <<accounts, settings, loading>>
page   == <<visits, mounted, field, deleting>>
net    == <<list, get, change, changes>>
vars   == <<server, store, page, net, strayed, early>>

Visit == 1..MaxVisits
Settings == [root : Path \cup {Blank}, has_password : BOOLEAN]

(* Where a request is. *)
No == [is |-> "none"]
Asked == [is |-> "asked"]
Answered(v) == [is |-> "answered", value |-> v]

TypeOK ==
  /\ row \in [Account -> Settings \cup {Missing}]
  /\ accounts \subseteq Account
  /\ settings \in [Account -> Settings \cup {Missing}]
  /\ loading \in BOOLEAN
  /\ visits \in 0..MaxVisits /\ mounted \in BOOLEAN
  /\ field \in [Account -> Path \cup {Blank}]
  /\ deleting \in Account \cup {Missing}
  /\ list \in [Visit -> {No, Asked} \cup {Answered(x) : x \in SUBSET Account}]
  /\ get \in [Visit -> [Account -> {No, Asked} \cup
                           {Answered(x) : x \in Settings \cup {Missing}}]]
  /\ \A v \in Visit : change[v].is \in {"none", "asked", "answered", "failed"}
  /\ changes \in 0..MaxChanges
  /\ strayed \in BOOLEAN /\ early \in BOOLEAN

Existing == {a \in Account : row[a] # Missing}

Init ==
  /\ row = [a \in Account |-> [root |-> CHOOSE p \in Path : TRUE, has_password |-> FALSE]]
  /\ accounts = {} /\ settings = [a \in Account |-> Missing] /\ loading = FALSE
  /\ visits = 0 /\ mounted = FALSE
  /\ field = [a \in Account |-> Blank] /\ deleting = Missing
  /\ list = [v \in Visit |-> No]
  /\ get = [v \in Visit |-> [a \in Account |-> No]]
  /\ change = [v \in Visit |-> No] /\ changes = 0
  /\ strayed = FALSE /\ early = FALSE

-----------------------------------------------------------------------------
(* Fetching. *)

(* A new component: empty fields, nothing busy; onMounted, fetchAccounts.  *)
Enter ==
  /\ ~mounted /\ visits < MaxVisits
  /\ visits' = visits + 1 /\ mounted' = TRUE
  /\ field' = [a \in Account |-> Blank] /\ deleting' = Missing
  /\ loading' = TRUE
  /\ list' = [list EXCEPT ![visits + 1] = Asked]
  /\ UNCHANGED <<server, accounts, settings, get, change, changes, strayed, early>>

Leave ==
  /\ mounted /\ mounted' = FALSE
  /\ deleting' = Missing
  /\ UNCHANGED <<server, store, visits, field, net, strayed, early>>

HandleList(v) ==
  /\ list[v] = Asked
  /\ list' = [list EXCEPT ![v] = Answered(Existing)]
  /\ UNCHANGED <<server, store, page, get, change, changes, strayed, early>>

HandleGet(v, a) ==
  /\ get[v][a] = Asked
  /\ get' = [get EXCEPT ![v][a] = Answered(row[a])]
  /\ UNCHANGED <<server, store, page, list, change, changes, strayed, early>>

(* Mutant: the fields are never filled. *)
FillNothing(v, now) == UNCHANGED field

(* fetchAccounts has returned, and onMounted goes on: the fields of its own *)
(* page are filled.                                                        *)
Fill(v, now) ==
  IF mounted /\ v = visits
  THEN field' = [a \in Account |->
         IF a \notin accounts' THEN field[a]
         ELSE IF now[a] = Missing THEN Blank ELSE now[a].root]
  ELSE UNCHANGED field

(* An answer on its way sets right what the store has of an account: one to *)
(* a password brings no path.                                              *)
Repairs(c, a, value) ==
  /\ c.is = "answered" /\ c.account = a
  /\ c.kind = "password" => Missing \notin {value, row[a]} /\ value.root = row[a].root

(* What was answered of an account is outdated, and will stay so. *)
Outdated(a, value, vs) == value # row[a] /\ ~\E v \in vs : Repairs(change[v], a, value)

(* Mutant: the sign of loading stays when the list cannot be had. *)
NeverLoaded(v) ==
  /\ list[v].is = "answered"
  /\ list' = [list EXCEPT ![v] = No]
  /\ accounts' = {}
  /\ strayed' = TRUE
  /\ UNCHANGED <<server, settings, loading, page, get, change, changes, early>>

(* The list could not be had. *)
ListFails(v) ==
  /\ list[v].is = "answered"
  /\ list' = [list EXCEPT ![v] = No]
  /\ accounts' = {} /\ loading' = FALSE
  /\ strayed' = TRUE
  /\ UNCHANGED <<server, settings, page, get, change, changes, early>>

(* The list arrives; the settings of all in it are fetched together.       *)
ListArrives(v) ==
  /\ list[v].is = "answered"
  /\ list' = [list EXCEPT ![v] = No]
  /\ accounts' = list[v].value
  /\ get' = [get EXCEPT ![v] = [a \in Account |-> IF a \in accounts' THEN Asked ELSE No]]
  /\ loading' = (IF accounts' = {} THEN FALSE ELSE loading)
  /\ strayed' = (strayed \/ \E a \in accounts' \ Existing :
                              ~\E w \in Visit : Repairs(change[w], a, Missing))
  /\ UNCHANGED <<server, settings, page, change, changes, early>>

(* The settings of one account arrive, or an error, which is ignored; with *)
(* the last of them the fetch is over.                                     *)
GetArrives(v, a) ==
  /\ get[v][a].is = "answered"
  /\ get' = [get EXCEPT ![v][a] = No]
  /\ \/ /\ get[v][a].value # Missing
        /\ settings' = [settings EXCEPT ![a] = get[v][a].value]
        /\ strayed' = (strayed \/ Outdated(a, get[v][a].value, Visit))
     \/ UNCHANGED settings /\ strayed' = (strayed \/ get[v][a].value # Missing)
  /\ UNCHANGED accounts
  /\ IF \A b \in Account \ {a} : get[v][b] = No
     THEN loading' = FALSE /\ Fill(v, settings')
     ELSE UNCHANGED <<loading, field>>
  /\ UNCHANGED <<server, visits, mounted, deleting, list, change, changes, early>>

-----------------------------------------------------------------------------
(* What the user does. *)

Idle == mounted /\ change[visits] = No

Type(a, p) ==
  /\ mounted /\ a \in accounts
  /\ field' = [field EXCEPT ![a] = p]
  /\ UNCHANGED <<server, store, visits, mounted, deleting, net, strayed, early>>

Ask(kind, a, value) ==
  /\ Idle /\ changes < MaxChanges
  /\ changes' = changes + 1
  /\ change' = [change EXCEPT ![visits] =
       [is |-> "asked", kind |-> kind, account |-> a, value |-> value]]
  /\ UNCHANGED <<server, store, page, list, get, strayed>>

(* The page's own fetch is under way: its fields are not filled yet. *)
Filling == list[visits] # No \/ \E a \in Account : get[visits][a] # No

SavePath(a) ==
  /\ a \in accounts
  /\ Ask("path", a, field[a])
  /\ early' = (early \/ (Filling /\ field[a] = Blank))

SavePassword(a) ==
  /\ a \in accounts
  /\ Ask("password", a, TRUE)
  /\ UNCHANGED early

OpenDelete(a) ==
  /\ mounted /\ deleting = Missing /\ a \in accounts
  /\ deleting' = a
  /\ UNCHANGED <<server, store, visits, mounted, field, net, strayed, early>>

CloseDelete ==
  /\ deleting # Missing /\ deleting' = Missing
  /\ UNCHANGED <<server, store, visits, mounted, field, net, strayed, early>>

(* canDeleteAccount: a password, if the store knows of one. *)
ConfirmDelete(given) ==
  /\ deleting # Missing
  /\ settings[deleting] # Missing /\ settings[deleting].has_password => given
  /\ Ask("delete", deleting, given)
  /\ UNCHANGED early

-----------------------------------------------------------------------------
(* The server's handlers, and their answers. *)

(* What a handler leaves of the account: the handlers of one page's changes *)
(* do not overlap (AccountStore has those that do).                        *)
Handled(c) ==
  LET old == row[c.account] IN
  CASE c.kind = "path"     -> [old EXCEPT !.root = c.value]
    [] c.kind = "password" -> [old EXCEPT !.has_password = TRUE]
    [] c.kind = "delete"   -> Missing

(* No such account, or the password is missing. *)
Refused(c) ==
  \/ row[c.account] = Missing
  \/ c.kind = "delete" /\ row[c.account].has_password /\ ~c.value

HandleChange(v) ==
  LET c == change[v] IN
  /\ c.is = "asked"
  /\ IF Refused(c)
     THEN change' = [change EXCEPT ![v].is = "failed"] /\ UNCHANGED row
     ELSE /\ row' = [row EXCEPT ![c.account] = Handled(c)]
          /\ change' = [change EXCEPT ![v] =
               [is |-> "answered", kind |-> c.kind, account |-> c.account,
                value |-> Handled(c)]]
  /\ UNCHANGED <<store, page, list, get, changes, strayed, early>>

(* Mutant: the answer to a password is not taken into the store. *)
PasswordForgotten(c) ==
  IF c.kind = "password" THEN settings[c.account] ELSE c.value

(* What the store makes of an answer: saveBackupRoot takes the server's     *)
(* settings, setPassword adds to what it has, removeAccount deletes.       *)
Taken(c) ==
  IF c.kind = "password"
  THEN IF settings[c.account] = Missing
       THEN [root |-> Blank, has_password |-> TRUE]
       ELSE [settings[c.account] EXCEPT !.has_password = TRUE]
  ELSE c.value

ChangeArrives(v) ==
  LET c == change[v] IN
  /\ c.is = "answered"
  /\ change' = [change EXCEPT ![v] = No]
  /\ settings' = [settings EXCEPT ![c.account] = Taken(c)]
  /\ accounts' = IF c.kind = "delete" THEN accounts \ {c.account} ELSE accounts
  /\ deleting' = IF c.kind = "delete" /\ mounted /\ v = visits THEN Missing ELSE deleting
  /\ strayed' = (strayed \/ Outdated(c.account, c.value, Visit \ {v}))
  /\ UNCHANGED <<server, loading, visits, mounted, field, list, get, changes, early>>

(* The change was refused, or its answer is lost. *)
ChangeFails(v) ==
  /\ change[v].is \in {"answered", "failed"}
  /\ change' = [change EXCEPT ![v] = No]
  /\ strayed' = (strayed \/ change[v].is = "answered")
  /\ UNCHANGED <<server, store, page, list, get, changes, early>>

-----------------------------------------------------------------------------
Fetch(v) ==
  \/ HandleList(v) \/ ListArrives(v) \/ ListFails(v)
  \/ \E a \in Account : HandleGet(v, a) \/ GetArrives(v, a)

Next ==
  \/ Enter \/ Leave
  \/ \E v \in Visit : Fetch(v) \/ HandleChange(v) \/ ChangeArrives(v) \/ ChangeFails(v)
  \/ \E a \in Account, p \in Path : Type(a, p)
  \/ \E a \in Account : SavePath(a) \/ SavePassword(a) \/ OpenDelete(a)
  \/ CloseDelete
  \/ \E given \in BOOLEAN : ConfirmDelete(given)

(* What was asked is answered, or fails. *)
AllAnswered == \A v \in Visit : WF_vars(Fetch(v))

Spec == Init /\ [][Next]_vars /\ AllAnswered

-----------------------------------------------------------------------------
AtRest ==
  /\ visits > 0
  /\ \A v \in Visit : list[v] = No /\ change[v] = No /\ \A a \in Account : get[v][a] = No

(* When all is answered, the page lists the server's accounts with the      *)
(* server's settings, and nothing of an account that was deleted            *)
(* (accounts.js:22-83), though fetches of two visits and changes have       *)
(* crossed; unless an answer was lost, or one that a change had outdated    *)
(* came last.                                                               *)
PageMatchesServer ==
  AtRest /\ ~strayed => accounts = Existing /\ settings = row

(* The page stores no empty path that nobody typed (HomeView.vue:36-61):    *)
(* unless it was saved before the fields were filled, or settings could not *)
(* be had.                                                                  *)
NothingBlanked ==
  ~strayed /\ ~early => \A a \in Existing : row[a].root # Blank

(* The sign of loading goes off, whatever fails (accounts.js:22-37). *)
PageLoads == loading ~> ~loading
=============================================================================
