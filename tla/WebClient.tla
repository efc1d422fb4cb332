----------------------------- MODULE WebClient -----------------------------
(***************************************************************************)
(* The web client (web/src): the chat page and the account page.  The      *)
(* router shows one at a time, and neither store reads the other, so a     *)
(* behaviour follows the user on one of them.                              *)
(***************************************************************************)
EXTENDS ChatView

CONSTANTS Listed,  \* the accounts the account page lists
          Path, Blank, Missing, MaxVisits, MaxChanges

ASSUME PageConstantsOK ==
  /\ Blank \notin Path /\ Path # {}
  /\ Missing \notin [root : Path \cup {Blank}, has_password : BOOLEAN]
  /\ MaxVisits \in Nat /\ MaxChanges \in Nat

VARIABLES
  page,  \* the page followed: chat or home
  row, accounts, settings, loading, visits, mounted, field, deleting,
  list, get, change, changes, strayed, early

home == <<row, accounts, settings, loading, visits, mounted, field, deleting,
          list, get, change, changes, strayed, early>>

Home == INSTANCE AccountsPage WITH Account <- Listed

WebTypeOK == page \in {"chat", "home"} /\ TypeOK /\ Home!TypeOK

WebInit == page \in {"chat", "home"} /\ Init /\ Home!Init

OnChat == page = "chat" /\ Next /\ UNCHANGED <<page, home>>

OnHome == page = "home" /\ Home!Next /\ UNCHANGED <<page, vars>>

(* Every request is answered, or fails. *)
WebSpec ==
  /\ WebInit /\ [][OnChat \/ OnHome]_<<page, vars, home>>
  /\ Answered
  /\ Home!AllAnswered

-----------------------------------------------------------------------------
(* When all is answered, the account page lists the server's accounts with  *)
(* the server's settings, and nothing of an account that was deleted        *)
(* (accounts.js:22-83), though fetches of two visits and changes have       *)
(* crossed; unless an answer was lost, or one that a change had outdated    *)
(* came last.                                                               *)
PageMatchesServer == Home!PageMatchesServer

(* The account page stores no empty path that nobody typed                  *)
(* (HomeView.vue:36-61), unless it was saved before the fields were filled, *)
(* or the settings could not be had.                                        *)
NothingBlanked == Home!NothingBlanked

(* The account page's sign of loading goes off, whatever fails              *)
(* (accounts.js:22-37).                                                     *)
PageLoads == Home!PageLoads
=============================================================================
