------------------------------ MODULE ChatView ------------------------------
(***************************************************************************)
(* The chat page of the web client: ChatView.vue's watch on the route and  *)
(* the chat store's syncRoute, loadConversations and loadMessages          *)
(* (web/src/stores/chat.js).                                               *)
(*                                                                         *)
(* The page runs to completion between awaits, so an action is what one    *)
(* turn does: a navigation up to the first request it waits for, or the    *)
(* arrival of one response up to the next.  Responses arrive in any order, *)
(* and nothing cancels a call of syncRoute whose route has been left.      *)
(*                                                                         *)
(* What is shown is the account or the conversation it was fetched for;    *)
(* a list a request failed to fetch is shown as Nothing.                   *)
(***************************************************************************)
EXTENDS Naturals

CONSTANTS Account, Talker,
          NoAccount,       \* the store's accountId before the first route
          Nothing,         \* an empty list
          NoTalker,        \* the route of an account without a talker
          MaxNavigations   \* bound: routes visited

ASSUME ConstantsOK ==
  /\ NoAccount \notin Account
  /\ NoTalker \notin Talker
  /\ Nothing \notin Account \cup (Account \X Talker)
  /\ MaxNavigations \in Nat

VARIABLES
  route,          \* the page's route: account and talker
  sync,           \* the calls of syncRoute, in the order of the navigations
  navigations,    \* how many there are
  overtaken,      \* history: the last call to go on was for a talker left since
  accountId, conversations, talkerId, messages,
  loadingConv, loadingMsg, convGen, msgGen,
  error           \* whether the store has an error to show

state == <<accountId, conversations, talkerId, messages,
           loadingConv, loadingMsg, convGen, msgGen, error>>
vars  == <<route, sync, navigations, overtaken, state>>

Calls == 1..MaxNavigations

Routes == Account \X (Talker \cup {NoTalker})

(* A call waits for its conversations, then for its messages; gen is the   *)
(* generation of the request it waits for.                                 *)
Syncs == [account : Account, talker : Talker \cup {NoTalker},
          waits : {"conversations", "messages", "over"}, gen : 0..MaxNavigations]

TypeOK ==
  /\ route \in Routes \cup {Nothing}
  /\ navigations \in 0..MaxNavigations
  /\ sync \in [1..navigations -> Syncs]
  /\ overtaken \in BOOLEAN
  /\ accountId \in Account \cup {NoAccount}
  /\ conversations \in Account \cup {Nothing}
  /\ talkerId \in Talker \cup {NoTalker}
  /\ messages \in (Account \X Talker) \cup {Nothing}
  /\ loadingConv \in BOOLEAN /\ loadingMsg \in BOOLEAN /\ error \in BOOLEAN
  /\ convGen \in 0..MaxNavigations /\ msgGen \in 0..MaxNavigations

Init ==
  /\ route = Nothing /\ navigations = 0 /\ sync = <<>> /\ overtaken = FALSE
  /\ accountId = NoAccount /\ conversations = Nothing
  /\ talkerId = NoTalker /\ messages = Nothing
  /\ loadingConv = FALSE /\ loadingMsg = FALSE /\ error = FALSE
  /\ convGen = 0 /\ msgGen = 0

-----------------------------------------------------------------------------
(* Starting requests. *)

(* Mutant: the generation is counted twice. *)
CountTwice(a) ==
  /\ convGen' = convGen + 2
  /\ accountId' = a
  /\ loadingConv' = TRUE /\ error' = FALSE
  /\ UNCHANGED <<conversations, talkerId, messages, loadingMsg, msgGen>>

(* loadConversations, up to its await. *)
LoadConversations(a) ==
  /\ convGen' = convGen + 1
  /\ accountId' = a
  /\ loadingConv' = TRUE /\ error' = FALSE
  /\ UNCHANGED <<conversations, talkerId, messages, loadingMsg, msgGen>>

(* Mutant: without a talker, the sign of loading is left as it is. *)
LeaveLoading(t, err) ==
  /\ msgGen' = msgGen + 1
  /\ talkerId' = t
  /\ loadingMsg' = (loadingMsg \/ t # NoTalker)
  /\ messages' = IF t = NoTalker THEN Nothing ELSE messages
  /\ error' = (err /\ t = NoTalker)

(* loadMessages, up to its await, with the error there is; without a talker *)
(* there is nothing to wait for.                                           *)
LoadMessages(t, err) ==
  /\ msgGen' = msgGen + 1
  /\ talkerId' = t
  /\ loadingMsg' = (t # NoTalker)
  /\ messages' = IF t = NoTalker THEN Nothing ELSE messages
  /\ error' = (err /\ t = NoTalker)

Waiting(a, t, what, g) == [account |-> a, talker |-> t, waits |-> what, gen |-> g]

(* Mutant: the generation is taken before it is counted up. *)
PostIncrement(a, t) ==
  Waiting(a, t, IF t = NoTalker THEN "over" ELSE "messages", msgGen)

MessagesWait(a, t) ==
  Waiting(a, t, IF t = NoTalker THEN "over" ELSE "messages", msgGen + 1)

(* The watch's callback calls syncRoute for the new route; also for the     *)
(* same one when the page is left for the account page and entered again.  *)
Navigate(a, t) ==
  /\ navigations < MaxNavigations
  /\ route' = <<a, t>>
  /\ navigations' = navigations + 1
  /\ LET call == IF a # accountId THEN Waiting(a, t, "conversations", convGen + 1)
                 ELSE MessagesWait(a, t)
     IN sync' = [k \in 1..navigations + 1 |-> IF k <= navigations THEN sync[k] ELSE call]
  /\ IF a # accountId
     THEN LoadConversations(a) /\ UNCHANGED overtaken
     ELSE /\ LoadMessages(t, error)
          /\ overtaken' = FALSE
          /\ UNCHANGED <<accountId, conversations, loadingConv, convGen>>

-----------------------------------------------------------------------------
(* Responses. *)

(* gen === this.convGen *)
LatestConversations(k) == sync[k].gen = convGen

(* The conversations, or an error, arrive; then syncRoute goes on, if the  *)
(* account is still the one it was called for.                             *)
ConversationsArrive(k) ==
  LET c == sync[k]
      failed == LatestConversations(k) /\ conversations' = Nothing
  IN
  /\ c.waits = "conversations"
  /\ IF LatestConversations(k)
     THEN conversations' \in {c.account, Nothing} /\ loadingConv' = FALSE
     ELSE UNCHANGED <<conversations, loadingConv>>
  /\ IF accountId = c.account
     THEN /\ sync' = [sync EXCEPT ![k] = MessagesWait(c.account, c.talker)]
          /\ LoadMessages(c.talker, error \/ failed)
          /\ overtaken' = (c.talker # route[2])
     ELSE /\ sync' = [sync EXCEPT ![k].waits = "over"]
          /\ error' = (error \/ failed)
          /\ UNCHANGED <<overtaken, talkerId, messages, loadingMsg, msgGen>>
  /\ UNCHANGED <<route, navigations, accountId, convGen>>

(* Mutant: the generation is not compared. *)
AccountOnly(k) == sync[k].account = accountId

(* gen === this.msgGen, of the finally block *)
LatestMessages(k) == sync[k].gen = msgGen

(* gen !== this.msgGen || this.accountId !== acct: not wanted any more *)
Wanted(k) == sync[k].gen = msgGen /\ accountId = sync[k].account

(* The messages, or an error, arrive. *)
MessagesArrive(k) ==
  /\ sync[k].waits = "messages"
  /\ IF Wanted(k)
     THEN /\ messages' \in {<<sync[k].account, sync[k].talker>>, Nothing}
          /\ error' = (error \/ messages' = Nothing)
     ELSE UNCHANGED <<messages, error>>
  /\ loadingMsg' = IF LatestMessages(k) THEN FALSE ELSE loadingMsg
  /\ sync' = [sync EXCEPT ![k].waits = "over"]
  /\ UNCHANGED <<route, navigations, overtaken, accountId, conversations, talkerId,
                 loadingConv, convGen, msgGen>>

Arrive(k) == ConversationsArrive(k) \/ MessagesArrive(k)

Next ==
  \/ \E a \in Account, t \in Talker \cup {NoTalker} : Navigate(a, t)
  \/ \E k \in 1..navigations : Arrive(k)

(* Every request is answered, or fails. *)
Answered == \A k \in Calls : WF_vars(k <= navigations /\ Arrive(k))

Spec == Init /\ [][Next]_vars /\ Answered

-----------------------------------------------------------------------------
(* What is shown without a sign of loading belongs to the account and the   *)
(* talker the store names, whatever responses are still under way and in    *)
(* whatever order the others came: no conversation shows another's          *)
(* messages, no account another's conversations (chat.js:28-72).            *)
ShownIsSelected ==
  /\ ~loadingConv => conversations \in {accountId, Nothing}
  /\ ~loadingConv /\ ~loadingMsg => messages \in {<<accountId, talkerId>>, Nothing}

(* When every call is over, the page shows what its route names, however    *)
(* the answers came, and no messages only with an error (chat.js:20-72,     *)
(* ChatView.vue:25-29); unless a call that had waited for the same          *)
(* account's conversations went on last, though its talker had been left:   *)
(* only the account is compared (chat.js:25).                               *)
RouteIsShown ==
  (navigations > 0 /\ (\A k \in 1..navigations : sync[k].waits = "over") /\ ~overtaken) =>
    /\ <<accountId, talkerId>> = route
    /\ conversations \in {accountId, Nothing}
    /\ IF talkerId = NoTalker THEN messages = Nothing
       ELSE messages = route \/ (messages = Nothing /\ error)

(* The signs of loading go off when the last answer has come, though every  *)
(* answer may find itself outdated (the finally blocks, chat.js:41-43,      *)
(* 69-71).                                                                  *)
LoadingStops == (loadingConv \/ loadingMsg) ~> (~loadingConv /\ ~loadingMsg)
=============================================================================
