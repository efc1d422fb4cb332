--------------------------- MODULE WebClientProofs ---------------------------
(***************************************************************************)
(* Proofs about the web client, for any number of accounts, talkers and    *)
(* paths, of navigations, visits and changes: what the chat page shows     *)
(* (ChatInv), and what the account page knows of the server's accounts and *)
(* what it stores (HomeInv).  A step is of one page, and leaves the other's *)
(* invariant alone.                                                        *)
(***************************************************************************)
EXTENDS WebClient, FiniteSetTheorems, TLAPS

-----------------------------------------------------------------------------
(* The chat page. *)

(* What a call waits for.                                                  *)
ConvWaits(k) == sync[k].waits = "conversations"
MsgWaits(k)  == sync[k].waits = "messages"

(* A generation is no later than the store's; the latest conversations are  *)
(* the account's, and the latest messages the talker's, and the account's   *)
(* too unless other conversations are under way.                           *)
GensOK ==
  /\ \A k \in 1..navigations : ConvWaits(k) =>
       /\ sync[k].gen <= convGen
       /\ sync[k].gen = convGen => sync[k].account = accountId
  /\ \A k \in 1..navigations : MsgWaits(k) =>
       /\ sync[k].talker # NoTalker
       /\ sync[k].gen <= msgGen
       /\ sync[k].gen = msgGen =>
            /\ sync[k].talker = talkerId
            /\ ~loadingConv => sync[k].account = accountId

(* Generations are counted by calls: a call asks once for conversations,    *)
(* and once for messages when it has them.                                 *)
Past == {k \in 1..navigations : ~ConvWaits(k)}

CountOK == convGen <= navigations /\ msgGen <= Cardinality(Past)

(* The store's account is the route's, and so is its talker unless a call   *)
(* has yet to go on or one went on for a talker left since.                *)
FollowsRoute ==
  navigations > 0 =>
    /\ route \in Routes /\ accountId = route[1]
    /\ \/ overtaken \/ talkerId = route[2]
       \/ \E k \in 1..navigations : ConvWaits(k) /\ sync[k].account = accountId

(* A sign of loading has an answer to put it out.                          *)
LoadingOK ==
  /\ loadingConv => \E k \in 1..navigations : ConvWaits(k) /\ sync[k].gen = convGen
  /\ loadingMsg => \E k \in 1..navigations : MsgWaits(k) /\ sync[k].gen = msgGen

(* No messages although a talker is selected: they failed.                 *)
ErrorOK ==
  ~loadingConv /\ ~loadingMsg /\ messages = Nothing /\ talkerId # NoTalker => error

ChatInv == /\ TypeOK /\ GensOK /\ CountOK /\ FollowsRoute /\ LoadingOK /\ ErrorOK
           /\ ShownIsSelected

-----------------------------------------------------------------------------
(* The account page. *)

Changes ==
  [is : {"asked", "failed"}, kind : {"path"}, account : Listed, value : Path \cup {Blank}]
  \cup [is : {"asked", "failed"}, kind : {"password", "delete"}, account : Listed,
        value : BOOLEAN]
  \cup [is : {"answered", "failed"}, kind : {"path", "password"}, account : Listed,
        value : Home!Settings]
  \cup [is : {"answered", "failed"}, kind : {"delete"}, account : Listed, value : {Missing}]

ChangesOK == change \in [Home!Visit -> Changes \cup {Home!No}]

Exists(a) == row[a] # Missing

(* A visit to come has asked nothing, and a visit's settings are asked for  *)
(* when its list has come.                                                 *)
VisitsOK ==
  /\ mounted => visits > 0
  /\ \A v \in Home!Visit :
       /\ v > visits => list[v] = Home!No
       /\ (v > visits \/ list[v] # Home!No) => \A a \in Listed : get[v][a] = Home!No

(* What the server answers never misses an account it still has: rows only  *)
(* go, and a deletion's answer says so.                                    *)
AnswersOK ==
  /\ \A v \in Home!Visit, a \in Listed :
       /\ list[v].is = "answered" /\ Exists(a) => a \in list[v].value
       /\ get[v][a].is = "answered" /\ get[v][a].value = Missing => ~Exists(a)
  /\ \A v \in Home!Visit : change[v].is = "answered" =>
       /\ change[v].kind = "delete" => ~Exists(change[v].account)
       /\ change[v].kind = "password" => change[v].value.has_password

(* The visit's settings of the account are still to come.                  *)
Coming(v, a) == list[v] # Home!No \/ get[v][a] # Home!No

(* The page lists an account the server has, once one list has come; and    *)
(* one the server has not only when an answer on its way says so.          *)
ListedOK ==
  ~strayed => \A a \in Listed :
    /\ Exists(a) /\ (\E v \in 1..visits : list[v] = Home!No) => a \in accounts
    /\ ~Exists(a) /\ a \in accounts =>
         \E v \in Home!Visit : Home!Repairs(change[v], a, Missing)

(* The store has the server's settings, or an answer that sets them right   *)
(* is on its way.                                                          *)
SettingsOK ==
  ~strayed => \A a \in Listed : settings[a] # row[a] =>
    \/ \E v \in Home!Visit : Home!Repairs(change[v], a, settings[a])
    \/ Exists(a) /\ (visits = 0 \/ \E v \in 1..visits : Coming(v, a))

(* No path is blank, on the server, on its way there or back, or in the     *)
(* store once one visit has fetched it; nor in a field once it is filled.   *)
Clean == ~strayed /\ ~early

NoBlankStored ==
  Clean => \A a \in Listed : Exists(a) => row[a].root # Blank

NoBlankOnItsWay ==
  Clean => \A v \in Home!Visit :
    /\ \A a \in Listed : get[v][a].is = "answered" /\ get[v][a].value # Missing =>
         get[v][a].value.root # Blank
    /\ change[v].is = "asked" /\ change[v].kind = "path" /\ Exists(change[v].account) =>
         change[v].value # Blank
    /\ change[v].is = "answered" /\ change[v].kind = "path" =>
         change[v].value.root # Blank

NoBlankShown ==
  Clean => \A a \in Listed : Exists(a) =>
    /\ (\E v \in 1..visits : ~Coming(v, a)) =>
         settings[a] # Missing /\ settings[a].root # Blank
    /\ mounted /\ ~Home!Filling => field[a] # Blank

HomeInv == /\ Home!TypeOK /\ ChangesOK /\ VisitsOK /\ AnswersOK
           /\ ListedOK /\ SettingsOK
           /\ NoBlankStored /\ NoBlankOnItsWay /\ NoBlankShown

IInv == page \in {"chat", "home"} /\ ChatInv /\ HomeInv

-----------------------------------------------------------------------------
(* The steps of the chat page. *)

LEMMA Sizes ==
  ASSUME ChatInv
  PROVE  /\ MaxNavigations \in Nat /\ navigations \in Nat /\ navigations <= MaxNavigations
         /\ convGen \in Nat /\ msgGen \in Nat
BY ConstantsOK DEF ChatInv, TypeOK

(* One more call that has its conversations is one more that can have asked *)
(* for messages, and no call more never is.                                *)
LEMMA PastCounts ==
  ASSUME ChatInv, NEW k \in 1..navigations, ConvWaits(k)
  PROVE  /\ msgGen < navigations
         /\ msgGen + 1 <= Cardinality(Past \cup {k})
         /\ msgGen <= Cardinality(Past \cup {k})
<1>1. IsFiniteSet(1..navigations) /\ Cardinality(1..navigations) = navigations
  BY Sizes, FS_Interval
<1>2. IsFiniteSet(Past)
  BY <1>1, FS_Subset DEF Past
<1>3. k \notin Past
  BY DEF Past
<1>4. IsFiniteSet(Past \cup {k}) /\ Cardinality(Past \cup {k}) = Cardinality(Past) + 1
  BY <1>2, <1>3, FS_AddElement
<1>5. Cardinality(Past \cup {k}) <= navigations
  BY <1>1, FS_Subset DEF Past
<1>6. Cardinality(Past) \in Nat
  BY <1>2, FS_CardinalityType
<1> QED BY <1>4, <1>5, <1>6, Sizes DEF ChatInv, CountOK

LEMMA PastIsFinite ==
  ASSUME ChatInv
  PROVE  IsFiniteSet(Past) /\ Cardinality(Past) \in Nat /\ Cardinality(Past) <= navigations
<1>1. IsFiniteSet(1..navigations) /\ Cardinality(1..navigations) = navigations
  BY Sizes, FS_Interval
<1> QED BY <1>1, FS_Subset, FS_CardinalityType DEF Past

(* A navigation to another account asks for its conversations.             *)
LEMMA NavigateAwayInv ==
  ASSUME ChatInv, NEW a \in Account, NEW t \in Talker \cup {NoTalker},
         Navigate(a, t), a # accountId
  PROVE  ChatInv'
<1> DEFINE n == navigations + 1
           c == Waiting(a, t, "conversations", convGen + 1)
<1> USE DEF ChatInv
<1>1. /\ route' = <<a, t>> /\ navigations' = n /\ n \in 1..MaxNavigations
      /\ navigations \in Nat /\ 1..n = 1..navigations \cup {n} /\ n \notin 1..navigations
      /\ sync' = [k \in 1..n |-> IF k <= navigations THEN sync[k] ELSE c]
      /\ convGen' = convGen + 1 /\ accountId' = a /\ loadingConv' = TRUE /\ error' = FALSE
      /\ UNCHANGED <<conversations, talkerId, messages, loadingMsg, msgGen, overtaken>>
  BY Sizes DEF Navigate, LoadConversations, TypeOK
<1>2. \A k \in 1..navigations : sync'[k] = sync[k]
  BY <1>1
<1>3. /\ sync'[n] = [account |-> a, talker |-> t, waits |-> "conversations",
                      gen |-> convGen + 1]
      /\ sync'[n].waits = "conversations" /\ sync'[n].account = a
      /\ sync'[n].gen = convGen + 1
  BY <1>1 DEF Waiting
<1>4. convGen + 1 \in 0..MaxNavigations
  BY <1>1, Sizes DEF CountOK
<1>5. TypeOK'
  <2>1. sync' \in [1..n -> Syncs]
    BY <1>1, <1>2, <1>3, <1>4 DEF TypeOK, Syncs
  <2>2. route' \in Routes' BY <1>1 DEF Routes
  <2>3. navigations' \in 0..MaxNavigations BY <1>1, Sizes
  <2>4. /\ overtaken' \in BOOLEAN BY <1>1 DEF TypeOK
  <2>5. accountId' \in Account \cup {NoAccount} BY <1>1
  <2>6. /\ conversations' \in Account \cup {Nothing}
  /\ talkerId' \in Talker \cup {NoTalker}
  /\ messages' \in (Account \X Talker) \cup {Nothing} BY <1>1 DEF TypeOK
  <2>7. /\ loadingConv' \in BOOLEAN /\ loadingMsg' \in BOOLEAN /\ error' \in BOOLEAN BY <1>1 DEF TypeOK
  <2>8. convGen' \in 0..MaxNavigations /\ msgGen' \in 0..MaxNavigations BY <1>1, <1>4 DEF TypeOK
  <2> QED BY <1>1, <2>1, <2>2, <2>3, <2>4, <2>5, <2>6, <2>7, <2>8 DEF TypeOK
<1>6. GensOK'
  <2>1. ASSUME NEW j \in 1..n, sync'[j].waits = "conversations"
        PROVE  /\ sync'[j].gen <= convGen'
               /\ sync'[j].gen = convGen' => sync'[j].account = accountId'
    <3>1. CASE j = n BY <1>1, <1>3, <3>1, Sizes
    <3>2. CASE j \in 1..navigations
      <4>1. sync[j].gen \in Nat /\ sync[j].gen <= convGen
        BY <1>2, <2>1, <3>2 DEF GensOK, ConvWaits, TypeOK, Syncs
      <4> QED BY <1>1, <1>2, <2>1, <3>2, <4>1, Sizes
    <3> QED BY <1>1, <3>1, <3>2
  <2>2. ASSUME NEW j \in 1..n, sync'[j].waits = "messages"
        PROVE  /\ sync'[j].talker # NoTalker /\ sync'[j].gen <= msgGen
               /\ sync'[j].gen = msgGen => sync'[j].talker = talkerId
    BY <1>1, <1>2, <1>3, <2>2 DEF GensOK, MsgWaits
  <2> QED BY <1>1, <2>1, <2>2 DEF GensOK, ConvWaits, MsgWaits
<1>7. CountOK'
  <2>1. Past' = Past
    BY <1>1, <1>2, <1>3 DEF Past, ConvWaits
  <2> QED BY <1>1, <2>1 DEF CountOK, TypeOK
<1>8. FollowsRoute'
  <2>1. route' \in Routes /\ accountId' = route'[1]
    BY <1>1 DEF Routes
  <2>2. n \in 1..navigations' /\ sync'[n].waits = "conversations" /\ sync'[n].account = accountId'
    BY <1>1, <1>3
  <2> QED BY <2>1, <2>2 DEF FollowsRoute, Routes, ConvWaits
<1>9. LoadingOK'
  BY <1>1, <1>2, <1>3 DEF LoadingOK, ConvWaits, MsgWaits
<1>10. ErrorOK' /\ ShownIsSelected'
  BY <1>1 DEF ErrorOK, ShownIsSelected
<1> QED BY <1>5, <1>6, <1>7, <1>8, <1>9, <1>10

(* A navigation within the account asks for the talker's messages.         *)
LEMMA NavigateWithinInv ==
  ASSUME ChatInv, NEW a \in Account, NEW t \in Talker \cup {NoTalker},
         Navigate(a, t), a = accountId
  PROVE  ChatInv'
<1> DEFINE n == navigations + 1
           c == MessagesWait(a, t)
<1> USE DEF ChatInv
<1>1. /\ route' = <<a, t>> /\ navigations' = n /\ n \in 1..MaxNavigations
      /\ navigations \in Nat /\ 1..n = 1..navigations \cup {n} /\ n \notin 1..navigations
      /\ sync' = [k \in 1..n |-> IF k <= navigations THEN sync[k] ELSE c]
      /\ LoadMessages(t, error) /\ overtaken' = FALSE
      /\ UNCHANGED <<accountId, conversations, loadingConv, convGen>>
  BY Sizes DEF Navigate, TypeOK
<1>2. \A k \in 1..navigations : sync'[k] = sync[k]
  BY <1>1
<1>3. PICK w \in {"messages", "over"} :
        /\ w = "messages" <=> t # NoTalker
        /\ sync'[n] = [account |-> a, talker |-> t, waits |-> w, gen |-> msgGen + 1]
        /\ sync'[n].waits = w /\ sync'[n].account = a /\ sync'[n].talker = t
        /\ sync'[n].gen = msgGen + 1
  BY <1>1 DEF MessagesWait, Waiting
<1>4. msgGen + 1 \in 0..MaxNavigations
  BY <1>1, PastIsFinite, Sizes DEF CountOK
<1>5. TypeOK'
  <2>1. sync' \in [1..n -> Syncs]
    BY <1>1, <1>2, <1>3, <1>4 DEF TypeOK, Syncs
  <2>2. route' \in Routes
    BY <1>1 DEF Routes
  <2>3. /\ messages' \in (Account \X Talker) \cup {Nothing} /\ talkerId' \in Talker \cup {NoTalker}
        /\ loadingMsg' \in BOOLEAN /\ error' \in BOOLEAN /\ overtaken' \in BOOLEAN
    BY <1>1 DEF TypeOK, LoadMessages
  <2> QED BY <1>1, <1>4, <2>1, <2>2, <2>3, Sizes DEF TypeOK, Routes, LoadMessages
<1>6. GensOK'
  <2>1. ASSUME NEW j \in 1..n, sync'[j].waits = "conversations"
        PROVE  /\ sync'[j].gen <= convGen'
               /\ sync'[j].gen = convGen' => sync'[j].account = accountId'
    BY <1>1, <1>2, <1>3, <2>1 DEF GensOK, ConvWaits
  <2>2. ASSUME NEW j \in 1..n, sync'[j].waits = "messages"
        PROVE  /\ sync'[j].talker # NoTalker /\ sync'[j].gen <= msgGen'
               /\ sync'[j].gen = msgGen' =>
                    /\ sync'[j].talker = talkerId'
                    /\ ~loadingConv' => sync'[j].account = accountId'
    <3> USE DEF LoadMessages
    <3>1. CASE j = n BY <1>1, <1>3, <2>2, <3>1, Sizes
    <3>2. CASE j \in 1..navigations
      <4>1. sync[j].gen \in Nat /\ sync[j].gen <= msgGen /\ sync[j].talker # NoTalker
        BY <1>2, <2>2, <3>2 DEF GensOK, MsgWaits, TypeOK, Syncs
      <4> QED BY <1>1, <1>2, <3>2, <4>1, Sizes
    <3> QED BY <1>1, <3>1, <3>2
  <2> QED BY <1>1, <2>1, <2>2 DEF GensOK, ConvWaits, MsgWaits
<1>7. CountOK'
  <2>1. Past' = Past \cup {n} /\ n \notin Past
    BY <1>1, <1>2, <1>3 DEF Past, ConvWaits
  <2>2. Cardinality(Past') = Cardinality(Past) + 1
    BY <2>1, PastIsFinite, FS_AddElement
  <2> QED BY <1>1, <2>2, PastIsFinite DEF CountOK, TypeOK, LoadMessages
<1>8. FollowsRoute'
  BY <1>1 DEF FollowsRoute, Routes, LoadMessages
<1>9. LoadingOK'
  BY <1>1, <1>2, <1>3 DEF LoadingOK, ConvWaits, MsgWaits, LoadMessages
<1>10. ErrorOK' /\ ShownIsSelected'
  BY <1>1 DEF ErrorOK, ShownIsSelected, LoadMessages, TypeOK
<1> QED BY <1>5, <1>6, <1>7, <1>8, <1>9, <1>10

(* Conversations arrive for the account selected, and its messages are     *)
(* asked for.                                                              *)
LEMMA ConversationsGoOnInv ==
  ASSUME ChatInv, NEW k \in 1..navigations, ConversationsArrive(k),
         sync[k].account = accountId
  PROVE  ChatInv'
<1> DEFINE c == sync[k]
           m == MessagesWait(c.account, c.talker)
<1>0. msgGen < navigations /\ msgGen + 1 <= Cardinality(Past \cup {k})
  BY PastCounts DEF ConversationsArrive, ConvWaits
<1> USE DEF ChatInv
<1>1. /\ ConvWaits(k) /\ c \in Syncs /\ navigations \in Nat
      /\ sync' = [sync EXCEPT ![k] = m]
      /\ overtaken' = (c.talker # route[2])
      /\ UNCHANGED <<route, navigations, accountId, convGen>>
  BY DEF ConversationsArrive, ConvWaits, TypeOK
<1>2. PICK err \in BOOLEAN : LoadMessages(c.talker, err)
  <2>1. (error \/ (LatestConversations(k) /\ conversations' = Nothing)) \in BOOLEAN
    BY DEF TypeOK, LatestConversations
  <2>2. LoadMessages(c.talker, error \/ (LatestConversations(k) /\ conversations' = Nothing))
    BY DEF ConversationsArrive
  <2> QED BY <2>1, <2>2
<1>3. \/ c.gen = convGen /\ conversations' \in {c.account, Nothing} /\ loadingConv' = FALSE
      \/ c.gen # convGen /\ UNCHANGED <<conversations, loadingConv>>
  BY DEF ConversationsArrive, LatestConversations
<1>4. /\ m.account = c.account /\ m.talker = c.talker /\ m.gen = msgGen + 1
      /\ m.waits \in {"messages", "over"} /\ (m.waits = "messages" <=> c.talker # NoTalker)
      /\ m = [account |-> c.account, talker |-> c.talker, waits |-> m.waits, gen |-> msgGen + 1]
  BY DEF MessagesWait, Waiting
<1>5. sync'[k] = m /\ \A j \in 1..navigations : j # k => sync'[j] = sync[j]
  BY <1>1 DEF TypeOK
<1>6. msgGen + 1 \in 0..MaxNavigations
  BY <1>0, Sizes
<1>7. TypeOK'
  <2>1. m \in Syncs
    BY <1>1, <1>4, <1>6 DEF Syncs
  <2>2. sync' \in [1..navigations -> Syncs]
    BY <1>1, <2>1 DEF TypeOK
  <2>3. c.account \in Account /\ c.talker \in Talker \cup {NoTalker}
    BY <1>1 DEF Syncs
  <2> QED BY <1>1, <1>2, <1>3, <1>6, <2>2, <2>3 DEF TypeOK, LoadMessages
<1>8. GensOK'
  BY <1>1, <1>2, <1>3, <1>4, <1>5 DEF GensOK, TypeOK, ConvWaits, MsgWaits, Syncs, LoadMessages
<1>9. CountOK'
  <2>1. Past' = Past \cup {k}
    BY <1>1, <1>4, <1>5 DEF Past, ConvWaits
  <2> QED BY <1>0, <1>1, <1>2, <2>1 DEF CountOK, LoadMessages
<1>10. FollowsRoute'
  BY <1>1, <1>2 DEF FollowsRoute, LoadMessages
<1>11. LoadingOK'
  <2>1. ASSUME loadingConv'
        PROVE  \E j \in 1..navigations : sync'[j].waits = "conversations" /\ sync'[j].gen = convGen
    <3>1. loadingConv /\ c.gen # convGen
      BY <1>3, <2>1
    <3>2. PICK j \in 1..navigations : ConvWaits(j) /\ sync[j].gen = convGen
      BY <3>1 DEF LoadingOK
    <3> QED BY <1>5, <3>1, <3>2 DEF ConvWaits
  <2>2. ASSUME loadingMsg'
        PROVE  sync'[k].waits = "messages" /\ sync'[k].gen = msgGen'
    BY <1>2, <1>4, <1>5, <2>2 DEF LoadMessages
  <2> QED BY <1>1, <2>1, <2>2 DEF LoadingOK, ConvWaits, MsgWaits
<1>12. ErrorOK' /\ ShownIsSelected'
  BY <1>1, <1>2, <1>3 DEF ErrorOK, ShownIsSelected, LoadMessages, TypeOK
<1> QED BY <1>7, <1>8, <1>9, <1>10, <1>11, <1>12

(* Conversations arrive of an account left since: they are not the latest.  *)
LEMMA ConversationsLateInv ==
  ASSUME ChatInv, NEW k \in 1..navigations, ConversationsArrive(k),
         sync[k].account # accountId
  PROVE  ChatInv'
<1>0. msgGen <= Cardinality(Past \cup {k})
  BY PastCounts DEF ConversationsArrive, ConvWaits
<1> USE DEF ChatInv
<1>1. /\ ConvWaits(k) /\ sync[k] \in Syncs /\ navigations \in Nat
      /\ sync' = [sync EXCEPT ![k].waits = "over"]
      /\ UNCHANGED <<overtaken, talkerId, messages, loadingMsg, msgGen>>
      /\ UNCHANGED <<route, navigations, accountId, convGen>>
  BY DEF ConversationsArrive, ConvWaits, TypeOK
<1>2. sync[k].gen # convGen
  BY <1>1 DEF GensOK
<1>3. UNCHANGED <<conversations, loadingConv, error>>
  BY <1>2 DEF ConversationsArrive, LatestConversations, TypeOK
<1>4. /\ sync'[k] \in Syncs /\ sync'[k].waits = "over"
      /\ \A j \in 1..navigations : j # k => sync'[j] = sync[j]
  BY <1>1 DEF TypeOK, Syncs
<1>5. TypeOK'
  BY <1>1, <1>3, <1>4 DEF TypeOK
<1>6. GensOK'
  BY <1>1, <1>3, <1>4 DEF GensOK, ConvWaits, MsgWaits
<1>7. CountOK'
  <2>1. Past' = Past \cup {k}
    BY <1>1, <1>4 DEF Past, ConvWaits
  <2> QED BY <1>0, <1>1, <2>1, Sizes DEF CountOK
<1>8. FollowsRoute'
  BY <1>1, <1>4 DEF FollowsRoute, ConvWaits
<1>9. LoadingOK'
  BY <1>1, <1>2, <1>3, <1>4 DEF LoadingOK, ConvWaits, MsgWaits
<1>10. ErrorOK' /\ ShownIsSelected'
  BY <1>1, <1>3 DEF ErrorOK, ShownIsSelected
<1> QED BY <1>5, <1>6, <1>7, <1>8, <1>9, <1>10

(* Messages arrive.                                                        *)
LEMMA MessagesArriveInv ==
  ASSUME ChatInv, NEW k \in 1..navigations, MessagesArrive(k)
  PROVE  ChatInv'
<1> USE DEF ChatInv
<1>1. /\ MsgWaits(k) /\ sync[k] \in Syncs /\ navigations \in Nat
      /\ sync' = [sync EXCEPT ![k].waits = "over"]
      /\ UNCHANGED <<route, navigations, overtaken, accountId, conversations, talkerId,
                     loadingConv, convGen, msgGen>>
  BY DEF MessagesArrive, MsgWaits, TypeOK
<1>2. /\ sync'[k] \in Syncs /\ sync'[k].waits = "over"
      /\ \A j \in 1..navigations : j # k => sync'[j] = sync[j]
  BY <1>1 DEF TypeOK, Syncs
<1>3. \/ /\ sync[k].gen = msgGen /\ sync[k].account = accountId /\ sync[k].talker = talkerId
         /\ talkerId # NoTalker /\ loadingMsg' = FALSE
         /\ messages' \in {<<accountId, talkerId>>, Nothing}
         /\ error' = (error \/ messages' = Nothing)
      \/ /\ sync[k].gen = msgGen /\ loadingConv /\ loadingMsg' = FALSE
         /\ UNCHANGED <<messages, error>>
      \/ sync[k].gen # msgGen /\ UNCHANGED <<loadingMsg, messages, error>>
  BY <1>1 DEF MessagesArrive, Wanted, LatestMessages, GensOK, TypeOK
<1>4. TypeOK'
  <2>1. sync[k].account \in Account /\ sync[k].talker \in Talker \cup {NoTalker}
    BY <1>1 DEF Syncs
  <2>2. loadingMsg' \in BOOLEAN /\ error' \in BOOLEAN /\ overtaken' \in BOOLEAN
    BY <1>1, <1>3 DEF TypeOK
  <2>3. messages' \in (Account \X Talker) \cup {Nothing}
    BY <1>1, <1>3, <2>1 DEF TypeOK
  <2> QED BY <1>1, <1>2, <2>2, <2>3 DEF TypeOK
<1>5. GensOK'
  BY <1>1, <1>2 DEF GensOK, ConvWaits, MsgWaits
<1>6. CountOK'
  <2>1. Past' = Past
    BY <1>1, <1>2 DEF Past, ConvWaits, MsgWaits
  <2> QED BY <1>1, <2>1 DEF CountOK
<1>7. FollowsRoute'
  BY <1>1, <1>2 DEF FollowsRoute, ConvWaits, MsgWaits
<1>8. LoadingOK'
  BY <1>1, <1>2, <1>3 DEF LoadingOK, ConvWaits, MsgWaits
<1>9. ErrorOK' /\ ShownIsSelected'
  BY <1>1, <1>3 DEF ErrorOK, ShownIsSelected
<1> QED BY <1>4, <1>5, <1>6, <1>7, <1>8, <1>9

LEMMA ChatInit == Init => ChatInv
<1> SUFFICES ASSUME Init PROVE ChatInv OBVIOUS
<1>1. 1..0 = {} OBVIOUS
<1>2. Past = {} BY <1>1 DEF Past, Init
<1>3. Cardinality(Past) = 0 BY <1>2, FS_EmptySet
<1>4. sync \in [1..navigations -> Syncs] BY <1>1 DEF Init
<1>5. 0 \in 0..MaxNavigations BY ConstantsOK
<1>6. TypeOK BY <1>4, <1>5 DEF TypeOK, Init
<1> QED BY <1>1, <1>3, <1>6
        DEF ChatInv, Init, GensOK, CountOK, FollowsRoute, LoadingOK, ErrorOK, ShownIsSelected

LEMMA ChatStep == ChatInv /\ [Next]_vars => ChatInv'
<1> SUFFICES ASSUME ChatInv, [Next]_vars PROVE ChatInv' OBVIOUS
<1>1. CASE Next
  <2>1. ASSUME NEW a \in Account, NEW t \in Talker \cup {NoTalker}, Navigate(a, t)
        PROVE  ChatInv'
    BY <2>1, NavigateAwayInv, NavigateWithinInv
  <2>2. ASSUME NEW k \in 1..navigations, Arrive(k) PROVE ChatInv'
    BY <2>2, ConversationsGoOnInv, ConversationsLateInv, MessagesArriveInv DEF Arrive
  <2> QED BY <1>1, <2>1, <2>2 DEF Next
<1>2. CASE UNCHANGED vars
  <2> USE <1>2 DEF vars, state
  <2>1. TypeOK' BY DEF ChatInv, TypeOK
  <2>2. Past' = Past BY DEF Past, ConvWaits
  <2>3. CountOK' BY <2>2 DEF ChatInv, CountOK
  <2> QED BY <2>1, <2>3 DEF ChatInv, GensOK, FollowsRoute, LoadingOK, ErrorOK, ShownIsSelected,
                            ConvWaits, MsgWaits
<1> QED BY <1>1, <1>2

(* When every call is over nothing is loading, so the page shows what it    *)
(* has selected, and that is its route.                                    *)
LEMMA RouteFollows == ChatInv => RouteIsShown
<1> SUFFICES ASSUME ChatInv, navigations > 0, \A k \in 1..navigations : sync[k].waits = "over",
                    ~overtaken
             PROVE  /\ <<accountId, talkerId>> = route
                    /\ conversations \in {accountId, Nothing}
                    /\ IF talkerId = NoTalker THEN messages = Nothing
                       ELSE messages = route \/ (messages = Nothing /\ error)
  BY DEF RouteIsShown
<1>1. ~loadingConv /\ ~loadingMsg
  BY DEF ChatInv, LoadingOK, ConvWaits, MsgWaits
<1>2. <<accountId, talkerId>> = route
  BY DEF ChatInv, FollowsRoute, ConvWaits, Routes
<1>3. messages = <<accountId, NoTalker>> => messages = Nothing
  BY ConstantsOK DEF ChatInv, TypeOK
<1> QED BY <1>1, <1>2, <1>3 DEF ChatInv, ShownIsSelected, ErrorOK

-----------------------------------------------------------------------------
(* The steps of the account page. *)

LEMMA VisitFacts ==
  ASSUME HomeInv
  PROVE  /\ MaxVisits \in Nat /\ visits \in Nat /\ visits <= MaxVisits
         /\ 1..visits \subseteq Home!Visit
         /\ visits > 0 => visits \in 1..visits /\ visits \in Home!Visit
BY PageConstantsOK DEF HomeInv, Home!TypeOK, Home!Visit

(* The states of a request are told apart, and so is a row from none.      *)
LEMMA Values ==
  /\ Home!No.is = "none" /\ Home!Asked.is = "asked" /\ Home!Asked # Home!No
  /\ \A x : Home!Answered(x).is = "answered" /\ Home!Answered(x).value = x
            /\ Home!Answered(x) # Home!No /\ Home!Answered(x) # Home!Asked
  /\ Missing \notin Home!Settings
  /\ \A c \in Changes : c # Home!No
BY PageConstantsOK DEF Home!No, Home!Asked, Home!Answered, Home!Settings, Changes

(* What an outstanding request may be.                                     *)
LEMMA Requests ==
  ASSUME HomeInv, NEW v \in Home!Visit, NEW a \in Listed
  PROVE  /\ list[v] \in {Home!No, Home!Asked} \/ \E x \in SUBSET Listed : list[v] = Home!Answered(x)
         /\ \/ get[v][a] \in {Home!No, Home!Asked}
            \/ \E x \in Home!Settings \cup {Missing} : get[v][a] = Home!Answered(x)
         /\ change[v] \in Changes \/ change[v] = Home!No
         /\ row[a] \in Home!Settings \cup {Missing}
         /\ settings[a] \in Home!Settings \cup {Missing}
BY DEF HomeInv, Home!TypeOK, ChangesOK

(* A new visit asks for the list, with its fields empty.                   *)
LEMMA EnterInv == ASSUME HomeInv, Home!Enter PROVE HomeInv'
<1> DEFINE n == visits + 1
<1>1. /\ ~mounted /\ n \in Home!Visit /\ n > visits /\ visits' = n /\ mounted' = TRUE
      /\ loading' = TRUE
      /\ field' = [a \in Listed |-> Blank] /\ deleting' = Missing
      /\ list' = [list EXCEPT ![n] = Home!Asked]
      /\ UNCHANGED <<row, accounts, settings, get, change, changes, strayed, early>>
  BY VisitFacts DEF Home!Enter, Home!server, Home!Visit
<1>2. /\ list'[n] = Home!Asked /\ list'[n] # Home!No
      /\ \A v \in Home!Visit : v # n => list'[v] = list[v]
  BY <1>1, Values DEF HomeInv, Home!TypeOK
<1>3. Home!TypeOK'
  <2>1. visits' \in 0..MaxVisits
    BY <1>1, VisitFacts DEF Home!Visit
  <2>2. /\ list' \in [Home!Visit -> {Home!No, Home!Asked} \cup {Home!Answered(x) : x \in SUBSET Listed}]
        /\ field' \in [Listed -> Path \cup {Blank}]
    BY <1>1 DEF HomeInv, Home!TypeOK
  <2> QED BY <1>1, <2>1, <2>2 DEF HomeInv, Home!TypeOK
<1>4. ChangesOK'
  BY <1>1 DEF HomeInv, ChangesOK
<1>5. VisitsOK'
  BY <1>1, <1>2, VisitFacts DEF HomeInv, VisitsOK, Home!Visit
<1>6. AnswersOK'
  BY <1>1, <1>2, Values DEF HomeInv, AnswersOK, Exists
<1>7. n \in 1..n /\ 1..n = 1..visits \cup {n} /\ n \notin 1..visits
  BY VisitFacts
<1>8. ListedOK'
  BY <1>1, <1>2, <1>7, VisitFacts DEF HomeInv, ListedOK, Exists, Home!Repairs
<1>9. SettingsOK'
  BY <1>1, <1>2, <1>7, VisitFacts DEF HomeInv, SettingsOK, Coming, Exists, Home!Repairs
<1>10. NoBlankStored' /\ NoBlankOnItsWay'
  BY <1>1 DEF HomeInv, NoBlankStored, NoBlankOnItsWay, Clean, Exists
<1>11. NoBlankShown'
  BY <1>1, <1>2, <1>7, VisitFacts DEF HomeInv, NoBlankShown, Clean, Coming, Exists, Home!Filling
<1> QED BY <1>3, <1>4, <1>5, <1>6, <1>8, <1>9, <1>10, <1>11 DEF HomeInv

(* The page is left; it keeps no field.                                    *)
LEMMA LeaveInv == ASSUME HomeInv, Home!Leave PROVE HomeInv'
<1>1. /\ mounted' = FALSE /\ deleting' = Missing
      /\ UNCHANGED <<row, accounts, settings, loading, visits, field, list, get, change, changes,
                     strayed, early>>
  BY DEF Home!Leave, Home!server, Home!store, Home!net
<1>2. Home!TypeOK' /\ ChangesOK' /\ VisitsOK'
  BY <1>1 DEF HomeInv, Home!TypeOK, ChangesOK, VisitsOK
<1>3. AnswersOK' /\ ListedOK' /\ SettingsOK'
  BY <1>1 DEF HomeInv, AnswersOK, ListedOK, SettingsOK, Coming, Exists, Home!Repairs
<1>4. NoBlankStored' /\ NoBlankOnItsWay' /\ NoBlankShown'
  BY <1>1 DEF HomeInv, NoBlankStored, NoBlankOnItsWay, NoBlankShown, Clean, Coming, Exists
<1> QED BY <1>2, <1>3, <1>4 DEF HomeInv

(* The server lists its accounts.                                          *)
LEMMA HandleListInv ==
  ASSUME HomeInv, NEW v \in Home!Visit, Home!HandleList(v) PROVE HomeInv'
<1>1. /\ list[v] = Home!Asked /\ list' = [list EXCEPT ![v] = Home!Answered(Home!Existing)]
      /\ UNCHANGED <<row, accounts, settings, loading, visits, mounted, field, deleting,
                     get, change, changes, strayed, early>>
  BY DEF Home!HandleList, Home!server, Home!store, Home!page
<1>2. /\ list'[v] = Home!Answered(Home!Existing) /\ list[v] # Home!No /\ list'[v] # Home!No
      /\ \A w \in Home!Visit : w # v => list'[w] = list[w]
  BY <1>1, Values DEF HomeInv, Home!TypeOK
<1>3. \A w \in Home!Visit : list'[w] = Home!No <=> list[w] = Home!No
  BY <1>2
<1>4. Home!TypeOK'
  <2>1. Home!Existing \in SUBSET Listed BY DEF Home!Existing
  <2> QED BY <1>1, <2>1 DEF HomeInv, Home!TypeOK
<1>5. ChangesOK' /\ VisitsOK'
  BY <1>1, <1>3 DEF HomeInv, ChangesOK, VisitsOK
<1>6. AnswersOK'
  BY <1>1, <1>2, Values DEF HomeInv, AnswersOK, Exists, Home!Existing
<1>7. ListedOK' /\ SettingsOK'
  BY <1>1, <1>3, VisitFacts DEF HomeInv, ListedOK, SettingsOK, Coming, Exists, Home!Repairs
<1>8. NoBlankStored' /\ NoBlankOnItsWay'
  BY <1>1 DEF HomeInv, NoBlankStored, NoBlankOnItsWay, Clean, Exists
<1>9. NoBlankShown'
  BY <1>1, <1>3, VisitFacts
     DEF HomeInv, VisitsOK, NoBlankShown, Clean, Coming, Exists, Home!Filling
<1> QED BY <1>4, <1>5, <1>6, <1>7, <1>8, <1>9 DEF HomeInv

(* The server answers with an account's settings.                          *)
LEMMA HandleGetInv ==
  ASSUME HomeInv, NEW v \in Home!Visit, NEW a \in Listed, Home!HandleGet(v, a) PROVE HomeInv'
<1>1. /\ get[v][a] = Home!Asked /\ get' = [get EXCEPT ![v][a] = Home!Answered(row[a])]
      /\ UNCHANGED <<row, accounts, settings, loading, visits, mounted, field, deleting,
                     list, change, changes, strayed, early>>
  BY DEF Home!HandleGet, Home!server, Home!store, Home!page
<1>2. /\ get'[v][a] = Home!Answered(row[a]) /\ get[v][a] # Home!No /\ get'[v][a] # Home!No
      /\ \A w \in Home!Visit, b \in Listed : <<w, b>> # <<v, a>> => get'[w][b] = get[w][b]
  BY <1>1, Values DEF HomeInv, Home!TypeOK
<1>3. \A w \in Home!Visit, b \in Listed : get'[w][b] = Home!No <=> get[w][b] = Home!No
  BY <1>2
<1>4. Home!TypeOK'
  BY <1>1 DEF HomeInv, Home!TypeOK
<1>5. ChangesOK' /\ VisitsOK'
  BY <1>1, <1>3 DEF HomeInv, ChangesOK, VisitsOK
<1>6. AnswersOK'
  BY <1>1, <1>2, Values DEF HomeInv, AnswersOK, Exists
<1>7. ListedOK' /\ SettingsOK'
  BY <1>1, <1>3, VisitFacts DEF HomeInv, ListedOK, SettingsOK, Coming, Exists, Home!Repairs
<1>8. NoBlankStored' /\ NoBlankOnItsWay'
  BY <1>1, <1>2, Values DEF HomeInv, NoBlankStored, NoBlankOnItsWay, Clean, Exists
<1>9. NoBlankShown'
  BY <1>1, <1>3, VisitFacts
     DEF HomeInv, VisitsOK, NoBlankShown, Clean, Coming, Exists, Home!Filling
<1> QED BY <1>4, <1>5, <1>6, <1>7, <1>8, <1>9 DEF HomeInv

(* The list is lost.                                                       *)
LEMMA ListFailsInv ==
  ASSUME HomeInv, NEW v \in Home!Visit, Home!ListFails(v) PROVE HomeInv'
<1>1. /\ list' = [list EXCEPT ![v] = Home!No] /\ accounts' = {} /\ loading' = FALSE /\ strayed'
      /\ strayed' = TRUE
      /\ UNCHANGED <<row, settings, visits, mounted, field, deleting, get, change, changes, early>>
  BY DEF Home!ListFails, Home!server, Home!page
<1>2. list'[v] = Home!No /\ \A w \in Home!Visit : w # v => list'[w] = list[w]
  BY <1>1 DEF HomeInv, Home!TypeOK
<1>3. Home!TypeOK'
  BY <1>1 DEF HomeInv, Home!TypeOK
<1>4. ChangesOK' /\ VisitsOK'
  BY <1>1, <1>2 DEF HomeInv, ChangesOK, VisitsOK
<1>5. AnswersOK'
  BY <1>1, <1>2, Values DEF HomeInv, AnswersOK, Exists
<1>6. ListedOK' /\ SettingsOK' /\ NoBlankStored' /\ NoBlankOnItsWay' /\ NoBlankShown'
  BY <1>1 DEF ListedOK, SettingsOK, NoBlankStored, NoBlankOnItsWay, NoBlankShown, Clean
<1> QED BY <1>3, <1>4, <1>5, <1>6 DEF HomeInv

(* The list arrives: the page lists what it names, and asks for the         *)
(* settings of each.                                                       *)
LEMMA ListArrivesInv ==
  ASSUME HomeInv, NEW v \in Home!Visit, Home!ListArrives(v) PROVE HomeInv'
<1>1. PICK x \in SUBSET Listed : list[v] = Home!Answered(x)
  BY Requests, Values DEF Home!ListArrives, HomeInv, Home!TypeOK
<1>2. /\ list[v].is = "answered" /\ list' = [list EXCEPT ![v] = Home!No]
      /\ accounts' = x /\ accounts' \subseteq Listed
      /\ get' = [get EXCEPT ![v] = [a \in Listed |-> IF a \in x THEN Home!Asked ELSE Home!No]]
      /\ strayed' = (strayed \/ \E a \in x \ Home!Existing :
                                  ~\E w \in Home!Visit : Home!Repairs(change[w], a, Missing))
      /\ UNCHANGED <<row, settings, visits, mounted, field, deleting, change, changes, early>>
  <2>1. list[v].is = "answered" /\ accounts' = x /\ x \subseteq Listed
    BY <1>1, Values DEF Home!ListArrives
  <2> QED BY <2>1 DEF Home!ListArrives, Home!server, Home!page
<1>3. /\ list'[v] = Home!No /\ list[v] # Home!No
      /\ \A w \in Home!Visit : w # v => list'[w] = list[w]
  BY <1>1, <1>2, Values DEF HomeInv, Home!TypeOK
<1>4. /\ \A a \in Listed : get'[v][a] = IF a \in x THEN Home!Asked ELSE Home!No
      /\ \A w \in Home!Visit, a \in Listed : w # v => get'[w][a] = get[w][a]
  BY <1>2 DEF HomeInv, Home!TypeOK
<1>5. \A a \in Listed : Exists(a) => a \in x
  BY <1>1, Values DEF HomeInv, AnswersOK
<1>6. v \in 1..visits
  BY <1>3, VisitFacts DEF HomeInv, VisitsOK, Home!Visit
<1>7. Home!TypeOK'
  <2>1. get' \in [Home!Visit -> [Listed -> {Home!No, Home!Asked} \cup
                           {Home!Answered(y) : y \in Home!Settings \cup {Missing}}]]
    BY <1>2 DEF HomeInv, Home!TypeOK
  <2>2. strayed' \in BOOLEAN
    BY <1>2 DEF HomeInv, Home!TypeOK
  <2>3. loading' \in BOOLEAN
    BY DEF Home!ListArrives, HomeInv, Home!TypeOK
  <2> QED BY <1>2, <2>1, <2>2, <2>3 DEF HomeInv, Home!TypeOK
<1>8. ChangesOK' /\ VisitsOK'
  BY <1>2, <1>3, <1>4, <1>6, VisitFacts DEF HomeInv, ChangesOK, VisitsOK, Home!Visit
<1>9. AnswersOK'
  BY <1>2, <1>3, <1>4, Values DEF HomeInv, AnswersOK, Exists
<1>10. ListedOK'
  BY <1>2, <1>5 DEF ListedOK, Exists, Home!Existing, Home!Repairs
<1>11. \A w \in Home!Visit, a \in Listed : Exists(a) /\ Coming(w, a) =>
         list'[w] # Home!No \/ get'[w][a] # Home!No
  BY <1>3, <1>4, <1>5, Values DEF Coming
<1>12. SettingsOK'
  <2> SUFFICES ASSUME ~strayed, NEW a \in Listed, settings[a] # row[a]
               PROVE  \/ \E w \in Home!Visit : Home!Repairs(change[w], a, settings[a])
                      \/ /\ Exists(a)
                         /\ visits = 0 \/ \E w \in 1..visits : list'[w] # Home!No \/ get'[w][a] # Home!No
    BY <1>2 DEF SettingsOK, Coming, Exists, Home!Repairs
  <2> QED BY <1>11, VisitFacts DEF HomeInv, SettingsOK
<1>13. NoBlankStored' /\ NoBlankOnItsWay'
  <2>1. \A w \in Home!Visit, a \in Listed : get'[w][a].is = "answered" => get'[w][a] = get[w][a]
    BY <1>4, Values
  <2>2. Clean' => Clean
    BY <1>2 DEF Clean, HomeInv, Home!TypeOK
  <2>3. NoBlankStored'
    BY <1>2, <2>2 DEF HomeInv, NoBlankStored, Exists
  <2>4. NoBlankOnItsWay'
    BY <1>2, <2>1, <2>2 DEF HomeInv, NoBlankOnItsWay, Exists
  <2> QED BY <2>3, <2>4
<1>14. NoBlankShown'
  <2> SUFFICES ASSUME Clean, NEW a \in Listed, Exists(a)
               PROVE  /\ (\E w \in 1..visits : list'[w] = Home!No /\ get'[w][a] = Home!No) =>
                           settings[a] # Missing /\ settings[a].root # Blank
                      /\ mounted /\ ~Home!Filling' => field[a] # Blank
    BY <1>2 DEF NoBlankShown, Clean, Coming, Exists
  <2>1. \A w \in 1..visits : list'[w] = Home!No /\ get'[w][a] = Home!No => ~Coming(w, a)
    BY <1>11, VisitFacts
  <2>2. ASSUME mounted, ~Home!Filling' PROVE ~Home!Filling
    <3>1. visits \in Home!Visit
      BY <2>2, VisitFacts DEF HomeInv, VisitsOK
    <3>2. visits # v
      BY <1>2, <1>4, <1>5, <2>2, Values DEF Home!Filling
    <3> QED BY <1>2, <1>3, <1>4, <2>2, <3>1, <3>2 DEF Home!Filling
  <2> QED BY <2>1, <2>2 DEF HomeInv, NoBlankShown
<1> QED BY <1>7, <1>8, <1>9, <1>10, <1>12, <1>13, <1>14 DEF HomeInv

(* The settings of an account arrive, or an error; with the last of them    *)
(* the page's fields are filled.                                           *)
LEMMA GetArrivesInv ==
  ASSUME HomeInv, NEW v \in Home!Visit, NEW a \in Listed, Home!GetArrives(v, a) PROVE HomeInv'
<1>1. PICK x \in Home!Settings \cup {Missing} : get[v][a] = Home!Answered(x)
  BY Requests, Values DEF Home!GetArrives
<1>2. /\ get' = [get EXCEPT ![v][a] = Home!No]
      /\ UNCHANGED <<row, accounts, visits, mounted, deleting, list, change, changes, early>>
      /\ get[v][a] # Home!No
  BY <1>1, Values DEF Home!GetArrives, Home!server
<1>3. \/ /\ x # Missing /\ settings' = [settings EXCEPT ![a] = x]
         /\ strayed' = (strayed \/ Home!Outdated(a, x, Home!Visit))
      \/ UNCHANGED settings /\ strayed' = (strayed \/ x # Missing)
  BY <1>1, Values DEF Home!GetArrives
<1>4. /\ get'[v][a] = Home!No
      /\ \A w \in Home!Visit, b \in Listed : <<w, b>> # <<v, a>> => get'[w][b] = get[w][b]
  BY <1>2 DEF HomeInv, Home!TypeOK
<1>5. list[v] = Home!No /\ v \in 1..visits
  BY <1>2, VisitFacts DEF HomeInv, VisitsOK, Home!Visit
<1>6. \/ (\A b \in Listed \ {a} : get[v][b] = Home!No) /\ loading' = FALSE /\ Home!Fill(v, settings')
      \/ (\E b \in Listed \ {a} : get[v][b] # Home!No) /\ UNCHANGED <<loading, field>>
  BY DEF Home!GetArrives
<1>7. settings' \in [Listed -> Home!Settings \cup {Missing}]
  BY <1>3 DEF HomeInv, Home!TypeOK
<1>8. \/ UNCHANGED field
      \/ /\ mounted /\ v = visits
         /\ field' = [b \in Listed |-> IF b \notin accounts THEN field[b]
                        ELSE IF settings'[b] = Missing THEN Blank ELSE settings'[b].root]
  BY <1>2, <1>6 DEF Home!Fill
<1>9. Home!TypeOK'
  <2>1. field' \in [Listed -> Path \cup {Blank}]
    BY <1>7, <1>8 DEF HomeInv, Home!TypeOK, Home!Settings
  <2>2. get' \in [Home!Visit -> [Listed -> {Home!No, Home!Asked} \cup
                           {Home!Answered(y) : y \in Home!Settings \cup {Missing}}]]
    BY <1>2 DEF HomeInv, Home!TypeOK
  <2>3. strayed' \in BOOLEAN /\ loading' \in BOOLEAN
    BY <1>3, <1>6 DEF HomeInv, Home!TypeOK
  <2> QED BY <1>2, <1>7, <2>1, <2>2, <2>3 DEF HomeInv, Home!TypeOK
<1>10. ChangesOK' /\ VisitsOK'
  BY <1>2, <1>4 DEF HomeInv, ChangesOK, VisitsOK
<1>11. AnswersOK'
  BY <1>2, <1>4, Values DEF HomeInv, AnswersOK, Exists
<1>12. strayed => strayed'
  BY <1>3
<1>13. ListedOK'
  BY <1>2, <1>12 DEF HomeInv, ListedOK, Exists, Home!Repairs
<1>14. ~strayed' /\ settings'[a] # row[a] =>
         \E w \in Home!Visit : Home!Repairs(change[w], a, settings'[a])
  <2>1. CASE x # Missing /\ settings' = [settings EXCEPT ![a] = x]
    BY <1>3, <2>1 DEF HomeInv, Home!TypeOK, Home!Outdated
  <2>2. CASE UNCHANGED settings /\ (strayed' \/ x = Missing)
    <3>1. x = Missing => ~Exists(a)
      BY <1>1, Values DEF HomeInv, AnswersOK
    <3> QED BY <1>12, <2>2, <3>1 DEF HomeInv, SettingsOK
  <2> QED BY <1>3, <2>1, <2>2
<1>15. \A b \in Listed : b # a =>
         settings'[b] = settings[b] /\ \A w \in 1..visits : Coming(w, b) <=> Coming(w, b)'
  BY <1>2, <1>3, <1>4, VisitFacts DEF Coming, HomeInv, Home!TypeOK
<1>16. SettingsOK'
  <2> SUFFICES ASSUME ~strayed', NEW b \in Listed, settings'[b] # row[b]
               PROVE  \/ \E w \in Home!Visit : Home!Repairs(change[w], b, settings'[b])
                      \/ Exists(b) /\ (visits = 0 \/ \E w \in 1..visits : Coming(w, b)')
    BY <1>2 DEF SettingsOK, Coming, Exists, Home!Repairs
  <2>1. CASE b = a BY <1>14, <2>1
  <2>2. CASE b # a BY <1>12, <1>15, <2>2 DEF HomeInv, SettingsOK
  <2> QED BY <2>1, <2>2
<1>17. Clean' => Clean
  BY <1>2, <1>12 DEF Clean
<1>18. NoBlankStored'
  BY <1>2, <1>17 DEF HomeInv, NoBlankStored, Exists
<1>19. NoBlankOnItsWay'
  <2>1. \A w \in Home!Visit, b \in Listed : get'[w][b].is = "answered" => get'[w][b] = get[w][b]
    BY <1>4, Values
  <2> QED BY <1>2, <1>17, <2>1 DEF HomeInv, NoBlankOnItsWay, Exists
<1>20. ASSUME Clean', NEW b \in Listed, Exists(b), \E w \in 1..visits : ~Coming(w, b)'
       PROVE  settings'[b] # Missing /\ settings'[b].root # Blank
  <2>1. CASE b # a
    BY <1>15, <1>17, <1>20, <2>1 DEF HomeInv, NoBlankShown
  <2>2. CASE b = a
    <3>1. x # Missing
      BY <1>1, <1>20, <2>2, Values DEF HomeInv, AnswersOK
    <3>2. x.root # Blank
      BY <1>1, <1>17, <1>20, <3>1, Values DEF HomeInv, NoBlankOnItsWay
    <3>3. settings'[a] = x
      BY <1>3, <1>20, <3>1 DEF Clean, HomeInv, Home!TypeOK
    <3> QED BY <2>2, <3>1, <3>2, <3>3
  <2> QED BY <2>1, <2>2
<1>21. ASSUME Clean', NEW b \in Listed, Exists(b), mounted, ~Home!Filling'
       PROVE  field'[b] # Blank
  <2>1. CASE v # visits
    <3>1. ~Home!Filling
      <4>1. visits \in Home!Visit
        BY <1>21, VisitFacts DEF HomeInv, VisitsOK
      <4> QED BY <1>2, <1>4, <1>21, <2>1, <4>1 DEF Home!Filling
    <3>2. UNCHANGED field
      BY <1>6, <2>1 DEF Home!Fill
    <3> QED BY <1>17, <1>21, <3>1, <3>2 DEF HomeInv, NoBlankShown
  <2>2. CASE v = visits
    <3>1. \A c \in Listed : get'[v][c] = Home!No
      BY <1>2, <1>21, <2>2 DEF Home!Filling
    <3>2. field' = [c \in Listed |-> IF c \notin accounts THEN field[c]
                        ELSE IF settings'[c] = Missing THEN Blank ELSE settings'[c].root]
      BY <1>2, <1>4, <1>6, <1>21, <2>2, <3>1 DEF Home!Fill
    <3>3. b \in accounts
      BY <1>5, <1>12, <1>21 DEF HomeInv, ListedOK, Clean
    <3>4. settings'[b] # Missing /\ settings'[b].root # Blank
      BY <1>2, <1>5, <1>20, <1>21, <3>1 DEF Coming
    <3> QED BY <3>2, <3>3, <3>4
  <2> QED BY <2>1, <2>2
<1>22. NoBlankShown'
  BY <1>2, <1>20, <1>21 DEF NoBlankShown, Exists
<1> QED BY <1>9, <1>10, <1>11, <1>13, <1>16, <1>18, <1>19, <1>22 DEF HomeInv

(* The user types a path: it is not blank.                                 *)
LEMMA TypeInv ==
  ASSUME HomeInv, NEW a \in Listed, NEW p \in Path, Home!Type(a, p) PROVE HomeInv'
<1>1. /\ field' = [field EXCEPT ![a] = p]
      /\ UNCHANGED <<row, accounts, settings, loading, visits, mounted, deleting,
                     list, get, change, changes, strayed, early>>
  BY DEF Home!Type, Home!server, Home!store, Home!net
<1>2. Home!TypeOK' /\ ChangesOK' /\ VisitsOK'
  BY <1>1 DEF HomeInv, Home!TypeOK, ChangesOK, VisitsOK
<1>3. AnswersOK' /\ ListedOK' /\ SettingsOK'
  BY <1>1 DEF HomeInv, AnswersOK, ListedOK, SettingsOK, Coming, Exists, Home!Repairs
<1>4. NoBlankStored' /\ NoBlankOnItsWay'
  BY <1>1 DEF HomeInv, NoBlankStored, NoBlankOnItsWay, Clean, Exists
<1>5. NoBlankShown'
  BY <1>1, PageConstantsOK
     DEF HomeInv, Home!TypeOK, NoBlankShown, Clean, Coming, Exists, Home!Filling
<1> QED BY <1>2, <1>3, <1>4, <1>5 DEF HomeInv

(* The delete dialog is opened or closed.                                  *)
LEMMA DialogInv ==
  ASSUME HomeInv, (\E a \in Listed : Home!OpenDelete(a)) \/ Home!CloseDelete PROVE HomeInv'
<1>1. /\ deleting' \in Listed \cup {Missing}
      /\ UNCHANGED <<row, accounts, settings, loading, visits, mounted, field,
                     list, get, change, changes, strayed, early>>
  BY DEF Home!OpenDelete, Home!CloseDelete, Home!server, Home!store, Home!net
<1>2. Home!TypeOK' /\ ChangesOK' /\ VisitsOK'
  BY <1>1 DEF HomeInv, Home!TypeOK, ChangesOK, VisitsOK
<1>3. AnswersOK' /\ ListedOK' /\ SettingsOK'
  BY <1>1 DEF HomeInv, AnswersOK, ListedOK, SettingsOK, Coming, Exists, Home!Repairs
<1>4. NoBlankStored' /\ NoBlankOnItsWay' /\ NoBlankShown'
  BY <1>1 DEF HomeInv, NoBlankStored, NoBlankOnItsWay, NoBlankShown, Clean, Coming, Exists,
              Home!Filling
<1> QED BY <1>2, <1>3, <1>4 DEF HomeInv

(* A change is asked for; a path, if nothing was saved early, with a path.  *)
LEMMA AskInv ==
  ASSUME HomeInv, NEW kind, NEW a \in Listed, NEW value, Home!Ask(kind, a, value),
         \/ kind = "path" /\ value \in Path \cup {Blank}
         \/ kind \in {"password", "delete"} /\ value \in BOOLEAN,
         early' \in BOOLEAN, early => early',
         kind = "path" /\ ~strayed /\ ~early' /\ Exists(a) => value # Blank
  PROVE  HomeInv'
<1> DEFINE c == [is |-> "asked", kind |-> kind, account |-> a, value |-> value]
<1>1. /\ mounted /\ changes < MaxChanges /\ changes' = changes + 1
      /\ change[visits] = Home!No /\ change' = [change EXCEPT ![visits] = c]
      /\ UNCHANGED <<row, accounts, settings, loading, visits, mounted, field, deleting,
                     list, get, strayed>>
  BY DEF Home!Ask, Home!Idle, Home!server, Home!store, Home!page
<1>2. visits \in Home!Visit
  BY <1>1, VisitFacts DEF HomeInv, VisitsOK
<1>3. c \in Changes /\ c.is = "asked" /\ c.kind = kind /\ c.account = a /\ c.value = value
  BY DEF Changes
<1>4. change'[visits] = c /\ \A w \in Home!Visit : w # visits => change'[w] = change[w]
  BY <1>1, <1>2 DEF HomeInv, ChangesOK
<1>5. \A w \in Home!Visit : \A b, x : Home!Repairs(change'[w], b, x) <=> Home!Repairs(change[w], b, x)
  BY <1>1, <1>3, <1>4, Values DEF Home!Repairs
<1>6. \A w \in Home!Visit : change'[w].is = "answered" => change'[w] = change[w]
  BY <1>3, <1>4
<1>7. ChangesOK'
  BY <1>1, <1>3 DEF HomeInv, ChangesOK
<1>8. Home!TypeOK'
  <2>1. changes' \in 0..MaxChanges
    BY <1>1, PageConstantsOK DEF HomeInv, Home!TypeOK
  <2>2. \A w \in Home!Visit : change'[w].is \in {"none", "asked", "answered", "failed"}
    BY <1>3, <1>4 DEF HomeInv, Home!TypeOK
  <2> QED BY <1>1, <2>1, <2>2 DEF HomeInv, Home!TypeOK
<1>9. VisitsOK'
  BY <1>1 DEF HomeInv, VisitsOK
<1>10. AnswersOK'
  BY <1>1, <1>6 DEF HomeInv, AnswersOK, Exists
<1>11. \A b, x : (\E w \in Home!Visit : Home!Repairs(change[w], b, x))
                 => \E w \in Home!Visit : Home!Repairs(change[w], b, x)'
  BY <1>1, <1>5 DEF Home!Repairs
<1>12. ListedOK'
  BY <1>1, <1>11 DEF HomeInv, ListedOK, Exists
<1>13. SettingsOK'
  BY <1>1, <1>11 DEF HomeInv, SettingsOK, Coming, Exists
<1>14. Clean' => Clean
  BY <1>1 DEF Clean
<1>15. NoBlankStored'
  BY <1>1, <1>14 DEF HomeInv, NoBlankStored, Exists
<1>16. NoBlankOnItsWay'
  BY <1>1, <1>3, <1>4, <1>6, <1>14 DEF HomeInv, NoBlankOnItsWay, Exists, Clean
<1>17. NoBlankShown'
  BY <1>1, <1>14 DEF HomeInv, NoBlankShown, Coming, Exists, Home!Filling
<1> QED BY <1>7, <1>8, <1>9, <1>10, <1>12, <1>13, <1>15, <1>16, <1>17 DEF HomeInv

LEMMA SavePathInv ==
  ASSUME HomeInv, NEW a \in Listed, Home!SavePath(a) PROVE HomeInv'
<1>1. Home!Ask("path", a, field[a]) /\ field[a] \in Path \cup {Blank} /\ mounted
  BY DEF Home!SavePath, Home!Ask, Home!Idle, HomeInv, Home!TypeOK
<1>2. early' \in BOOLEAN /\ (early => early')
  BY DEF Home!SavePath, HomeInv, Home!TypeOK
<1>3. ~strayed /\ ~early' /\ Exists(a) => field[a] # Blank
  BY <1>1 DEF Home!SavePath, HomeInv, NoBlankShown, Clean
<1> QED BY <1>1, <1>2, <1>3, AskInv

LEMMA OtherChangeInv ==
  ASSUME HomeInv,
         \/ \E a \in Listed : Home!SavePassword(a)
         \/ \E given \in BOOLEAN : Home!ConfirmDelete(given)
  PROVE  HomeInv'
<1>1. PICK a \in Listed, kind \in {"password", "delete"}, value \in BOOLEAN :
        Home!Ask(kind, a, value) /\ UNCHANGED early
  BY DEF Home!SavePassword, Home!ConfirmDelete, HomeInv, Home!TypeOK
<1>2. early' \in BOOLEAN /\ (early => early')
  BY <1>1 DEF HomeInv, Home!TypeOK
<1> QED BY <1>1, <1>2, AskInv

-----------------------------------------------------------------------------
(* The changes: handled, and answered. *)

(* What a change on its way or an answer to one carries.                   *)
LEMMA ChangeFacts ==
  ASSUME HomeInv, NEW v \in Home!Visit
  PROVE  /\ change[v].is = "asked" =>
              /\ change[v] \in Changes /\ change[v].account \in Listed
              /\ \/ change[v].kind = "path" /\ change[v].value \in Path \cup {Blank}
                 \/ change[v].kind \in {"password", "delete"}
         /\ change[v].is = "answered" =>
              /\ change[v] \in Changes /\ change[v].account \in Listed
              /\ \/ change[v].kind \in {"path", "password"} /\ change[v].value \in Home!Settings
                 \/ change[v].kind = "delete" /\ change[v].value = Missing
BY Requests, Values DEF HomeInv, ChangesOK, Changes

(* The change is refused: nothing happens.                                 *)
LEMMA RefuseInv ==
  ASSUME HomeInv, NEW v \in Home!Visit, Home!HandleChange(v), Home!Refused(change[v])
  PROVE  HomeInv'
<1>1. /\ change[v].is = "asked" /\ change' = [change EXCEPT ![v].is = "failed"]
      /\ UNCHANGED <<row, accounts, settings, loading, visits, mounted, field, deleting,
                     list, get, changes, strayed, early>>
  BY DEF Home!HandleChange, Home!store, Home!page
<1>2. /\ change'[v].is = "failed" /\ change'[v] \in Changes
      /\ \A w \in Home!Visit : w # v => change'[w] = change[w]
  BY <1>1, ChangeFacts DEF HomeInv, ChangesOK, Changes
<1>3. \A w \in Home!Visit : change'[w].is \in {"asked", "answered"} => change'[w] = change[w]
  BY <1>2
<1>4. \A b, x : (\E w \in Home!Visit : Home!Repairs(change[w], b, x))
                 => \E w \in Home!Visit : Home!Repairs(change[w], b, x)'
  BY <1>1, <1>2 DEF Home!Repairs
<1>5. ChangesOK'
  BY <1>1, <1>2 DEF HomeInv, ChangesOK
<1>6. Home!TypeOK'
  <2>1. \A w \in Home!Visit : change'[w].is \in {"none", "asked", "answered", "failed"}
    BY <1>2 DEF HomeInv, Home!TypeOK
  <2> QED BY <1>1, <2>1 DEF HomeInv, Home!TypeOK
<1>7. VisitsOK' /\ AnswersOK'
  BY <1>1, <1>3 DEF HomeInv, VisitsOK, AnswersOK, Exists
<1>8. ListedOK' /\ SettingsOK'
  BY <1>1, <1>4 DEF HomeInv, ListedOK, SettingsOK, Coming, Exists
<1>9. NoBlankStored' /\ NoBlankOnItsWay' /\ NoBlankShown'
  BY <1>1, <1>3 DEF HomeInv, NoBlankStored, NoBlankOnItsWay, NoBlankShown, Clean, Coming,
                    Exists, Home!Filling
<1> QED BY <1>5, <1>6, <1>7, <1>8, <1>9 DEF HomeInv

(* The change is done: its answer is on its way, and sets right what the    *)
(* store has.                                                              *)
LEMMA HandleInv ==
  ASSUME HomeInv, NEW v \in Home!Visit, Home!HandleChange(v), ~Home!Refused(change[v])
  PROVE  HomeInv'
<1>0. PICK c, a, h, d :
        /\ c = change[v] /\ a = c.account /\ h = Home!Handled(c)
        /\ d = [is |-> "answered", kind |-> c.kind, account |-> a, value |-> h]
  OBVIOUS
<1>1. /\ c.is = "asked" /\ c \in Changes /\ a \in Listed
      /\ \/ c.kind = "path" /\ c.value \in Path \cup {Blank}
         \/ c.kind \in {"password", "delete"}
  BY <1>0, ChangeFacts DEF Home!HandleChange
<1>2. /\ row' = [row EXCEPT ![a] = h] /\ change' = [change EXCEPT ![v] = d]
      /\ UNCHANGED <<accounts, settings, loading, visits, mounted, field, deleting,
                     list, get, changes, strayed, early>>
  BY <1>0 DEF Home!HandleChange, Home!store, Home!page
<1>3. Exists(a) /\ row[a] \in Home!Settings
  BY <1>0, <1>1, Requests DEF Home!Refused, Exists
<1>4. \/ c.kind = "path" /\ h \in Home!Settings /\ h.root = c.value
      \/ /\ c.kind = "password" /\ h \in Home!Settings
         /\ h.root = row[a].root /\ h.has_password
         /\ h = [row[a] EXCEPT !.has_password = TRUE]
      \/ c.kind = "delete" /\ h = Missing
  BY <1>0, <1>1, <1>3 DEF Home!Handled, Home!Settings
<1>5. d \in Changes /\ d.is = "answered" /\ d.kind = c.kind /\ d.account = a /\ d.value = h
  BY <1>0, <1>1, <1>4 DEF Changes
<1>6. /\ change'[v] = d /\ row'[a] = h
      /\ \A w \in Home!Visit : w # v => change'[w] = change[w]
      /\ \A b \in Listed : b # a => row'[b] = row[b]
  BY <1>1, <1>2 DEF HomeInv, ChangesOK, Home!TypeOK
<1>7. ChangesOK'
  BY <1>2, <1>5 DEF HomeInv, ChangesOK
<1>8. Home!TypeOK'
  <2>1. \A w \in Home!Visit : change'[w].is \in {"none", "asked", "answered", "failed"}
    BY <1>5, <1>6 DEF HomeInv, Home!TypeOK
  <2>2. row' \in [Listed -> Home!Settings \cup {Missing}]
    BY <1>2, <1>4 DEF HomeInv, Home!TypeOK
  <2> QED BY <1>2, <2>1, <2>2 DEF HomeInv, Home!TypeOK
<1>9. VisitsOK'
  BY <1>2 DEF HomeInv, VisitsOK
<1>10. \A b \in Listed : Exists(b)' => Exists(b)
  BY <1>3, <1>6 DEF Exists
<1>11. AnswersOK'
  <2>1. ASSUME NEW w \in Home!Visit, change'[w].is = "answered"
        PROVE  /\ change'[w].kind = "delete" => row'[change'[w].account] = Missing
               /\ change'[w].kind = "password" => change'[w].value.has_password
    <3>1. CASE w = v
      BY <1>4, <1>5, <1>6, <3>1, Values
    <3>2. CASE w # v
      <4>1. change'[w] = change[w] /\ change[w].account \in Listed
        BY <1>6, <2>1, <3>2, ChangeFacts
      <4> QED BY <1>10, <2>1, <4>1 DEF HomeInv, AnswersOK, Exists
    <3> QED BY <3>1, <3>2
  <2> QED BY <1>2, <1>10, <2>1 DEF HomeInv, AnswersOK, Exists
<1>12. c.kind # "password" => \A x : Home!Repairs(d, a, x)'
  BY <1>5 DEF Home!Repairs
<1>13. \A b \in Listed : \A x : (\E w \in Home!Visit : Home!Repairs(change[w], b, x)) =>
                        \E w \in Home!Visit : Home!Repairs(change[w], b, x)'
  <2> SUFFICES ASSUME NEW b \in Listed, NEW x, NEW w \in Home!Visit,
                      Home!Repairs(change[w], b, x)
               PROVE  \E u \in Home!Visit : Home!Repairs(change[u], b, x)'
    OBVIOUS
  <2>1. w # v /\ change'[w] = change[w]
    BY <1>0, <1>1, <1>6 DEF Home!Repairs
  <2>2. CASE b # a
    BY <1>6, <2>1, <2>2 DEF Home!Repairs
  <2>3. CASE b = a /\ c.kind # "password"
    <3>1. Home!Repairs(change[v], a, x)'
      BY <1>5, <1>6, <2>3 DEF Home!Repairs
    <3> QED BY <2>3, <3>1
  <2>4. CASE b = a /\ c.kind = "password"
    <3>1. h # Missing /\ h.root = row[a].root
      BY <1>4, <2>4, Values
    <3> QED BY <1>6, <2>1, <2>4, <3>1 DEF Home!Repairs
  <2> QED BY <2>2, <2>3, <2>4
<1>14. ASSUME h = Missing PROVE Home!Repairs(change[v], a, Missing)'
  BY <1>4, <1>5, <1>6, <1>14, Values DEF Home!Repairs
<1>15. ListedOK'
  <2> SUFFICES ASSUME ~strayed, NEW b \in Listed
               PROVE  /\ Exists(b)' /\ (\E w \in 1..visits : list[w] = Home!No) => b \in accounts
                      /\ ~Exists(b)' /\ b \in accounts =>
                           \E w \in Home!Visit : Home!Repairs(change[w], b, Missing)'
    BY <1>2 DEF ListedOK, Exists
  <2>1. ~Exists(b)' /\ Exists(b) => b = a /\ h = Missing
    BY <1>6 DEF Exists
  <2> QED BY <1>10, <1>13, <1>14, <2>1 DEF HomeInv, ListedOK
<1>16. SettingsOK'
  <2> SUFFICES ASSUME ~strayed, NEW b \in Listed, settings[b] # row'[b]
               PROVE  \/ \E w \in Home!Visit : Home!Repairs(change[w], b, settings[b])'
                      \/ Exists(b)' /\ (visits = 0 \/ \E w \in 1..visits : Coming(w, b))
    BY <1>2 DEF SettingsOK, Coming, Exists
  <2>1. CASE b # a
    BY <1>2, <1>6, <1>13, <2>1 DEF HomeInv, SettingsOK, Exists
  <2>2. CASE b = a /\ c.kind # "password"
    <3>1. Home!Repairs(change[v], a, settings[a])'
      BY <1>5, <1>6, <2>2 DEF Home!Repairs
    <3> QED BY <2>2, <3>1
  <2>3. CASE b = a /\ c.kind = "password"
    <3>1. h # Missing /\ h.root = row[a].root /\ Exists(a)'
      BY <1>4, <1>6, <2>3, Values DEF Exists
    <3>2. CASE settings[a] = row[a]
      <4>1. Home!Repairs(change[v], a, settings[a])'
        BY <1>2, <1>3, <1>5, <1>6, <3>1, <3>2, Values DEF Home!Repairs
      <4> QED BY <2>3, <4>1
    <3>3. CASE settings[a] # row[a]
      BY <1>1, <1>2, <1>13, <2>3, <3>1, <3>3 DEF HomeInv, SettingsOK
    <3> QED BY <3>2, <3>3
  <2> QED BY <2>1, <2>2, <2>3
<1>17. Clean' => Clean
  BY <1>2 DEF Clean
<1>18. Clean /\ c.kind = "path" => c.value # Blank
  BY <1>0, <1>1, <1>3 DEF HomeInv, NoBlankOnItsWay
<1>19. NoBlankStored'
  BY <1>3, <1>4, <1>6, <1>17, <1>18 DEF HomeInv, NoBlankStored, Exists
<1>20. NoBlankOnItsWay'
  <2>1. ASSUME Clean, NEW w \in Home!Visit
        PROVE  /\ change'[w].is = "asked" /\ change'[w].kind = "path"
                    /\ row'[change'[w].account] # Missing => change'[w].value # Blank
               /\ change'[w].is = "answered" /\ change'[w].kind = "path"
                    => change'[w].value.root # Blank
    <3>1. CASE w = v
      BY <1>4, <1>5, <1>6, <1>18, <2>1, <3>1
    <3>2. CASE w # v
      <4>1. change'[w] = change[w]
        BY <1>6, <3>2
      <4>2. /\ change[w].is = "asked" /\ change[w].kind = "path" /\ Exists(change[w].account)
                 => change[w].value # Blank
            /\ change[w].is = "answered" /\ change[w].kind = "path" => change[w].value.root # Blank
        BY <2>1 DEF HomeInv, NoBlankOnItsWay
      <4>3. change[w].is = "asked" /\ row'[change[w].account] # Missing => Exists(change[w].account)
        BY <1>10, ChangeFacts DEF Exists
      <4> QED BY <4>1, <4>2, <4>3 DEF Exists
    <3> QED BY <3>1, <3>2
  <2>2. ASSUME Clean, NEW w \in Home!Visit, NEW b \in Listed, get[w][b].is = "answered",
               get[w][b].value # Missing
        PROVE  get[w][b].value.root # Blank
    BY <2>2 DEF HomeInv, NoBlankOnItsWay
  <2> QED BY <1>2, <1>17, <2>1, <2>2 DEF NoBlankOnItsWay, Exists
<1>21. NoBlankShown'
  BY <1>2, <1>10, <1>17 DEF HomeInv, NoBlankShown, Coming, Home!Filling
<1> QED BY <1>7, <1>8, <1>9, <1>11, <1>15, <1>16, <1>19, <1>20, <1>21 DEF HomeInv

(* The store takes an answer.                                              *)
LEMMA ChangeArrivesInv ==
  ASSUME HomeInv, NEW v \in Home!Visit, Home!ChangeArrives(v) PROVE HomeInv'
<1>0. PICK c, a, s : c = change[v] /\ a = c.account /\ s = Home!Taken(c)
  OBVIOUS
<1>1. /\ c.is = "answered" /\ c \in Changes /\ a \in Listed
      /\ \/ c.kind \in {"path", "password"} /\ c.value \in Home!Settings
         \/ c.kind = "delete" /\ c.value = Missing
  BY <1>0, ChangeFacts DEF Home!ChangeArrives
<1>2. /\ change' = [change EXCEPT ![v] = Home!No] /\ settings' = [settings EXCEPT ![a] = s]
      /\ accounts' = IF c.kind = "delete" THEN accounts \ {a} ELSE accounts
      /\ deleting' \in {deleting, Missing}
      /\ strayed' = (strayed \/ Home!Outdated(a, c.value, Home!Visit \ {v}))
      /\ UNCHANGED <<row, loading, visits, mounted, field, list, get, changes, early>>
  BY <1>0 DEF Home!ChangeArrives, Home!server
<1>3. /\ c.kind # "password" => s = c.value
      /\ c.kind = "password" =>
           /\ s \in Home!Settings /\ s.has_password
           /\ IF settings[a] = Missing THEN s.root = Blank ELSE s.root = settings[a].root
  BY <1>0, <1>1, Requests, Values DEF Home!Taken, Home!Settings
<1>4. s \in Home!Settings \cup {Missing}
  BY <1>1, <1>3
<1>5. c.kind = "delete" => ~Exists(a)
  BY <1>0, <1>1 DEF HomeInv, AnswersOK
<1>6. c.kind = "password" => c.value.has_password
  BY <1>0, <1>1 DEF HomeInv, AnswersOK
<1>7. /\ change'[v] = Home!No /\ \A w \in Home!Visit : w # v => change'[w] = change[w]
      /\ settings'[a] = s /\ \A b \in Listed : b # a => settings'[b] = settings[b]
  BY <1>1, <1>2 DEF HomeInv, ChangesOK, Home!TypeOK
<1>8. ChangesOK'
  BY <1>2 DEF HomeInv, ChangesOK
<1>9. Home!TypeOK'
  <2>1. \A w \in Home!Visit : change'[w].is \in {"none", "asked", "answered", "failed"}
    BY <1>7, Values DEF HomeInv, Home!TypeOK
  <2>2. settings' \in [Listed -> Home!Settings \cup {Missing}]
    BY <1>2, <1>4 DEF HomeInv, Home!TypeOK
  <2>3. strayed' \in BOOLEAN
    BY <1>2 DEF HomeInv, Home!TypeOK
  <2> QED BY <1>2, <2>1, <2>2, <2>3 DEF HomeInv, Home!TypeOK
<1>10. VisitsOK' /\ AnswersOK'
  BY <1>2, <1>7, Values DEF HomeInv, VisitsOK, AnswersOK, Exists
<1>11. \A w \in Home!Visit : \A b, x : w # v /\ Home!Repairs(change[w], b, x) =>
                                     Home!Repairs(change[w], b, x)'
  BY <1>2, <1>7 DEF Home!Repairs
<1>12. ~strayed' => ~strayed /\ ~Home!Outdated(a, c.value, Home!Visit \ {v})
  BY <1>2
<1>13. ~strayed' => \/ c.value = row[a]
                    \/ \E w \in Home!Visit \ {v} : Home!Repairs(change[w], a, c.value)
  BY <1>12 DEF Home!Outdated
<1>14. \A b \in Listed : \A x : b # a /\ (\E w \in Home!Visit : Home!Repairs(change[w], b, x))
         => \E w \in Home!Visit : Home!Repairs(change[w], b, x)'
  BY <1>0, <1>11 DEF Home!Repairs
<1>15. ListedOK'
  <2> SUFFICES ASSUME ~strayed', NEW b \in Listed
               PROVE  /\ Exists(b) /\ (\E w \in 1..visits : list[w] = Home!No) => b \in accounts'
                      /\ ~Exists(b) /\ b \in accounts' =>
                           \E w \in Home!Visit : Home!Repairs(change[w], b, Missing)'
    BY <1>2 DEF ListedOK, Exists
  <2>1. ~strayed /\ accounts' \subseteq accounts
    BY <1>2, <1>12
  <2>2. CASE b # a
    BY <1>2, <1>14, <2>1, <2>2 DEF HomeInv, ListedOK
  <2>3. CASE b = a
    <3>1. Exists(b) => (b \in accounts' <=> b \in accounts)
      BY <1>2, <1>5, <2>3
    <3>2. ASSUME ~Exists(a), a \in accounts'
          PROVE  \E w \in Home!Visit : Home!Repairs(change[w], a, Missing)'
      <4>1. c.value # Missing
        BY <1>1, <1>2, <3>2, Values
      <4>2. PICK w \in Home!Visit \ {v} : Home!Repairs(change[w], a, c.value)
        BY <1>13, <3>2, <4>1 DEF Exists
      <4>3. Home!Repairs(change[w], a, Missing)
        BY <3>2, <4>2 DEF Home!Repairs, Exists
      <4> QED BY <1>11, <4>3
    <3> QED BY <2>1, <2>3, <3>1, <3>2 DEF HomeInv, ListedOK
  <2> QED BY <2>2, <2>3
<1>16. ASSUME ~strayed', s # row[a]
       PROVE  \/ \E w \in Home!Visit : Home!Repairs(change[w], a, s)'
              \/ Exists(a) /\ (visits = 0 \/ \E w \in 1..visits : Coming(w, a))
  <2>1. CASE c.kind # "password"
    <3>1. PICK w \in Home!Visit \ {v} : Home!Repairs(change[w], a, s)
      BY <1>3, <1>13, <1>16, <2>1
    <3> QED BY <1>11, <3>1
  <2>2. CASE c.kind = "password"
    <3>1. c.value \in Home!Settings /\ c.value.has_password
      BY <1>1, <1>6, <2>2
    <3>2. CASE \E w \in Home!Visit \ {v} : Home!Repairs(change[w], a, c.value)
                                           /\ change[w].kind # "password"
      <4>1. PICK w \in Home!Visit \ {v} : Home!Repairs(change[w], a, c.value)
                                          /\ change[w].kind # "password"
        BY <3>2
      <4>2. Home!Repairs(change[w], a, s)
        BY <4>1 DEF Home!Repairs
      <4> QED BY <1>11, <4>2
    <3>3. CASE /\ settings[a] # Missing /\ row[a] # Missing /\ settings[a].root = row[a].root
               /\ ~\E w \in Home!Visit \ {v} : Home!Repairs(change[w], a, c.value)
                                               /\ change[w].kind # "password"
      <4>1. s \in Home!Settings /\ s.has_password /\ s.root = row[a].root
        BY <1>3, <2>2, <3>3
      <4>2. c.value # row[a]
        <5>1. row[a] \in Home!Settings
          BY <1>1, <3>3, Requests
        <5> QED BY <1>16, <3>1, <4>1, <5>1 DEF Home!Settings
      <4>3. PICK w \in Home!Visit \ {v} : Home!Repairs(change[w], a, c.value)
        BY <1>13, <1>16, <4>2
      <4>4. Home!Repairs(change[w], a, s)
        BY <3>3, <4>1, <4>3, Values DEF Home!Repairs
      <4> QED BY <1>11, <4>4
    <3>4. CASE /\ ~(settings[a] # Missing /\ row[a] # Missing /\ settings[a].root = row[a].root)
               /\ ~\E w \in Home!Visit \ {v} : Home!Repairs(change[w], a, c.value)
                                               /\ change[w].kind # "password"
      <4>1. Exists(a)
        <5>1. row[a] = c.value \/ \E w \in Home!Visit \ {v} : Home!Repairs(change[w], a, c.value)
                                                               /\ change[w].kind = "password"
          BY <1>13, <1>16, <3>4
        <5> QED BY <3>1, <5>1, Values DEF Home!Repairs, Exists
      <4>2. settings[a] # row[a]
        BY <3>4, <4>1 DEF Exists
      <4>3. CASE \E w \in Home!Visit : Home!Repairs(change[w], a, settings[a])
        <5>1. PICK w \in Home!Visit : Home!Repairs(change[w], a, settings[a])
          BY <4>3
        <5>2. change[w].kind # "password" /\ w # v
          BY <1>0, <2>2, <3>4, <5>1 DEF Home!Repairs
        <5>3. Home!Repairs(change[w], a, c.value)
          BY <5>1, <5>2 DEF Home!Repairs
        <5> QED BY <3>4, <5>2, <5>3
      <4> QED BY <1>1, <1>12, <1>16, <4>1, <4>2, <4>3 DEF HomeInv, SettingsOK
    <3> QED BY <3>2, <3>3, <3>4
  <2> QED BY <2>1, <2>2
<1>17. SettingsOK'
  <2> SUFFICES ASSUME ~strayed', NEW b \in Listed, NEW x, x = settings'[b], x # row[b]
               PROVE  \/ \E w \in Home!Visit : Home!Repairs(change[w], b, x)'
                      \/ Exists(b) /\ (visits = 0 \/ \E w \in 1..visits : Coming(w, b))
    BY <1>2 DEF SettingsOK, Coming, Exists
  <2>1. CASE b = a
    BY <1>7, <1>16, <2>1
  <2>2. CASE b # a
    BY <1>7, <1>12, <1>14, <2>2 DEF HomeInv, SettingsOK
  <2> QED BY <2>1, <2>2
<1>18. Clean' => Clean
  BY <1>2, <1>12 DEF Clean
<1>19. NoBlankStored' /\ NoBlankOnItsWay'
  BY <1>2, <1>7, <1>18, Values DEF HomeInv, NoBlankStored, NoBlankOnItsWay, Exists
<1>20. ASSUME Clean, Exists(a), \E w \in 1..visits : ~Coming(w, a)
       PROVE  s # Missing /\ s.root # Blank
  <2>1. c.kind \in {"path", "password"} /\ c.value \in Home!Settings
    BY <1>1, <1>5, <1>20
  <2>2. CASE c.kind = "path"
    BY <1>0, <1>1, <1>3, <1>20, <2>1, <2>2, Values DEF HomeInv, NoBlankOnItsWay
  <2>3. CASE c.kind = "password"
    <3>1. settings[a] # Missing /\ settings[a].root # Blank
      BY <1>1, <1>20 DEF HomeInv, NoBlankShown
    <3> QED BY <1>3, <2>3, <3>1, Values
  <2> QED BY <2>1, <2>2, <2>3
<1>21. NoBlankShown'
  BY <1>2, <1>7, <1>18, <1>20 DEF HomeInv, NoBlankShown, Coming, Exists, Home!Filling
<1> QED BY <1>8, <1>9, <1>10, <1>15, <1>17, <1>19, <1>21 DEF HomeInv

(* A refusal arrives, or an answer is lost.                                *)
LEMMA ChangeFailsInv ==
  ASSUME HomeInv, NEW v \in Home!Visit, Home!ChangeFails(v) PROVE HomeInv'
<1>1. /\ change' = [change EXCEPT ![v] = Home!No]
      /\ strayed' = (strayed \/ change[v].is = "answered")
      /\ UNCHANGED <<row, accounts, settings, loading, visits, mounted, field, deleting,
                     list, get, changes, early>>
  BY DEF Home!ChangeFails, Home!server, Home!store, Home!page
<1>2. change'[v] = Home!No /\ \A w \in Home!Visit : w # v => change'[w] = change[w]
  BY <1>1 DEF HomeInv, ChangesOK
<1>3. \A w \in Home!Visit : change'[w].is \in {"asked", "answered"} => change'[w] = change[w]
  BY <1>2, Values
<1>4. ~strayed' => ~strayed /\ change[v].is # "answered"
  BY <1>1
<1>5. \A b, x : ~strayed' /\ (\E w \in Home!Visit : Home!Repairs(change[w], b, x))
                 => \E w \in Home!Visit : Home!Repairs(change[w], b, x)'
  BY <1>1, <1>2, <1>4 DEF Home!Repairs
<1>6. ChangesOK'
  BY <1>1 DEF HomeInv, ChangesOK
<1>7. Home!TypeOK'
  <2>1. \A w \in Home!Visit : change'[w].is \in {"none", "asked", "answered", "failed"}
    BY <1>2, Values DEF HomeInv, Home!TypeOK
  <2>2. strayed' \in BOOLEAN
    BY <1>1 DEF HomeInv, Home!TypeOK
  <2> QED BY <1>1, <2>1, <2>2 DEF HomeInv, Home!TypeOK
<1>8. VisitsOK' /\ AnswersOK'
  BY <1>1, <1>3 DEF HomeInv, VisitsOK, AnswersOK, Exists
<1>9. ListedOK' /\ SettingsOK'
  BY <1>1, <1>4, <1>5 DEF HomeInv, ListedOK, SettingsOK, Coming, Exists
<1>10. NoBlankStored' /\ NoBlankOnItsWay' /\ NoBlankShown'
  BY <1>1, <1>3, <1>4 DEF HomeInv, NoBlankStored, NoBlankOnItsWay, NoBlankShown, Clean, Coming,
                          Exists, Home!Filling
<1> QED BY <1>6, <1>7, <1>8, <1>9, <1>10 DEF HomeInv

LEMMA HomeInit == Home!Init => HomeInv
<1> SUFFICES ASSUME Home!Init PROVE HomeInv OBVIOUS
<1> DEFINE p == CHOOSE q \in Path : TRUE
           first == [root |-> p, has_password |-> FALSE]
<1>1. p \in Path BY PageConstantsOK
<1>2. first \in Home!Settings /\ first.root = p BY <1>1 DEF Home!Settings
<1>3. /\ row = [a \in Listed |-> first]
      /\ accounts = {} /\ settings = [a \in Listed |-> Missing] /\ loading = FALSE
      /\ visits = 0 /\ mounted = FALSE
      /\ field = [a \in Listed |-> Blank] /\ deleting = Missing
      /\ list = [v \in Home!Visit |-> Home!No]
      /\ get = [v \in Home!Visit |-> [a \in Listed |-> Home!No]]
      /\ change = [v \in Home!Visit |-> Home!No] /\ changes = 0
      /\ strayed = FALSE /\ early = FALSE
  BY DEF Home!Init
<1> HIDE DEF first, p
<1>4. Home!TypeOK
  <2>1. 0 \in 0..MaxVisits /\ 0 \in 0..MaxChanges BY PageConstantsOK
  <2> QED BY <1>2, <1>3, <2>1, Values DEF Home!TypeOK
<1>5. ChangesOK /\ VisitsOK BY <1>3 DEF ChangesOK, VisitsOK
<1>6. \A a \in Listed : Exists(a) BY <1>2, <1>3, Values DEF Exists
<1>7. 1..visits = {} BY <1>3
<1>8. AnswersOK /\ ListedOK /\ SettingsOK
  BY <1>3, <1>6, <1>7, Values DEF AnswersOK, ListedOK, SettingsOK
<1>9. NoBlankStored /\ NoBlankOnItsWay /\ NoBlankShown
  BY <1>1, <1>2, <1>3, <1>7, Values, PageConstantsOK
     DEF NoBlankStored, NoBlankOnItsWay, NoBlankShown
<1> QED BY <1>4, <1>5, <1>8, <1>9 DEF HomeInv

LEMMA HomeUnchanged == HomeInv /\ UNCHANGED home => HomeInv'
<1> SUFFICES ASSUME HomeInv, UNCHANGED home PROVE HomeInv' OBVIOUS
<1> USE DEF home
<1>1. Home!TypeOK' /\ ChangesOK' /\ VisitsOK'
  BY DEF HomeInv, Home!TypeOK, ChangesOK, VisitsOK
<1>2. AnswersOK' /\ ListedOK' /\ SettingsOK'
  BY DEF HomeInv, AnswersOK, ListedOK, SettingsOK, Coming, Exists, Home!Repairs
<1>3. NoBlankStored' /\ NoBlankOnItsWay' /\ NoBlankShown'
  BY DEF HomeInv, NoBlankStored, NoBlankOnItsWay, NoBlankShown, Clean, Coming, Exists,
         Home!Filling
<1> QED BY <1>1, <1>2, <1>3 DEF HomeInv

LEMMA HomeStep == HomeInv /\ Home!Next => HomeInv'
<1> SUFFICES ASSUME HomeInv, Home!Next PROVE HomeInv' OBVIOUS
<1>1. ASSUME NEW v \in Home!Visit, Home!Fetch(v) PROVE HomeInv'
  BY <1>1, HandleListInv, ListArrivesInv, ListFailsInv, HandleGetInv, GetArrivesInv
     DEF Home!Fetch
<1>2. ASSUME NEW v \in Home!Visit,
             Home!HandleChange(v) \/ Home!ChangeArrives(v) \/ Home!ChangeFails(v)
      PROVE  HomeInv'
  BY <1>2, RefuseInv, HandleInv, ChangeArrivesInv, ChangeFailsInv
<1> QED BY <1>1, <1>2, EnterInv, LeaveInv, TypeInv, SavePathInv, OtherChangeInv, DialogInv
        DEF Home!Next

-----------------------------------------------------------------------------
(* What the pages promise. *)

LEMMA WebInvInit == WebInit => IInv
BY ChatInit, HomeInit DEF WebInit, IInv

LEMMA WebInvStep == IInv /\ [OnChat \/ OnHome]_<<page, vars, home>> => IInv'
<1> SUFFICES ASSUME IInv, [OnChat \/ OnHome]_<<page, vars, home>> PROVE IInv' OBVIOUS
<1>1. CASE OnChat
  BY <1>1, ChatStep, HomeUnchanged DEF OnChat, IInv
<1>2. CASE OnHome
  BY <1>2, ChatStep, HomeStep DEF OnHome, IInv
<1>3. CASE UNCHANGED <<page, vars, home>>
  BY <1>3, ChatStep, HomeUnchanged DEF IInv
<1> QED BY <1>1, <1>2, <1>3

LEMMA WebInvariant == WebSpec => []IInv
BY WebInvInit, WebInvStep, PTL DEF WebSpec

(* At rest nothing is on its way that could set the page right, so it is    *)
(* right.                                                                  *)
LEMMA RestIsRight == HomeInv => PageMatchesServer
<1> SUFFICES ASSUME HomeInv, Home!AtRest, ~strayed
             PROVE  accounts = Home!Existing /\ settings = row
  BY DEF PageMatchesServer, Home!PageMatchesServer
<1>1. /\ visits > 0 /\ visits \in 1..visits /\ list[visits] = Home!No
      /\ \A v \in Home!Visit : change[v] = Home!No
      /\ \A v \in 1..visits, a \in Listed : ~Coming(v, a)
  BY VisitFacts DEF Home!AtRest, Coming
<1>2. \A v \in Home!Visit : \A a, x : ~Home!Repairs(change[v], a, x)
  BY <1>1, Values DEF Home!Repairs
<1>3. \A a \in Listed : settings[a] = row[a]
  <2> SUFFICES ASSUME NEW a \in Listed, settings[a] # row[a] PROVE FALSE
    OBVIOUS
  <2>1. visits # 0 BY <1>1
  <2>2. \/ \E v \in Home!Visit : Home!Repairs(change[v], a, settings[a])
        \/ \E v \in 1..visits : Coming(v, a)
    BY <2>1 DEF HomeInv, SettingsOK
  <2> QED BY <1>1, <1>2, <2>2
<1>4. accounts = Home!Existing
  BY <1>1, <1>2 DEF HomeInv, ListedOK, Home!TypeOK, Home!Existing, Exists
<1> QED BY <1>3, <1>4 DEF HomeInv, Home!TypeOK

(* The variables of both pages are of their types.                         *)
THEOREM WebTypeCorrect == WebSpec => []WebTypeOK
<1>1. IInv => WebTypeOK
  BY DEF IInv, ChatInv, HomeInv, WebTypeOK
<1> QED BY <1>1, WebInvariant, PTL

(* The chat page never shows an account's conversations, or a talker's      *)
(* messages, under the name of another (chat.js:28-72).                    *)
THEOREM ChatShowsSelected == WebSpec => []ShownIsSelected
<1>1. IInv => ShownIsSelected
  BY DEF IInv, ChatInv
<1> QED BY <1>1, WebInvariant, PTL

(* When every call of syncRoute is over, the chat page shows what its route *)
(* names (chat.js:20-72, ChatView.vue:25-29).                              *)
THEOREM ChatShowsRoute == WebSpec => []RouteIsShown
<1>1. IInv => RouteIsShown
  BY RouteFollows DEF IInv
<1> QED BY <1>1, WebInvariant, PTL

(* When all is answered the account page lists the server's accounts with   *)
(* the server's settings (accounts.js:22-83).                              *)
THEOREM AccountsConverge == WebSpec => []PageMatchesServer
<1>1. IInv => PageMatchesServer
  BY RestIsRight DEF IInv
<1> QED BY <1>1, WebInvariant, PTL

(* The account page stores no empty path that nobody typed                 *)
(* (HomeView.vue:36-61).                                                   *)
THEOREM PathsNotBlanked == WebSpec => []NothingBlanked
<1>1. IInv => NothingBlanked
  BY DEF IInv, HomeInv, NoBlankStored, Clean, NothingBlanked, Home!NothingBlanked,
         Home!Existing, Exists
<1> QED BY <1>1, WebInvariant, PTL
=============================================================================
