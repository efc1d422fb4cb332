--------------------------- MODULE FtsIndexProofs ---------------------------
(***************************************************************************)
(* Proofs about FtsIndex, for any number of messages, texts, searches and  *)
(* any limit.  All four properties follow from IInv: an index row exists    *)
(* only for a stored message and only once, a search is past Ensure only    *)
(* when every trigger is installed, and from the first rebuild on, or as    *)
(* long as no write found the index half built, the index is exact as soon  *)
(* as anybody relies on it.                                                 *)
(***************************************************************************)
EXTENDS FtsIndex, TLAPS

PastEnsure == {"index", "messages", "rebuild", "query"}

(* At most one row for a stored message, and none for any other. *)
Lean ==
  \A m \in Message : \/ index[m] = <<>>
                     \/ m \in Stored /\ \E t \in Text : index[m] = <<t>>

(* What each search has executed is installed. *)
Installed ==
  /\ \A s \in Search : phase[s] = "ensure" => executed[s] < Statements
  /\ \A s \in Search : executed[s] <= installed
  /\ \A s \in Search : phase[s] \in PastEnsure => executed[s] = Statements
  /\ rebuilt => installed = Statements

(* The index has a row for every stored message and no other. *)
Exact == \A m \in Message : index[m] = IF m \in Stored THEN <<messages[m]>> ELSE <<>>

(* Somebody takes the index for complete: it has rows, or a search is      *)
(* about to query it.                                                      *)
Trusted == \/ \E m \in Message : index[m] # <<>>
           \/ \E s \in Search : phase[s] = "query"

Sound == ~premature /\ Trusted => HasUpdate /\ Exact

Answered == \A s \in Search : \A r \in answer[s] : r[2] = 1

IInv == /\ TypeOK /\ Lean /\ Installed /\ Sound /\ Answered
        /\ ExactOnceRebuilt

(* Nothing is stored, indexed or installed.                                *)
LEMMA InitInv == Init => IInv
<1> SUFFICES ASSUME Init PROVE IInv OBVIOUS
<1>1. Stored = {} BY DEF Init, Stored
<1>2. index \in [Message -> Seq(Text)] /\ \A m \in Message : index[m] = <<>> /\ Len(index[m]) = 0
  BY DEF Init
<1>3. needle \in [Search -> Needle]
  <2>1. (CHOOSE n \in Needle : TRUE) \in Needle BY ConstantsOK
  <2> QED BY <2>1 DEF Init
<1>4. TypeOK
  <2>1. phase \in [Search -> {"idle", "ensure", "index", "messages", "rebuild", "query", "done"}]
    BY DEF Init
  <2>2. installed \in 0..4 /\ executed \in [Search -> 0..4] BY DEF Init
  <2>3. answer \in [Search -> SUBSET (Message \X Nat)] /\ due \in [Search -> SUBSET Message]
    BY DEF Init
  <2>4. rebuilt \in BOOLEAN /\ premature \in BOOLEAN BY DEF Init
  <2> QED BY <1>1, <1>2, <1>3, <2>1, <2>2, <2>3, <2>4 DEF TypeOK
<1>5. Lean /\ Installed BY <1>1, <1>2 DEF Init, Lean, Installed, PastEnsure, Statements
<1>6. Sound /\ Answered /\ ExactOnceRebuilt
  BY <1>2 DEF Init, Sound, Trusted, Answered, ExactOnceRebuilt
<1> QED BY <1>4, <1>5, <1>6 DEF IInv

(* What a row list of one text looks like to the provers.                  *)
LEMMA OneRow ==
  ASSUME NEW t \in Text
  PROVE  /\ <<t>> \in Seq(Text) /\ <<>> \in Seq(Text) /\ <<t>> # <<>> /\ Append(<<>>, t) = <<t>>
         /\ DOMAIN <<t>> = {1} /\ <<t>>[1] = t
OBVIOUS

(* A write of one message: the others keep their texts and their rows.     *)
LEMMA WriteInv ==
  ASSUME IInv, NEW m \in Message, NEW t \in Text, Insert(m, t) \/ Update(m, t)
  PROVE  IInv'
<1> USE DEF HasInsert, HasUpdate, Statements
<1>1. /\ Stored' = Stored \cup {m} /\ messages'[m] = t
      /\ \A n \in Stored \ {m} : messages'[n] = messages[n]
  BY DEF Insert, Update, Stored
<1>2. index' = index \/ index' = [index EXCEPT ![m] = <<t>>]
  <2>1. CASE Insert(m, t)
    <3>1. index[m] = <<>> BY <2>1 DEF IInv, Lean, Insert
    <3>2. Append(index[m], t) = <<t>> BY <3>1, OneRow
    <3> QED BY <2>1, <3>2 DEF Insert
  <2>2. CASE Update(m, t) BY <2>2 DEF Update
  <2> QED BY <2>1, <2>2
<1>3. index' \in [Message -> Seq(Text)] /\ \A n \in Message \ {m} : index'[n] = index[n]
  BY <1>2, OneRow DEF IInv, TypeOK
<1>4. /\ UNCHANGED <<installed, rebuilt, phase, executed, needle, answer, due>>
      /\ premature' = (premature \/ HalfBuilt)
  BY DEF Insert, Update, request
<1>5. premature' \in BOOLEAN BY <1>4 DEF IInv, TypeOK, HalfBuilt
<1>6. TypeOK' BY <1>1, <1>3, <1>4, <1>5 DEF IInv, TypeOK
<1>7. Lean'
  <2>1. m \in Message /\ m \in Stored' BY <1>1
  <2>2. index'[m] = index[m] \/ index'[m] = <<t>> BY <1>2 DEF IInv, TypeOK
  <2>3. m \notin Stored => index[m] = <<>> BY DEF IInv, Lean
  <2>4. \A n \in Message \ {m} : n \in Stored' <=> n \in Stored BY <1>1
  <2> QED BY <1>3, <2>1, <2>2, <2>3, <2>4 DEF IInv, Lean
<1>8. Installed' BY <1>4 DEF IInv, Installed
<1>9. HasUpdate /\ Exact => Exact'
  <2> SUFFICES ASSUME HasUpdate, Exact, NEW n \in Message
               PROVE  index'[n] = IF n \in Stored' THEN <<messages'[n]>> ELSE <<>>
    BY DEF Exact
  <2>1. CASE n = m
    <3>1. index' = [index EXCEPT ![m] = <<t>>]
      <4>1. CASE Insert(m, t)
        <5>1. Append(index[m], t) = <<t>> BY <4>1, OneRow DEF IInv, Lean, Insert
        <5>2. HasInsert BY DEF IInv, TypeOK
        <5> QED BY <4>1, <5>1, <5>2 DEF Insert
      <4>2. CASE Update(m, t) BY <4>2 DEF Update
      <4> QED BY <4>1, <4>2
    <3> QED BY <1>1, <2>1, <3>1 DEF IInv, TypeOK
  <2>2. CASE n # m BY <1>1, <1>3, <2>2 DEF Exact
  <2> QED BY <2>1, <2>2
<1>10. ExactOnceRebuilt'
  <2> SUFFICES ASSUME rebuilt PROVE Exact' BY <1>4 DEF ExactOnceRebuilt, Exact
  <2>1. HasUpdate /\ Exact BY DEF IInv, Installed, ExactOnceRebuilt, Exact
  <2> QED BY <1>9, <2>1
<1>11. Sound'
  <2> SUFFICES ASSUME ~premature, ~HalfBuilt, Trusted' PROVE HasUpdate /\ Exact'
    BY <1>4 DEF Sound
  <2>1. CASE Trusted BY <1>9, <2>1 DEF IInv, Sound
  <2>2. CASE ~Trusted
    <3>1. \A n \in Message : index[n] = <<>> BY <2>2 DEF Trusted
    <3>2. index'[m] # <<>> BY <1>3, <1>4, <2>2 DEF Trusted
    <3>3. HasInsert
      <4>1. CASE Insert(m, t) BY <3>1, <3>2, <4>1 DEF Insert
      <4>2. CASE Update(m, t) BY <3>1, <3>2, <4>2 DEF Update, IInv, TypeOK
      <4> QED BY <4>1, <4>2
    <3>4. CASE rebuilt BY <1>9, <3>4 DEF IInv, Installed, ExactOnceRebuilt, Exact
    <3>5. CASE ~rebuilt
      <4>1. HasUpdate /\ \A n \in Stored : index[n] # <<>> BY <3>3, <3>5 DEF HalfBuilt
      <4>2. Stored = {} BY <3>1, <4>1 DEF IInv, TypeOK
      <4>3. Exact BY <3>1, <4>2 DEF Exact
      <4> QED BY <1>9, <4>1, <4>3
    <3> QED BY <3>4, <3>5
  <2> QED BY <2>1, <2>2
<1>12. Answered' BY <1>4 DEF IInv, Answered
<1> QED BY <1>6, <1>7, <1>8, <1>10, <1>11, <1>12 DEF IInv

(* A statement of a search that touches neither the store nor the index.   *)
LEMMA QuietInv ==
  ASSUME IInv, NEW s \in Search, UNCHANGED <<store, premature>>,
         NEW place \in {"idle", "ensure", "index", "messages", "rebuild", "query", "done"},
         phase' = [phase EXCEPT ![s] = place],
         executed' = executed \/ (place = "ensure" /\ executed' = [executed EXCEPT ![s] = 0]),
         place = "ensure" => executed'[s] = 0,
         place \in PastEnsure => phase[s] \in PastEnsure,
         place = "query" => \/ Stored = {}
                            \/ \E m \in Message : index[m] # <<>>,
         place = "query" /\ Stored = {} => phase[s] = "messages" \/ Trusted,
         needle' \in [Search -> Needle], due' \in [Search -> SUBSET Message],
         answer' \in [Search -> SUBSET (Message \X Nat)],
         \A u \in Search : answer'[u] = answer[u] \/ \A r \in answer'[u] : r[2] = 1
  PROVE  IInv'
<1>1. UNCHANGED <<messages, index, installed, rebuilt, premature, Stored>> BY DEF store, Stored
<1>2. TypeOK'
  <2>1. phase' \in [Search -> {"idle", "ensure", "index", "messages", "rebuild", "query", "done"}]
    BY DEF IInv, TypeOK
  <2>2. executed' \in [Search -> 0..4]
    <3>1. executed \in [Search -> 0..4] BY DEF IInv, TypeOK
    <3>2. CASE executed' = executed BY <3>1, <3>2
    <3>3. CASE executed' = [executed EXCEPT ![s] = 0] BY <3>1, <3>3
    <3> QED BY <3>2, <3>3
  <2> QED BY <1>1, <2>1, <2>2 DEF IInv, TypeOK
<1>3. Lean' /\ ExactOnceRebuilt' BY <1>1 DEF IInv, Lean, ExactOnceRebuilt
<1>4. Installed'
  <2>1. phase'[s] = place /\ \A u \in Search \ {s} : phase'[u] = phase[u] BY DEF IInv, TypeOK
  <2>2. \A u \in Search \ {s} : executed'[u] = executed[u] BY DEF IInv, TypeOK
  <2>3. executed'[s] \in {executed[s], 0} /\ (place \in PastEnsure => executed'[s] = executed[s])
    BY DEF IInv, TypeOK, PastEnsure
  <2>4. installed \in 0..4 /\ executed[s] \in 0..4 BY DEF IInv, TypeOK
  <2>5. executed[s] <= installed /\ (phase[s] \in PastEnsure => executed[s] = Statements)
    BY DEF IInv, Installed
  <2> QED BY <1>1, <2>1, <2>2, <2>3, <2>4, <2>5 DEF IInv, Installed, Statements
<1>5. Answered' BY DEF IInv, Answered
<1>6. Sound'
  <2>0. (HasUpdate' <=> HasUpdate) /\ (Exact' <=> Exact) BY <1>1 DEF HasUpdate, Exact
  <2> SUFFICES ASSUME ~premature, Trusted' PROVE HasUpdate /\ Exact
    BY <1>1, <2>0 DEF Sound
  <2>1. CASE Trusted BY <2>1 DEF IInv, Sound
  <2>2. CASE ~Trusted
    <3>1. place = "query" BY <1>1, <2>2 DEF Trusted, IInv, TypeOK
    <3>2. Stored = {} BY <2>2, <3>1 DEF Trusted
    <3>3. phase[s] = "messages" BY <2>2, <3>1, <3>2
    <3>4. HasUpdate BY <3>3 DEF IInv, TypeOK, Installed, PastEnsure, Statements, HasUpdate
    <3> QED BY <2>2, <3>2, <3>4 DEF Trusted, Exact
  <2> QED BY <2>1, <2>2
<1> QED BY <1>2, <1>3, <1>4, <1>5, <1>6 DEF IInv

(* One statement of Ensure.                                                *)
LEMMA EnsureInv == ASSUME IInv, NEW s \in Search, Ensure(s) PROVE IInv'
<1> USE DEF Statements
<1>1. /\ UNCHANGED <<messages, index, rebuilt, needle, answer, due, premature, Stored>>
      /\ executed[s] \in 0..3 /\ installed \in 0..4 /\ phase[s] = "ensure"
      /\ executed' = [executed EXCEPT ![s] = executed[s] + 1]
      /\ executed'[s] = executed[s] + 1
      /\ installed' = IF installed < executed[s] + 1 THEN executed[s] + 1 ELSE installed
      /\ phase' = [phase EXCEPT ![s] = IF executed[s] + 1 = 4 THEN "index" ELSE "ensure"]
  BY DEF IInv, TypeOK, Installed, Ensure, Stored
<1>2. installed' \in 0..4 /\ installed' >= installed /\ executed[s] + 1 \in 0..4
      /\ executed[s] + 1 <= installed'
  BY <1>1
<1>3. TypeOK' BY <1>1, <1>2 DEF IInv, TypeOK
<1>4. Lean' /\ ExactOnceRebuilt' BY <1>1 DEF IInv, Lean, ExactOnceRebuilt
<1>5. Installed'
  <2>1. \A u \in Search \ {s} : phase'[u] = phase[u] /\ executed'[u] = executed[u] /\ executed[u] \in 0..4
    BY <1>1 DEF IInv, TypeOK
  <2>2. phase'[s] = IF executed[s] + 1 = 4 THEN "index" ELSE "ensure" BY <1>1 DEF IInv, TypeOK
  <2>3. rebuilt => installed' = 4 BY <1>1 DEF IInv, Installed
  <2> QED BY <1>1, <1>2, <2>1, <2>2, <2>3 DEF IInv, Installed, PastEnsure
<1>6. Answered' BY <1>1 DEF IInv, Answered
<1>7. Trusted' => Trusted BY <1>1 DEF Trusted, IInv, TypeOK
<1>8. HasUpdate => HasUpdate' BY <1>1, <1>2 DEF HasUpdate
<1>9. Sound' BY <1>1, <1>7, <1>8 DEF IInv, Sound, Exact
<1> QED BY <1>3, <1>4, <1>5, <1>6, <1>9 DEF IInv

(* The rebuild makes the index exact.                                      *)
LEMMA RebuildInv == ASSUME IInv, NEW s \in Search, Rebuild(s) PROVE IInv'
<1>1. UNCHANGED <<messages, installed, executed, needle, answer, due, premature, Stored>>
  BY DEF Rebuild, Stored
<1>2. Exact' BY <1>1 DEF Rebuild, Exact
<1>3. installed = Statements BY DEF IInv, Installed, Rebuild, PastEnsure, TypeOK, Statements
<1>4. \A m \in Stored : messages[m] \in Text BY DEF IInv, TypeOK
<1>5. index' \in [Message -> Seq(Text)] BY <1>4 DEF Rebuild
<1>6. TypeOK' BY <1>1, <1>5 DEF IInv, TypeOK, Rebuild
<1>7. Lean' BY <1>1, <1>2, <1>4 DEF Exact, Lean
<1>8. Installed' BY <1>1, <1>3 DEF IInv, TypeOK, Installed, Rebuild, PastEnsure
<1>9. HasUpdate' BY <1>1, <1>3 DEF HasUpdate, Statements
<1>10. Sound' BY <1>2, <1>9 DEF Sound
<1>11. ExactOnceRebuilt' BY <1>2 DEF ExactOnceRebuilt, Exact
<1>12. Answered' BY <1>1 DEF IInv, Answered
<1> QED BY <1>6, <1>7, <1>8, <1>10, <1>11, <1>12 DEF IInv

(* The rows a query can return.                                            *)
LEMMA QueryRows ==
  ASSUME IInv, NEW s \in Search, Query(s)
  PROVE  \A r \in answer'[s] : r \in Message \X Nat /\ r[2] = 1
<1>1. \A m \in Stored : \A i \in DOMAIN index[m] : m \in Message /\ i = 1
  BY OneRow DEF IInv, TypeOK, Lean
<1>2. answer'[s] \subseteq UNION {{<<m, i>> : i \in DOMAIN index[m]} : m \in Stored}
  <2> DEFINE rows == UNION {{<<m, i>> : i \in DOMAIN index[m]} : m \in Stored}
             n == needle[s]
             matches == {r \in rows : index[r[1]][r[2]] \in Phrase[n]}
  <2>1. answer'[s] = {r \in Newest(matches, Limit) : messages[r[1]] \in Literal[n]}
    BY DEF Query, IInv, TypeOK
  <2>2. Newest(matches, Limit) \subseteq rows BY DEF Newest
  <2> QED BY <2>1, <2>2
<1> QED BY <1>1, <1>2

(* Exact, an index answers a query as the messages table would.            *)
LEMMA QueryExact ==
  ASSUME IInv, NEW s \in Search, Query(s), Exact, Phrase = Literal
  PROVE  {r[1] : r \in answer'[s]} = due'[s]
<1> DEFINE n == needle[s]
           rows == UNION {{<<m, i>> : i \in DOMAIN index[m]} : m \in Stored}
           matches == {r \in rows : index[r[1]][r[2]] \in Phrase[n]}
           all == {<<m, 1>> : m \in {x \in Stored : messages[x] \in Literal[n]}}
<1>1. /\ answer'[s] = {r \in Newest(matches, Limit) : messages[r[1]] \in Literal[n]}
      /\ due'[s] = {r[1] : r \in Newest(all, Limit)}
  BY DEF Query, IInv, TypeOK
<1>2. \A m \in Stored : m \in Message /\ messages[m] \in Text /\ index[m] = <<messages[m]>>
  BY DEF Exact, IInv, TypeOK
<1>3. \A m \in Stored : DOMAIN index[m] = {1} /\ index[m][1] = messages[m] BY <1>2, OneRow
<1>4. rows = {<<m, 1>> : m \in Stored} BY <1>3
<1>5. matches = all
  <2>1. \A m \in Stored : index[<<m, 1>>[1]][<<m, 1>>[2]] = messages[m] BY <1>3
  <2> QED BY <1>4, <2>1
<1>6. \A r \in Newest(all, Limit) : messages[r[1]] \in Literal[n] BY DEF Newest
<1> HIDE DEF all, matches
<1>7. answer'[s] = Newest(all, Limit) BY <1>1, <1>5, <1>6
<1> QED BY <1>1, <1>7

(* Every step preserves IInv.                                              *)
LEMMA NextInv == ASSUME IInv, [Next]_vars PROVE IInv'
<1>1. CASE UNCHANGED vars
  BY <1>1 DEF vars, store, request, IInv, TypeOK, Lean, Installed, Sound, Trusted, Exact, Answered,
     ExactOnceRebuilt, Stored, HasUpdate
<1>2. ASSUME NEW m \in Message, NEW t \in Text, Insert(m, t) \/ Update(m, t) PROVE IInv'
  BY <1>2, WriteInv
<1>3. ASSUME NEW s \in Search, NEW n \in Needle, Begin(s, n) PROVE IInv'
  <2>1. /\ needle' \in [Search -> Needle] /\ due' \in [Search -> SUBSET Message]
        /\ answer' \in [Search -> SUBSET (Message \X Nat)] /\ executed'[s] = 0
    BY <1>3 DEF Begin, IInv, TypeOK
  <2>2. \A u \in Search : answer'[u] = answer[u] \/ \A r \in answer'[u] : r[2] = 1
    BY <1>3 DEF Begin, IInv, TypeOK
  <2> QED BY <1>3, <2>1, <2>2, QuietInv DEF Begin, PastEnsure
<1>4. ASSUME NEW s \in Search, Ensure(s) PROVE IInv' BY <1>4, EnsureInv
<1>5. ASSUME NEW s \in Search, LookAtIndex(s) PROVE IInv'
  <2>1. CASE \E m \in Message : index[m] # <<>>
    BY <1>5, <2>1, QuietInv DEF LookAtIndex, IInv, TypeOK, PastEnsure, Trusted
  <2>2. CASE ~\E m \in Message : index[m] # <<>>
    BY <1>5, <2>2, QuietInv DEF LookAtIndex, IInv, TypeOK, PastEnsure
  <2> QED BY <2>1, <2>2
<1>6. ASSUME NEW s \in Search, LookAtMessages(s) PROVE IInv'
  <2>1. CASE Stored = {} BY <1>6, <2>1, QuietInv DEF LookAtMessages, IInv, TypeOK, PastEnsure
  <2>2. CASE Stored # {} BY <1>6, <2>2, QuietInv DEF LookAtMessages, IInv, TypeOK, PastEnsure
  <2> QED BY <2>1, <2>2
<1>7. ASSUME NEW s \in Search, Rebuild(s) PROVE IInv' BY <1>7, RebuildInv
<1>8. ASSUME NEW s \in Search, Query(s) PROVE IInv'
  <2>1. \A r \in answer'[s] : r \in Message \X Nat /\ r[2] = 1 BY <1>8, QueryRows
  <2>2. \A u \in Search : answer'[u] = answer[u] \/ \A r \in answer'[u] : r[2] = 1
    BY <1>8, <2>1 DEF Query, IInv, TypeOK
  <2>3. answer' \in [Search -> SUBSET (Message \X Nat)]
    BY <1>8, <2>1 DEF Query, IInv, TypeOK
  <2>4. due' \in [Search -> SUBSET Message]
    <3> DEFINE all == {<<m, 1>> : m \in {x \in Stored : messages[x] \in Literal[needle[s]]}}
    <3>1. due' = [due EXCEPT ![s] = {r[1] : r \in Newest(all, Limit)}] BY <1>8 DEF Query
    <3>2. \A r \in all : r[1] \in Message BY DEF IInv, TypeOK
    <3>3. Newest(all, Limit) \subseteq all BY DEF Newest
    <3> HIDE DEF all
    <3>4. {r[1] : r \in Newest(all, Limit)} \subseteq Message BY <3>2, <3>3
    <3> QED BY <3>1, <3>4 DEF IInv, TypeOK
  <2>5. UNCHANGED <<store, executed, needle, premature>> /\ phase' = [phase EXCEPT ![s] = "done"]
    BY <1>8 DEF Query
  <2> QED BY <2>2, <2>3, <2>4, <2>5, QuietInv DEF IInv, TypeOK, PastEnsure
<1>9. ASSUME NEW s \in Search, Abort(s) PROVE IInv'
  BY <1>9, QuietInv DEF Abort, IInv, TypeOK, PastEnsure
<1> QED BY <1>1, <1>2, <1>3, <1>4, <1>5, <1>6, <1>7, <1>8, <1>9 DEF Next

(* IInv holds in every reachable state. *)
THEOREM Invariance == Spec => []IInv
<1>1. IInv /\ [Next]_vars => IInv' BY NextInv
<1> QED BY <1>1, InitInv, PTL DEF Spec

(* TypeOK, for any number of messages, texts and searches. *)
THEOREM TypeCorrect == Spec => []TypeOK
<1>1. IInv => TypeOK BY DEF IInv
<1> QED BY <1>1, Invariance, PTL

(* NoDoubleHit: no search shows a message twice, though any number of       *)
(* searches rebuild the index while jobs write.                            *)
THEOREM HitsAreSingle == Spec => []NoDoubleHit
<1>1. ASSUME IInv PROVE NoDoubleHit
  <2>1. \A s \in Search : \A r \in answer[s] : r \in Message \X Nat /\ r[2] = 1
    BY <1>1 DEF IInv, TypeOK, Answered
  <2>2. \A r, q \in Message \X Nat : r[1] = q[1] /\ r[2] = q[2] => r = q OBVIOUS
  <2> QED BY <2>1, <2>2 DEF NoDoubleHit
<1> QED BY <1>1, Invariance, PTL

(* ExactOnceRebuilt: from the first rebuild on the index is the messages    *)
(* table, row for row.                                                     *)
THEOREM ExactAfterRebuild == Spec => []ExactOnceRebuilt
<1>1. IInv => ExactOnceRebuilt BY DEF IInv
<1> QED BY <1>1, Invariance, PTL

(* A finished search has its answer, unless a write found the index half    *)
(* built.                                                                  *)
FoundInv == IInv /\ SearchFindsAll

(* Every step preserves it, where MATCH finds a needle wherever it occurs. *)
LEMMA NextFound == ASSUME Phrase = Literal, FoundInv, [Next]_vars PROVE FoundInv'
<1>1. IInv /\ IInv' BY NextInv DEF FoundInv
<1> SUFFICES ASSUME ~premature', NEW s \in Search, phase'[s] = "done"
             PROVE  {r[1] : r \in answer'[s]} = due'[s]
  BY <1>1 DEF FoundInv, SearchFindsAll
<1>2. ~premature
  BY DEF Next, vars, Insert, Update, Begin, Ensure, LookAtIndex, LookAtMessages, Rebuild, Query, Abort
<1>3. CASE Query(s)
  <2>1. Trusted /\ Exact BY <1>1, <1>2, <1>3 DEF Query, Trusted, IInv, Sound
  <2> QED BY <1>1, <1>3, <2>1, QueryExact
<1>4. CASE ~Query(s)
  <2>1. UNCHANGED <<answer[s], due[s]>> /\ phase[s] = "done"
    <3>0. phase \in [Search -> {"idle", "ensure", "index", "messages", "rebuild", "query", "done"}]
          /\ answer \in [Search -> SUBSET (Message \X Nat)] /\ due \in [Search -> SUBSET Message]
      BY <1>1 DEF IInv, TypeOK
    <3>1. CASE UNCHANGED request BY <3>1 DEF request
    <3>2. ASSUME NEW u \in Search, NEW n \in Needle, Begin(u, n)
          PROVE  UNCHANGED <<answer[s], due[s]>> /\ phase[s] = "done"
      BY <3>0, <3>2 DEF Begin
    <3>3. ASSUME NEW u \in Search,
                 Ensure(u) \/ LookAtIndex(u) \/ LookAtMessages(u) \/ Rebuild(u) \/ Abort(u)
          PROVE  UNCHANGED <<answer[s], due[s]>> /\ phase[s] = "done"
      BY <3>0, <3>3 DEF Ensure, LookAtIndex, LookAtMessages, Rebuild, Abort
    <3>4. ASSUME NEW u \in Search, Query(u)
          PROVE  UNCHANGED <<answer[s], due[s]>> /\ phase[s] = "done"
      <4>1. u # s BY <1>4, <3>4
      <4>2. /\ answer'[s] = answer[s] /\ due'[s] = due[s] /\ phase'[s] = phase[s]
        BY <3>0, <3>4, <4>1 DEF Query
      <4> QED BY <4>2
    <3> QED BY <3>1, <3>2, <3>3, <3>4 DEF Next, vars, Insert, Update
  <2> QED BY <1>2, <2>1 DEF FoundInv, SearchFindsAll
<1> QED BY <1>3, <1>4

(* SearchFindsAll: a search returns the newest of the messages that contain *)
(* its needle, provided MATCH finds a needle wherever it occurs.           *)
THEOREM SearchIsComplete == ASSUME Phrase = Literal PROVE Spec => []SearchFindsAll
<1>1. Init => FoundInv BY InitInv DEF FoundInv, Init, SearchFindsAll
<1>2. FoundInv /\ [Next]_vars => FoundInv' BY NextFound
<1>3. FoundInv => SearchFindsAll BY DEF FoundInv
<1> QED BY <1>1, <1>2, <1>3, PTL DEF Spec
=============================================================================
