---------------------------- MODULE IngestProofs ----------------------------
(***************************************************************************)
(* Proofs about Ingest, for any number of messages, talkers and media.      *)
(*                                                                         *)
(* First, for any number of jobs at work on one account at the same time:   *)
(* the cursors are what the stored messages say.  SummariesMatch is not     *)
(* inductive: a job computes a talker's cursor from the cursor it read     *)
(* when it began, which other jobs have moved since.  IInv says what such  *)
(* an old cursor still is: no later, and no more, than what is stored.      *)
(*                                                                         *)
(* Then, when the jobs of the account do not overlap, for any history of    *)
(* arrivals, clearings, failures and kills: NothingLost and MediaServed,    *)
(* neither of them inductive.  The first rests on what the messages a job   *)
(* may still have to store, those on the phone and in its package, have to  *)
(* do with the cursors; the second on what each step of a file's writing    *)
(* leaves.                                                                 *)
(***************************************************************************)
EXTENDS Ingest, FiniteSetTheorems, WellFoundedInduction, TLAPS

(* An old cursor, measured against the messages stored for its talker. *)
Behind(c, mine) ==
  /\ c.total <= Cardinality(mine)
  /\ c.segment \in {NoMessage} \cup mine
  /\ c.end = 0 \/ \E m \in mine : c.end <= TimeOf[m]

OldCursors ==
  \A t \in Talker : /\ Behind(cursor[t], Of(t, stored))
                    /\ \A w \in Worker : Behind(resume[w][t], Of(t, stored))

Offered == \A w \in Worker : package[w].messages \subseteq arrived

IInv == TypeOK /\ Offered /\ OldCursors /\ SummariesMatch

-----------------------------------------------------------------------------
(* The messages of a talker are finitely many, and counted monotonically.  *)
LEMMA OfCounts ==
  ASSUME NEW t, NEW S \in SUBSET Message
  PROVE  /\ Of(t, S) \subseteq S /\ IsFiniteSet(Of(t, S))
         /\ Cardinality(Of(t, S)) \in 0..Cardinality(Message)
         /\ \A T \in SUBSET S : Cardinality(Of(t, T)) <= Cardinality(Of(t, S))
         /\ \A T \in SUBSET S : Of(t, T) \subseteq Of(t, S)
<1>1. Of(t, S) \subseteq S /\ \A T \in SUBSET S : Of(t, T) \subseteq Of(t, S) BY DEF Of
<1>2. IsFiniteSet(Message) /\ Of(t, S) \in SUBSET Message BY <1>1, ConstantsOK
<1>3. IsFiniteSet(Of(t, S)) /\ Cardinality(Of(t, S)) <= Cardinality(Message)
  BY <1>2, FS_Subset
<1>4. Cardinality(Of(t, S)) \in Nat /\ Cardinality(Message) \in Nat
  BY <1>2, <1>3, FS_CardinalityType
<1>5. \A T \in SUBSET S : Cardinality(Of(t, T)) <= Cardinality(Of(t, S)) BY <1>1, <1>3, FS_Subset
<1> QED BY <1>1, <1>3, <1>4, <1>5

(* Newer is a strict total order.                                          *)
LEMMA NewerOrder ==
  ASSUME NEW l \in Message, NEW m \in Message, NEW n \in Message
  PROVE  /\ ~Newer(m, m) /\ (Newer(m, n) => TimeOf[m] >= TimeOf[n])
         /\ m = n \/ Newer(m, n) \/ Newer(n, m)
         /\ Newer(l, m) /\ Newer(m, n) => Newer(l, n)
<1>1. /\ TimeOf[l] \in Nat /\ TimeOf[m] \in Nat /\ TimeOf[n] \in Nat
      /\ l \in Nat /\ m \in Nat /\ n \in Nat
  BY ConstantsOK
<1> QED BY <1>1 DEF Newer

(* There is a newest message: one whose set of newer ones is smallest.      *)
LEMMA LatestExists ==
  ASSUME NEW S \in SUBSET Message, S # {}
  PROVE  /\ Latest(S) \in S /\ Latest(S) # NoMessage
         /\ \A n \in S : TimeOf[n] <= TimeOf[Latest(S)]
<1> DEFINE After(m) == {n \in S : Newer(n, m)}
           Family == {After(m) : m \in S}
<1>1. IsFiniteSet(S) BY ConstantsOK, FS_Subset
<1>2. Family \subseteq FiniteSubsetsOf(S) /\ Family # {}
  <2>1. \A m \in S : After(m) \in SUBSET S /\ IsFiniteSet(After(m)) BY <1>1, FS_Subset
  <2> QED BY <2>1 DEF FiniteSubsetsOf
<1>3. PICK X \in Family : \A Y \in Family : <<Y, X>> \notin StrictSubsetOrdering(S)
  BY <1>2, FS_StrictSubsetOrderingWellFounded, WFMin
<1>4. PICK m \in S : X = After(m) OBVIOUS
<1>5. After(m) = {}
  <2> SUFFICES ASSUME NEW n \in After(m) PROVE FALSE OBVIOUS
  <2>1. n \in S /\ Newer(n, m) OBVIOUS
  <2>2. \A x \in S : Newer(x, n) => Newer(x, m) BY <2>1, NewerOrder
  <2>3. ~Newer(n, n) BY <2>1, NewerOrder
  <2>4. After(n) \subseteq After(m) /\ After(n) # After(m) BY <2>1, <2>2, <2>3
  <2>5. After(n) \in Family /\ After(n) \in SUBSET S /\ After(m) \in SUBSET S BY <2>1
  <2> QED BY <1>3, <1>4, <2>4, <2>5 DEF StrictSubsetOrdering
<1>6. \A n \in S \ {m} : Newer(m, n)
  <2> SUFFICES ASSUME NEW n \in S, n # m PROVE Newer(m, n) OBVIOUS
  <2>1. ~Newer(n, m) BY <1>5
  <2> QED BY <2>1, NewerOrder
<1>7. Latest(S) \in S /\ \A n \in S \ {Latest(S)} : Newer(Latest(S), n) BY <1>6 DEF Latest
<1>8. \A n \in S : TimeOf[n] <= TimeOf[Latest(S)]
  <2> SUFFICES ASSUME NEW n \in S PROVE TimeOf[n] <= TimeOf[Latest(S)] OBVIOUS
  <2>1. CASE n = Latest(S) BY <2>1, ConstantsOK
  <2>2. CASE n # Latest(S)
    <3>1. TimeOf[Latest(S)] >= TimeOf[n] BY <1>7, <2>2, NewerOrder
    <3>2. TimeOf[Latest(S)] \in Nat /\ TimeOf[n] \in Nat BY <1>7, ConstantsOK
    <3> QED BY <3>1, <3>2
  <2> QED BY <2>1, <2>2
<1>9. Latest(S) # NoMessage BY <1>7, ConstantsOK DEF NoMessage
<1> QED BY <1>7, <1>8, <1>9

(* What is stored stays stored, so an old cursor stays behind.             *)
LEMMA BehindGrows ==
  ASSUME NEW S, NEW T \in SUBSET Message, S \subseteq T, NEW t \in Talker,
         NEW c \in Cursors, Behind(c, Of(t, S))
  PROVE  Behind(c, Of(t, T))
<1>1. Of(t, S) \subseteq Of(t, T) BY OfCounts
<1>2. /\ Cardinality(Of(t, S)) <= Cardinality(Of(t, T))
      /\ Cardinality(Of(t, S)) \in Nat /\ Cardinality(Of(t, T)) \in Nat
  BY OfCounts
<1>3. c.total \in Nat BY DEF Cursors
<1> QED BY <1>1, <1>2, <1>3 DEF Behind

(* A cursor of nothing is behind everything.                               *)
LEMMA ZeroBehind == Zero \in Cursors /\ \A t, S : S \subseteq Message => Behind(Zero, Of(t, S))
<1>1. 0 \in 0..Cardinality(Message) BY ConstantsOK, FS_CardinalityType
<1>2. Zero \in Cursors BY <1>1 DEF Zero, Cursors
<1>3. ASSUME NEW t, NEW S, S \subseteq Message PROVE Behind(Zero, Of(t, S))
  <2>1. Cardinality(Of(t, S)) \in 0..Cardinality(Message) /\ Cardinality(Message) \in Nat
    BY <1>3, OfCounts, ConstantsOK, FS_CardinalityType
  <2> QED BY <2>1 DEF Behind, Zero
<1> QED BY <1>2, <1>3

(* A step that commits nothing.                                            *)
LEMMA QuietInv ==
  ASSUME IInv, TypeOK', UNCHANGED canon, Offered',
         \A w \in Worker : \/ resume'[w] = resume[w] \/ resume'[w] = cursor
                           \/ resume'[w] = [t \in Talker |-> Zero]
  PROVE  IInv'
<1>1. UNCHANGED <<stored, known, count, cursor>> BY DEF canon
<1>2. stored \subseteq Message BY DEF IInv, TypeOK
<1>3. \A w \in Worker, t \in Talker : resume'[w][t] \in {resume[w][t], cursor[t], Zero} OBVIOUS
<1>4. \A w \in Worker, t \in Talker : Behind(resume'[w][t], Of(t, stored))
  BY <1>2, <1>3, ZeroBehind DEF IInv, OldCursors
<1>6. OldCursors' BY <1>1, <1>4 DEF IInv, OldCursors
<1>7. SummariesMatch' BY <1>1 DEF IInv, SummariesMatch
<1> QED BY <1>6, <1>7 DEF IInv

(* Init: an empty phone and an empty store.                                *)
LEMMA InitInv == Init => IInv
<1> SUFFICES ASSUME Init PROVE IInv OBVIOUS
<1> USE DEF Init
<1>1. 0 \in 0..Cardinality(Message) /\ Zero \in Cursors /\ \A t \in Talker : Behind(Zero, Of(t, stored))
  BY ZeroBehind, ConstantsOK, FS_CardinalityType
<1>2. Nothing \in Holdings /\ NoPackage \in Packages /\ NoPackage.messages = {}
  BY DEF Nothing, NoPackage, Holdings, Packages
<1>3. TypeOK BY <1>1, <1>2 DEF TypeOK, Modes, Phases
<1>4. Offered BY <1>2 DEF Offered
<1>5. OldCursors BY <1>1 DEF OldCursors
<1>6. \A t \in Talker : Of(t, stored) = {} /\ Cardinality(Of(t, stored)) = 0 BY FS_EmptySet DEF Of
<1>7. SummariesMatch BY <1>6 DEF SummariesMatch, Zero, Latest
<1> QED BY <1>3, <1>4, <1>5, <1>7 DEF IInv

(* The phone changes.                                                      *)
LEMMA PhoneInv ==
  ASSUME IInv, (\E m \in Message : Arrive(m) \/ Clear(m)) \/ (\E x \in Media : Gallery(x))
  PROVE  IInv'
<1>1. /\ UNCHANGED <<canon, media, job>> /\ phone' \subseteq arrived' /\ late' \subseteq arrived'
      /\ arrived \subseteq arrived' /\ arrived' \subseteq Message
      /\ gallery' \in [Media -> {"absent", "listed", "blob"}]
  BY DEF IInv, TypeOK, Arrive, Clear, Gallery
<1>2. TypeOK' BY <1>1 DEF IInv, TypeOK, canon, media, job
<1>3. Offered' BY <1>1 DEF IInv, Offered, job
<1> QED BY <1>1, <1>2, <1>3, QuietInv DEF job

(* A package is taken.                                                     *)
LEMMA FilterTypes ==
  ASSUME NEW md \in Modes, NEW S \in SUBSET Message
  PROVE  Filter(md, S).messages \subseteq S /\ Filter(md, S).talkers \subseteq Talker
BY DEF Filter

LEMMA TakeInv == ASSUME IInv, NEW w \in Worker, NEW md \in Modes, Take(w, md) PROVE IInv'
<1> DEFINE h == [messages |-> phone, media |-> gallery]
           p == [messages |-> Filter(md, phone).messages, talkers |-> Filter(md, phone).talkers,
                 media |-> gallery]
<1>1. phone \in SUBSET Message /\ gallery \in [Media -> {"absent", "listed", "blob"}] BY DEF IInv, TypeOK
<1>2. Filter(md, phone).messages \subseteq phone /\ Filter(md, phone).talkers \subseteq Talker
  BY <1>1, FilterTypes
<1>3. h \in Holdings BY <1>1 DEF Holdings
<1>4. p \in Packages /\ p.messages \subseteq phone BY <1>1, <1>2 DEF Packages
<1>5. /\ offered' = [offered EXCEPT ![w] = h] /\ package' = [package EXCEPT ![w] = p]
      /\ phase' = [phase EXCEPT ![w] = "taken"] /\ mode' = [mode EXCEPT ![w] = md]
      /\ UNCHANGED <<device, canon, media, resume, todo>>
  BY DEF Take
<1> HIDE DEF h, p
<1>6. TypeOK' BY <1>3, <1>4, <1>5 DEF IInv, TypeOK, Phases, device, canon, media
<1>7. Offered' BY <1>4, <1>5 DEF IInv, TypeOK, Offered, device
<1> QED BY <1>5, <1>6, <1>7, QuietInv

(* The package is written, over another job's perhaps.                     *)
LEMMA MaterializeInv == ASSUME IInv, NEW w \in Worker, Materialize(w) PROVE IInv'
<1> DEFINE all == [messages |-> phone, talkers |-> Talker, media |-> gallery]
<1>1. all \in Packages /\ all.messages = phone BY DEF IInv, TypeOK, Packages
<1>2. /\ phase' = [phase EXCEPT ![w] = "written"]
      /\ UNCHANGED <<device, canon, media, mode, offered, resume, todo>>
      /\ \A v \in Worker : package'[v] \in {package[w], package[v], all}
      /\ package' \in [Worker -> Packages]
  <2>1. CASE package' = [v \in Worker |-> IF phase[v] = "written" THEN package[w] ELSE package[v]]
    BY <2>1 DEF Materialize, IInv, TypeOK
  <2>2. CASE \E root \in {package[w], all} : package' = [package EXCEPT ![w] = root]
    BY <1>1, <2>2 DEF Materialize, IInv, TypeOK
  <2> QED BY <2>1, <2>2 DEF Materialize
<1> HIDE DEF all
<1>3. TypeOK' BY <1>2 DEF IInv, TypeOK, Phases, device, canon, media
<1>4. Offered' BY <1>1, <1>2 DEF IInv, TypeOK, Offered, device
<1> QED BY <1>2, <1>3, <1>4, QuietInv

(* The cursors are read; the talkers and the media are listed.             *)
LEMMA LoadInv == ASSUME IInv, NEW w \in Worker, Load(w) PROVE IInv'
<1>1. /\ resume' = [resume EXCEPT ![w] = cursor] /\ todo' = [todo EXCEPT ![w] = package[w].talkers]
      /\ phase' = [phase EXCEPT ![w] = "talkers"]
      /\ UNCHANGED <<device, canon, media, mode, offered, package>>
  BY DEF Load
<1>2. package[w].talkers \subseteq Talker BY DEF IInv, TypeOK, Packages
<1>3. TypeOK' BY <1>1, <1>2 DEF IInv, TypeOK, Phases, device, canon, media
<1>4. Offered' BY <1>1 DEF IInv, Offered, device
<1>5. \A v \in Worker : resume'[v] \in {resume[v], cursor} BY <1>1 DEF IInv, TypeOK
<1> QED BY <1>1, <1>3, <1>4, <1>5, QuietInv

LEMMA TalkersDoneInv == ASSUME IInv, NEW w \in Worker, TalkersDone(w) PROVE IInv'
<1> DEFINE listed == {x \in Media : package[w].media[x] # "absent"}
<1>1. /\ todo' = [todo EXCEPT ![w] = listed] /\ phase' = [phase EXCEPT ![w] = "media"]
      /\ UNCHANGED <<device, canon, media, mode, offered, package, resume>> /\ listed \in SUBSET Media
  BY DEF TalkersDone
<1> HIDE DEF listed
<1>2. TypeOK'
  <2>1. todo' \in [Worker -> (SUBSET Talker) \cup (SUBSET Media)] BY <1>1 DEF IInv, TypeOK
  <2>2. phase' \in [Worker -> Phases]
    BY <1>1 DEF IInv, TypeOK, Phases
  <2> QED BY <1>1, <2>1, <2>2 DEF IInv, TypeOK, device, canon, media
<1>3. Offered' BY DEF IInv, Offered, TalkersDone, device
<1> QED BY <1>2, <1>3, QuietInv DEF TalkersDone

(* The files and rows of the media.                                        *)
LEMMA MediaInv ==
  ASSUME IInv, NEW w \in Worker, NEW x \in Media, TruncateFile(w, x) \/ WriteFile(w, x) \/ PutMedia(w, x)
  PROVE  IInv'
<1> USE DEF TruncateFile, WriteFile, PutMedia
<1>1. /\ UNCHANGED <<device, canon, mode, offered, package, resume>>
      /\ phase' \in [Worker -> Phases]
      /\ files' \in [Media -> {"none", "partial", "whole"}]
  BY DEF IInv, TypeOK, Phases
<1>2. mediaRow' \in [Media -> {"none", "unavailable", "available"}]
  <2>1. CASE PutMedia(w, x)
    <3>1. (IF package[w].media[x] = "blob" THEN "available" ELSE "unavailable") \in {"none", "unavailable", "available"}
      OBVIOUS
    <3> QED BY <2>1, <3>1 DEF IInv, TypeOK
  <2>2. CASE TruncateFile(w, x) \/ WriteFile(w, x) BY <2>2 DEF IInv, TypeOK
  <2> QED BY <2>1, <2>2
<1>3. todo' \in [Worker -> (SUBSET Talker) \cup (SUBSET Media)]
  <2>1. todo \in [Worker -> (SUBSET Talker) \cup (SUBSET Media)] BY DEF IInv, TypeOK
  <2>2. todo[w] \ {x} \in (SUBSET Talker) \cup (SUBSET Media) BY <2>1
  <2>3. todo' = todo \/ todo' = [todo EXCEPT ![w] = todo[w] \ {x}] OBVIOUS
  <2> QED BY <2>1, <2>2, <2>3
<1>4. TypeOK' BY <1>1, <1>2, <1>3 DEF IInv, TypeOK, device, canon
<1>5. Offered' BY <1>1 DEF IInv, Offered, device
<1> QED BY <1>1, <1>4, <1>5, QuietInv

(* A job ends, one way or another.                                         *)
LEMMA GoneInv ==
  ASSUME IInv, NEW ws \in SUBSET Worker, Gone(ws),
         phase' \in [Worker -> Phases],
         mode' \in [Worker -> Modes], offered' \in [Worker -> Holdings]
  PROVE  IInv'
<1>1. NoPackage \in Packages /\ NoPackage.messages = {} BY DEF NoPackage, Packages, Nothing
<1>2. Zero \in Cursors BY ZeroBehind
<1>3. TypeOK' BY <1>1, <1>2 DEF IInv, TypeOK, Gone, device, canon, media
<1>4. Offered' BY <1>1 DEF IInv, Offered, Gone, device
<1>5. \A w \in Worker : resume'[w] \in {resume[w], [t \in Talker |-> Zero]} BY DEF Gone
<1> QED BY <1>3, <1>4, <1>5, QuietInv DEF Gone

LEMMA EndInv ==
  ASSUME IInv, (\E w \in Worker : Complete(w) \/ Abandon(w)) \/ Crash
  PROVE  IInv'
<1>1. ASSUME NEW w \in Worker, Complete(w) PROVE IInv'
  BY <1>1, GoneInv DEF Complete, IInv, TypeOK, Phases
<1>2. ASSUME NEW ws \in SUBSET Worker, Forgotten(ws) PROVE IInv'
  <2>1. Nothing \in Holdings /\ "full" \in Modes BY DEF Nothing, Holdings, Modes
  <2> QED BY <1>2, <2>1, GoneInv DEF Forgotten, IInv, TypeOK, Phases
<1> QED BY <1>1, <1>2 DEF Abandon, Crash

(* One talker is committed, from an old cursor.                            *)
LEMMA IngestTalkerInv ==
  ASSUME IInv, NEW w \in Worker, NEW t \in Talker, IngestTalker(w, t)
  PROVE  IInv'
<1> DEFINE now  == stored \cup {m \in Of(t, package[w].messages) : m \in stored \/ ~Skip(w, m)}
           n    == Cardinality(Of(t, now))
           last == Latest(Of(t, now))
           was  == resume[w][t]
           end  == IF last = NoMessage THEN was.end ELSE Later(TimeOf[last], was.end)
           new  == [end |-> end, segment |-> IF last = NoMessage THEN was.segment ELSE last,
                    received |-> n, total |-> Later(n, was.total)]
<1>1. /\ stored' = now /\ known' = known \cup {t} /\ count' = [count EXCEPT ![t] = n]
      /\ cursor' = [cursor EXCEPT ![t] = new] /\ todo' = [todo EXCEPT ![w] = todo[w] \ {t}]
      /\ UNCHANGED <<device, media, phase, mode, offered, package, resume>>
  BY DEF IngestTalker, Counted
<1>2. stored \subseteq now /\ now \subseteq arrived /\ arrived \subseteq Message
  BY DEF Of, IInv, TypeOK, Offered
<1>3. \A u \in Talker \ {t} : Of(u, now) = Of(u, stored) BY DEF Of
<1>4. was \in Cursors /\ Behind(was, Of(t, stored)) BY DEF IInv, TypeOK, OldCursors
<1>5. /\ Of(t, stored) \subseteq Of(t, now) /\ Of(t, now) \subseteq Message
      /\ n \in 0..Cardinality(Message) /\ Cardinality(Of(t, stored)) <= n
      /\ Cardinality(Of(t, stored)) \in Nat /\ n \in Nat
  <2> HIDE DEF now
  <2>1. now \in SUBSET Message /\ stored \in SUBSET now BY <1>2
  <2>2. Of(t, now) \subseteq now /\ n \in 0..Cardinality(Message) BY <2>1, OfCounts
  <2>3. Of(t, stored) \subseteq Of(t, now) /\ Cardinality(Of(t, stored)) <= n BY <2>1, OfCounts
  <2>4. Cardinality(Of(t, stored)) \in 0..Cardinality(Message) BY <2>1, OfCounts
  <2>5. Cardinality(Message) \in Nat BY ConstantsOK, FS_CardinalityType
  <2> QED BY <2>1, <2>2, <2>3, <2>4, <2>5
<1> HIDE DEF now
<1>6. Later(n, was.total) = n BY <1>4, <1>5 DEF Behind, Later, Cursors
<1>7. /\ last \in {NoMessage} \cup Of(t, now) /\ (last = NoMessage <=> Of(t, now) = {})
      /\ Of(t, now) # {} => \A m \in Of(t, now) : TimeOf[m] <= TimeOf[last]
  <2>1. CASE Of(t, now) = {} BY <2>1 DEF Latest
  <2>2. CASE Of(t, now) # {} BY <1>5, <2>2, LatestExists
  <2> QED BY <2>1, <2>2
<1> HIDE DEF last
<1>8. /\ Of(t, now) = {} => end = 0 /\ was.segment = NoMessage
      /\ Of(t, now) # {} => end = TimeOf[last]
  <2>1. CASE Of(t, now) = {} BY <1>4, <1>5, <1>7, <2>1 DEF Behind
  <2>2. CASE Of(t, now) # {}
    <3>1. last \in Message /\ TimeOf[last] \in Nat BY <1>5, <1>7, <2>2, ConstantsOK
    <3>2. was.end \in Nat BY <1>4, ConstantsOK DEF Cursors
    <3>3. was.end <= TimeOf[last]
      <4>1. CASE was.end = 0 BY <3>1, <4>1
      <4>2. CASE was.end # 0
        <5>1. PICK m \in Of(t, stored) : was.end <= TimeOf[m] BY <1>4, <4>2 DEF Behind
        <5>2. m \in Of(t, now) /\ TimeOf[m] \in Nat /\ TimeOf[m] <= TimeOf[last]
          BY <1>5, <1>7, <2>2, ConstantsOK
        <5> QED BY <3>1, <3>2, <5>1, <5>2
      <4> QED BY <4>1, <4>2
    <3>4. Later(TimeOf[last], was.end) = TimeOf[last] BY <3>1, <3>2, <3>3 DEF Later
    <3> QED BY <1>7, <2>2, <3>4
  <2> QED BY <2>1, <2>2
<1> HIDE DEF n
<1>9. new = [end |-> end, segment |-> last, received |-> n, total |-> n]
  BY <1>6, <1>7, <1>8
<1> HIDE DEF end
<1>10. new \in Cursors
  <2>1. end \in {0} \cup {TimeOf[m] : m \in Message} BY <1>5, <1>7, <1>8
  <2>2. last \in {NoMessage} \cup Message BY <1>5, <1>7
  <2> QED BY <1>5, <1>9, <2>1, <2>2 DEF Cursors
<1> HIDE DEF new
<1>11. TypeOK'
  <2>1. count' \in [Talker -> 0..Cardinality(Message)] /\ cursor' \in [Talker -> Cursors]
    BY <1>1, <1>5, <1>10 DEF IInv, TypeOK
  <2>2. todo' \in [Worker -> (SUBSET Talker) \cup (SUBSET Media)] BY <1>1 DEF IInv, TypeOK
  <2> QED BY <1>1, <1>2, <2>1, <2>2 DEF IInv, TypeOK, device, media
<1>12. Offered' BY <1>1 DEF IInv, Offered, device
<1>13. cursor'[t] = new /\ \A u \in Talker \ {t} : cursor'[u] = cursor[u] /\ count'[u] = count[u]
  BY <1>1 DEF IInv, TypeOK
<1>14. OldCursors'
  <2>1. \A u \in Talker, c \in Cursors : Behind(c, Of(u, stored)) => Behind(c, Of(u, now))
    BY <1>2, BehindGrows
  <2>2. Behind(new, Of(t, now))
    <3>1. new.total = n /\ new.segment = last /\ new.end = end BY <1>9
    <3>2. new.total <= Cardinality(Of(t, now)) BY <1>5, <3>1 DEF n
    <3>3. new.end = 0 \/ \E m \in Of(t, now) : new.end <= TimeOf[m]
      <4>1. CASE Of(t, now) = {} BY <1>8, <3>1, <4>1
      <4>2. CASE Of(t, now) # {}
        <5>1. last \in Of(t, now) /\ last \in Message BY <1>5, <1>7, <4>2
        <5>2. TimeOf[last] <= TimeOf[last] BY <5>1, ConstantsOK
        <5> QED BY <1>8, <3>1, <4>2, <5>1, <5>2
      <4> QED BY <4>1, <4>2
    <3>4. new.segment \in {NoMessage} \cup Of(t, now) BY <1>7, <3>1
    <3> QED BY <3>2, <3>3, <3>4 DEF Behind
  <2>3. \A u \in Talker : Behind(cursor'[u], Of(u, now))
    <3>1. \A u \in Talker \ {t} : cursor'[u] = cursor[u] /\ cursor[u] \in Cursors
      BY <1>13 DEF IInv, TypeOK
    <3> QED BY <1>13, <2>1, <2>2, <3>1 DEF IInv, OldCursors
  <2>4. \A u \in Talker, v \in Worker : Behind(resume[v][u], Of(u, now))
    <3>1. \A u \in Talker, v \in Worker : resume[v][u] \in Cursors BY DEF IInv, TypeOK
    <3> QED BY <2>1, <3>1 DEF IInv, OldCursors
  <2> QED BY <1>1, <2>3, <2>4 DEF OldCursors
<1>15. SummariesMatch'
  <2> SUFFICES ASSUME NEW u \in Talker
               PROVE  /\ count'[u] = Cardinality(Of(u, now))
                      /\ cursor'[u].received = Cardinality(Of(u, now))
                      /\ cursor'[u].total = Cardinality(Of(u, now))
                      /\ cursor'[u].segment = Latest(Of(u, now))
                      /\ Of(u, now) # {} => cursor'[u].end = TimeOf[Latest(Of(u, now))]
                      /\ u \notin known' => Of(u, now) = {}
    BY <1>1 DEF SummariesMatch
  <2>1. CASE u = t
    <3>1. count'[u] = n BY <1>1, <2>1 DEF IInv, TypeOK
    <3>2. cursor'[u] = [end |-> end, segment |-> last, received |-> n, total |-> n]
      BY <1>9, <1>13, <2>1
    <3> QED BY <1>1, <1>8, <2>1, <3>1, <3>2 DEF n, last
  <2>2. CASE u # t BY <1>1, <1>3, <1>13, <2>2 DEF IInv, SummariesMatch
  <2> QED BY <2>1, <2>2
<1> QED BY <1>11, <1>12, <1>14, <1>15 DEF IInv

(* Every step preserves IInv.                                              *)
LEMMA NextInv == ASSUME IInv, [Next]_vars PROVE IInv'
<1>1. CASE UNCHANGED vars
  BY <1>1 DEF vars, device, canon, media, job, IInv, TypeOK, Offered, OldCursors, Behind, SummariesMatch
<1>2. CASE Next
  BY <1>2, PhoneInv, TakeInv, MaterializeInv, LoadInv, IngestTalkerInv, TalkersDoneInv, MediaInv, EndInv
     DEF Next
<1> QED BY <1>1, <1>2

-----------------------------------------------------------------------------
(* IInv holds in every reachable state. *)
THEOREM Invariance == Spec => []IInv
<1>1. IInv /\ [Next]_vars => IInv' BY NextInv
<1> QED BY <1>1, InitInv, PTL DEF Spec

(* TypeOK, for any number of jobs, messages, talkers and media. *)
THEOREM TypeCorrect == Spec => []TypeOK
<1>1. IInv => TypeOK BY DEF IInv
<1> QED BY <1>1, Invariance, PTL

(* SummariesMatch: the count and the cursor of a talker describe what is    *)
(* stored for it, however many jobs overlap, fail or are killed.           *)
THEOREM SummariesAreExact == Spec => []SummariesMatch
<1>1. IInv => SummariesMatch BY DEF IInv
<1> QED BY <1>1, Invariance, PTL

-----------------------------------------------------------------------------
(* The service's condition: one job of the account at a time. *)
Serial == \A v, w \in Worker : v = w

(* The messages a job may still have to store. *)
Live == phone \cup UNION {package[w].messages : w \in Worker}

Older(m, n) == TalkerOf[m] = TalkerOf[n] /\ TimeOf[m] < TimeOf[n]

(* Messages are stored in the order of their times, but for the late ones. *)
InOrder == \A m \in Live \ late, n \in stored : Older(m, n) => m \in stored

(* A package leaves out only what is stored or came after it was taken.    *)
Takes ==
  \A w \in Worker : \A m \in phone \ late, n \in package[w].messages :
    Older(m, n) => m \in package[w].messages \cup stored

(* What a job's old cursors cover is stored. *)
Covers ==
  \A w \in Worker : \A m \in Live \ late : AtOrBefore(resume[w][TalkerOf[m]], m) => m \in stored

Dated == \A w \in Worker, t \in Talker : resume[w][t].end # 0 => resume[w][t].segment # NoMessage

(* A message of the package is in one of its chunks. *)
Listed == \A w \in Worker : \A m \in package[w].messages : TalkerOf[m] \in package[w].talkers

(* What a job owes, and what of it is still to come. *)
Due(w) == IF mode[w] = "full" THEN offered[w].messages ELSE offered[w].messages \ late

Pending(w) ==
  {m \in package[w].messages : \/ phase[w] \in {"taken", "written"}
                               \/ phase[w] = "talkers" /\ TalkerOf[m] \in todo[w]}

Kept == \A w \in Worker : phase[w] # "idle" => Due(w) \subseteq stored \cup Pending(w)

SInv == InOrder /\ Takes /\ Covers /\ Dated /\ Listed /\ Kept

-----------------------------------------------------------------------------
(* All these messages are messages.                                        *)
LEMMA LiveTypes ==
  ASSUME IInv
  PROVE  /\ Live \subseteq Message /\ stored \subseteq Message /\ phone \subseteq arrived
         /\ Live \subseteq arrived /\ stored \subseteq arrived
         /\ \A m \in Message : TalkerOf[m] \in Talker /\ TimeOf[m] \in Nat
<1>1. /\ phone \subseteq arrived /\ stored \subseteq arrived /\ arrived \subseteq Message
      /\ \A w \in Worker : package[w].messages \subseteq arrived
  BY DEF IInv, TypeOK, Offered
<1>2. Live \subseteq arrived BY <1>1 DEF Live
<1>3. \A m \in Message : TalkerOf[m] \in Talker /\ TimeOf[m] \in Nat BY ConstantsOK
<1> QED BY <1>1, <1>2, <1>3

(* What the cursors cover is stored.                                       *)
LEMMA CursorCovers ==
  ASSUME IInv, InOrder, NEW m \in Live \ late, AtOrBefore(cursor[TalkerOf[m]], m)
  PROVE  m \in stored
<1> DEFINE t == TalkerOf[m]
           mine == Of(t, stored)
<1>1. t \in Talker /\ m \in Message /\ stored \subseteq Message /\ mine \in SUBSET Message /\ mine \subseteq stored
  BY LiveTypes DEF Of
<1>2. Behind(cursor[t], mine) BY <1>1 DEF IInv, OldCursors
<1>3. CASE mine = {}
  <2>1. cursor[t].end = 0 /\ cursor[t].segment = NoMessage BY <1>2, <1>3 DEF Behind
  <2> QED BY <2>1 DEF AtOrBefore
<1>4. CASE mine # {}
  <2>1. cursor[t].segment = Latest(mine) /\ cursor[t].end = TimeOf[Latest(mine)]
    BY <1>1, <1>4 DEF IInv, SummariesMatch
  <2>2. Latest(mine) \in mine /\ Latest(mine) # NoMessage BY <1>1, <1>4, LatestExists
  <2>3. CASE TimeOf[m] < cursor[t].end
    <3>1. Older(m, Latest(mine)) BY <2>1, <2>2, <2>3 DEF Older, Of
    <3> QED BY <1>1, <2>2, <3>1 DEF InOrder
  <2>4. CASE m = cursor[t].segment BY <1>1, <2>1, <2>2, <2>4
  <2> QED BY <2>1, <2>2, <2>3, <2>4 DEF AtOrBefore
<1> QED BY <1>3, <1>4

(* A cursor with a time has a message.                                     *)
LEMMA CursorDated ==
  ASSUME IInv, NEW t \in Talker, cursor[t].end # 0 PROVE cursor[t].segment # NoMessage
<1> DEFINE mine == Of(t, stored)
<1>1. mine \in SUBSET Message /\ Behind(cursor[t], mine)
  BY LiveTypes DEF Of, IInv, OldCursors
<1>2. mine # {} BY <1>1 DEF Behind
<1> QED BY <1>1, <1>2, LatestExists DEF IInv, SummariesMatch

(* A step that stores nothing and brings no message.                       *)
LEMMA QuietSerial ==
  ASSUME IInv, SInv, UNCHANGED <<stored, late>>, Live' \subseteq Live,
         \A w \in Worker : \/ resume'[w] = resume[w] \/ resume'[w] = cursor
                           \/ resume'[w] = [t \in Talker |-> Zero]
  PROVE  InOrder' /\ Covers' /\ Dated'
<1>1. InOrder' BY DEF SInv, InOrder
<1>2. Covers'
  <2> SUFFICES ASSUME NEW w \in Worker, NEW m \in Live' \ late',
                      AtOrBefore(resume'[w][TalkerOf[m]], m)
               PROVE  m \in stored'
    BY DEF Covers, AtOrBefore
  <2>1. m \in Live \ late /\ TalkerOf[m] \in Talker BY LiveTypes
  <2>2. CASE resume'[w] = resume[w] BY <2>1, <2>2 DEF SInv, Covers
  <2>3. CASE resume'[w] = cursor BY <2>1, <2>3, CursorCovers DEF SInv
  <2>4. CASE resume'[w] = [t \in Talker |-> Zero] BY <2>1, <2>4 DEF AtOrBefore, Zero
  <2> QED BY <2>2, <2>3, <2>4
<1>3. Dated'
  <2> SUFFICES ASSUME NEW w \in Worker, NEW t \in Talker, resume'[w][t].end # 0
               PROVE  resume'[w][t].segment # NoMessage
    BY DEF Dated
  <2>1. CASE resume'[w] = resume[w] BY <2>1 DEF SInv, Dated
  <2>2. CASE resume'[w] = cursor BY <2>2, CursorDated
  <2>3. CASE resume'[w] = [u \in Talker |-> Zero] BY <2>3 DEF Zero
  <2> QED BY <2>1, <2>2, <2>3
<1> QED BY <1>1, <1>2, <1>3

(* What filterChunks leaves out is covered, what it keeps has its chunk.   *)
LEMMA FilterKeeps ==
  ASSUME NEW md \in Modes, NEW S \in SUBSET Message
  PROVE  /\ md = "full" => Filter(md, S).messages = S
         /\ \A m \in S : m \in Filter(md, S).messages \/ AtOrBefore(cursor[TalkerOf[m]], m)
         /\ \A m \in Filter(md, S).messages : TalkerOf[m] \in Filter(md, S).talkers
<1>1. CASE md = "full" \/ known = {} BY <1>1, ConstantsOK DEF Filter
<1>2. CASE ~(md = "full" \/ known = {})
  <2> DEFINE kept == {m \in S : TalkerOf[m] \in known => ~AtOrBefore(cursor[TalkerOf[m]], m)}
  <2>1. Filter(md, S) = [messages |-> kept,
                         talkers |-> {t \in Talker : t \in known => Of(t, kept) # {}}]
    BY <1>2 DEF Filter
  <2>2. \A m \in kept : TalkerOf[m] \in Talker /\ m \in Of(TalkerOf[m], kept)
    BY ConstantsOK DEF Of
  <2>3. \A m \in S : m \in kept \/ AtOrBefore(cursor[TalkerOf[m]], m) OBVIOUS
  <2> HIDE DEF kept
  <2> QED BY <1>2, <2>1, <2>2, <2>3
<1> QED BY <1>1, <1>2

-----------------------------------------------------------------------------
(* A message that arrives is late, or as new as any of its talker.         *)
LEMMA ArriveSerial ==
  ASSUME IInv, SInv, Serial, NEW m \in Message, Arrive(m) PROVE SInv'
<1>1. /\ m \notin arrived /\ phone' = phone \cup {m} /\ Live' = Live \cup {m}
      /\ late \subseteq late' /\ late' \subseteq late \cup {m}
      /\ UNCHANGED <<stored, package, resume, phase, mode, offered, todo>>
  BY DEF Arrive, canon, job, Live
<1>2. m \notin late' => \A n \in arrived : ~Older(m, n)
  <2>1. ASSUME NEW n \in arrived, Older(m, n) PROVE m \in late'
    <3>1. TimeOf[n] > TimeOf[m] /\ n \in Of(TalkerOf[m], arrived)
      <4>1. TimeOf[n] \in Nat /\ TimeOf[m] \in Nat BY ConstantsOK DEF IInv, TypeOK
      <4> QED BY <2>1, <4>1 DEF Older, Of
    <3> QED BY <3>1 DEF Arrive
  <2> QED BY <2>1
<1>3. InOrder' BY <1>1, <1>2, LiveTypes DEF SInv, InOrder, Older
<1>4. Takes'
  <2>1. \A w \in Worker : package[w].messages \subseteq arrived BY DEF IInv, Offered
  <2> QED BY <1>1, <1>2, <2>1 DEF SInv, Takes, Older
<1>5. Covers'
  <2> SUFFICES ASSUME NEW w \in Worker, m \notin late', AtOrBefore(resume[w][TalkerOf[m]], m)
               PROVE  m \in stored
    BY <1>1 DEF SInv, Covers, AtOrBefore
  <2> DEFINE t == TalkerOf[m]
             c == resume[w][t]
  <2>1. t \in Talker /\ c \in Cursors /\ Behind(c, Of(t, stored)) /\ (c.end # 0 => c.segment # NoMessage)
    <3>1. t \in Talker BY ConstantsOK
    <3>2. c \in Cursors BY <3>1 DEF IInv, TypeOK
    <3> QED BY <3>1, <3>2 DEF IInv, OldCursors, SInv, Dated
  <2>2. CASE c.segment = m
    <3>1. m # NoMessage BY ConstantsOK DEF NoMessage
    <3> QED BY <2>1, <2>2, <3>1 DEF Behind, Of
  <2>3. CASE c.segment # m
    <3>1. c.end # 0 /\ TimeOf[m] < c.end BY <2>1, <2>3 DEF AtOrBefore
    <3>2. PICK n \in Of(t, stored) : c.end <= TimeOf[n] BY <2>1, <3>1 DEF Behind
    <3>3. n \in stored /\ n \in arrived /\ TalkerOf[n] = t BY <3>2, LiveTypes DEF Of
    <3>4. c.end \in Nat /\ TimeOf[n] \in Nat /\ TimeOf[m] \in Nat
      <4>1. n \in Message BY <3>3, LiveTypes
      <4>2. \A x \in Message : TimeOf[x] \in Nat BY ConstantsOK
      <4>3. c.end \in {0} \cup {TimeOf[x] : x \in Message} BY <2>1 DEF Cursors
      <4> QED BY <4>1, <4>2, <4>3
    <3>5. Older(m, n) BY <3>1, <3>2, <3>3, <3>4 DEF Older
    <3> QED BY <1>2, <3>3, <3>5
  <2> QED BY <2>2, <2>3
<1>6. Dated' /\ Listed' BY <1>1 DEF SInv, Dated, Listed
<1>7. Kept' BY <1>1 DEF SInv, Kept, Due, Pending
<1> QED BY <1>3, <1>4, <1>5, <1>6, <1>7 DEF SInv

(* The phone loses a message, or media change.                             *)
LEMMA ClearSerial ==
  ASSUME IInv, SInv, (\E m \in Message : Clear(m)) \/ (\E x \in Media : Gallery(x)) PROVE SInv'
<1>1. /\ phone' \subseteq phone
      /\ UNCHANGED <<stored, late, package, resume, phase, mode, offered, todo>>
  BY DEF Clear, Gallery, canon, job
<1>2. Live' \subseteq Live BY <1>1 DEF Live
<1>3. InOrder' /\ Covers' /\ Dated' BY <1>1, <1>2, QuietSerial
<1>4. Takes' /\ Listed' BY <1>1 DEF SInv, Takes, Listed
<1>5. Kept' BY <1>1 DEF SInv, Kept, Due, Pending
<1> QED BY <1>3, <1>4, <1>5 DEF SInv

(* A package is taken: what the filter drops is stored already.            *)
LEMMA TakeSerial ==
  ASSUME IInv, SInv, Serial, NEW w \in Worker, NEW md \in Modes, Take(w, md) PROVE SInv'
<1> DEFINE got == Filter(md, phone)
<1>1. phone \in SUBSET Message /\ got.messages \subseteq phone
  BY FilterTypes DEF IInv, TypeOK
<1>2. /\ md = "full" => got.messages = phone
      /\ \A m \in phone : m \in got.messages \/ AtOrBefore(cursor[TalkerOf[m]], m)
      /\ \A m \in got.messages : TalkerOf[m] \in got.talkers
  BY <1>1, FilterKeeps
<1>3. \A m \in phone \ late : m \in got.messages \cup stored
  BY <1>2, CursorCovers DEF SInv, Live
<1>4. /\ UNCHANGED <<phone, late, stored, resume>> /\ phase'[w] = "taken" /\ mode'[w] = md
      /\ offered'[w].messages = phone
      /\ package'[w].messages = got.messages /\ package'[w].talkers = got.talkers
  BY DEF Take, device, canon, IInv, TypeOK
<1> HIDE DEF got
<1>5. \A v \in Worker : v = w BY DEF Serial
<1>6. Live' \subseteq Live BY <1>1, <1>4, <1>5 DEF Live
<1>7. InOrder' /\ Covers' /\ Dated' BY <1>4, <1>6, QuietSerial
<1>8. Takes' BY <1>3, <1>4, <1>5 DEF Takes
<1>9. Listed' BY <1>2, <1>4, <1>5 DEF Listed
<1>10. Kept' BY <1>2, <1>3, <1>4, <1>5 DEF Kept, Due, Pending
<1> QED BY <1>7, <1>8, <1>9, <1>10 DEF SInv

(* It is written as it is, or another one is found that has more.          *)
LEMMA MaterializeSerial ==
  ASSUME IInv, SInv, Serial, NEW w \in Worker, Materialize(w) PROVE SInv'
<1>1. \A v \in Worker : v = w BY DEF Serial
<1>2. /\ UNCHANGED <<phone, late, stored, resume, mode, offered, todo>>
      /\ phase[w] = "taken" /\ phase'[w] = "written"
  BY DEF Materialize, device, canon, IInv, TypeOK
<1>3. \/ package'[w] = package[w]
      \/ /\ package[w].messages = {} /\ package'[w].messages = phone
         /\ package'[w].talkers = Talker
  BY <1>2 DEF Materialize, IsEmpty, IInv, TypeOK
<1>4. Live' \subseteq Live BY <1>1, <1>2, <1>3 DEF Live
<1>5. InOrder' /\ Covers' /\ Dated' BY <1>2, <1>4, QuietSerial
<1>6. Takes' BY <1>1, <1>2, <1>3 DEF SInv, Takes
<1>7. Listed'
  <2>1. \A m \in phone : TalkerOf[m] \in Talker BY LiveTypes DEF Live
  <2> QED BY <1>1, <1>3, <2>1 DEF SInv, Listed
<1>8. Kept' BY <1>1, <1>2, <1>3 DEF SInv, Kept, Due, Pending
<1> QED BY <1>5, <1>6, <1>7, <1>8 DEF SInv

(* The cursors are read, and every chunk is to be committed.               *)
LEMMA LoadSerial ==
  ASSUME IInv, SInv, Serial, NEW w \in Worker, Load(w) PROVE SInv'
<1>1. \A v \in Worker : v = w BY DEF Serial
<1>2. /\ UNCHANGED <<phone, late, stored, package, mode, offered>> /\ resume'[w] = cursor
      /\ phase[w] = "written" /\ phase'[w] = "talkers" /\ todo'[w] = package[w].talkers
  BY DEF Load, device, canon, IInv, TypeOK
<1>3. Live' \subseteq Live BY <1>2 DEF Live
<1>4. InOrder' /\ Covers' /\ Dated' BY <1>1, <1>2, <1>3, QuietSerial
<1>5. Takes' /\ Listed' BY <1>2 DEF SInv, Takes, Listed
<1>6. Kept' BY <1>1, <1>2 DEF SInv, Kept, Due, Pending, Listed
<1> QED BY <1>4, <1>5, <1>6 DEF SInv

(* One talker is committed: what is skipped is stored, and so is whatever  *)
(* is older than what is new.                                              *)
LEMMA IngestTalkerSerial ==
  ASSUME IInv, SInv, Serial, NEW w \in Worker, NEW t \in Talker, IngestTalker(w, t) PROVE SInv'
<1> DEFINE new == {m \in Of(t, package[w].messages) : m \in stored \/ ~Skip(w, m)}
<1>1. \A v \in Worker : v = w BY DEF Serial
<1>2. /\ stored' = stored \cup new /\ phase[w] = "talkers" /\ todo'[w] = todo[w] \ {t}
      /\ UNCHANGED <<phone, late, package, resume, phase, mode, offered>>
  BY DEF IngestTalker, device, IInv, TypeOK
<1>3. new \subseteq package[w].messages /\ \A m \in new : TalkerOf[m] = t BY DEF Of
<1>4. package[w].messages \subseteq Live BY DEF Live
<1>5. \A m \in Of(t, package[w].messages) \ late : m \in stored'
  <2> SUFFICES ASSUME NEW m \in Of(t, package[w].messages) \ late, Skip(w, m) PROVE m \in stored
    BY <1>2
  <2>1. m \in Live \ late BY <1>4 DEF Of
  <2> QED BY <2>1 DEF Skip, SInv, Covers
<1>6. mode[w] = "full" => Of(t, package[w].messages) \subseteq stored' BY <1>2 DEF Skip
<1>7. Live' = Live BY <1>2 DEF Live
<1> HIDE DEF new
<1>8. InOrder'
  <2> SUFFICES ASSUME NEW m \in Live \ late, NEW n \in stored', Older(m, n) PROVE m \in stored'
    BY <1>2, <1>7 DEF InOrder, Older
  <2>1. CASE n \in stored BY <1>2, <2>1 DEF SInv, InOrder
  <2>2. CASE n \in new
    <3>1. TalkerOf[m] = t /\ n \in package[w].messages BY <1>3, <2>2 DEF Older
    <3>2. m \in package[w].messages \cup stored
      <4>1. CASE m \in phone BY <3>1, <4>1 DEF SInv, Takes
      <4>2. CASE m \notin phone BY <1>1, <4>2 DEF Live
      <4> QED BY <4>1, <4>2
    <3>3. m \in package[w].messages => m \in Of(t, package[w].messages) BY <3>1 DEF Of
    <3> QED BY <1>2, <1>5, <3>2, <3>3
  <2> QED BY <1>2, <2>1, <2>2
<1>9. Takes' BY <1>2 DEF SInv, Takes
<1>10. Covers' BY <1>2, <1>7 DEF SInv, Covers, AtOrBefore
<1>11. Dated' /\ Listed' BY <1>2 DEF SInv, Dated, Listed
<1>12. Kept'
  <2> SUFFICES ASSUME NEW m \in Due(w), m \notin stored' PROVE m \in Pending(w)'
    BY <1>1, <1>2 DEF Kept, Due
  <2>1. m \in Pending(w) BY <1>2 DEF SInv, Kept
  <2>2. TalkerOf[m] # t
    <3> SUFFICES ASSUME TalkerOf[m] = t PROVE FALSE OBVIOUS
    <3>1. m \in Of(t, package[w].messages) BY <2>1 DEF Pending, Of
    <3>2. CASE mode[w] = "full" BY <1>6, <3>1, <3>2
    <3>3. CASE mode[w] # "full" BY <1>5, <3>1, <3>3 DEF Due
    <3> QED BY <3>2, <3>3
  <2> QED BY <1>2, <2>1, <2>2 DEF Pending
<1> QED BY <1>8, <1>9, <1>10, <1>11, <1>12 DEF SInv

(* Nothing is pending once the media are reached.                          *)
LEMMA MediaSerial ==
  ASSUME IInv, SInv, Serial, NEW w \in Worker,
         TalkersDone(w) \/ \E x \in Media : TruncateFile(w, x) \/ WriteFile(w, x) \/ PutMedia(w, x)
  PROVE  SInv'
<1>1. \A v \in Worker : v = w BY DEF Serial
<1>2. /\ UNCHANGED <<phone, late, stored, package, resume, mode, offered>>
      /\ phase'[w] \in {"media", "truncated", "filed"}
      /\ phase[w] \in {"media", "truncated", "filed"} \/ (phase[w] = "talkers" /\ todo[w] = {})
  BY DEF TalkersDone, TruncateFile, WriteFile, PutMedia, device, canon, IInv, TypeOK
<1>3. Live' \subseteq Live BY <1>2 DEF Live
<1>4. InOrder' /\ Covers' /\ Dated' BY <1>2, <1>3, QuietSerial
<1>5. Takes' /\ Listed' BY <1>2 DEF SInv, Takes, Listed
<1>6. Pending(w) = {} BY <1>2 DEF Pending
<1>7. Kept' BY <1>1, <1>2, <1>6 DEF SInv, Kept, Due
<1> QED BY <1>4, <1>5, <1>7 DEF SInv

(* A job ends, completed or not.                                           *)
LEMMA EndSerial ==
  ASSUME IInv, SInv, Serial, NEW w \in Worker, Complete(w) \/ Abandon(w) \/ Crash PROVE SInv'
<1>1. \A v \in Worker : v = w BY DEF Serial
<1>2. Gone({w}) BY <1>1 DEF Complete, Abandon, Crash, Forgotten, Gone
<1>3. /\ UNCHANGED <<phone, late, stored>> /\ package'[w] = NoPackage
      /\ resume'[w] = [t \in Talker |-> Zero]
  BY <1>2 DEF Gone, device, canon
<1>4. NoPackage.messages = {} BY DEF NoPackage
<1>5. Live' \subseteq Live BY <1>1, <1>3, <1>4 DEF Live
<1>6. InOrder' /\ Covers' /\ Dated' BY <1>1, <1>3, <1>5, QuietSerial
<1>7. Takes' /\ Listed' BY <1>1, <1>3, <1>4 DEF Takes, Listed
<1>8. Kept'
  <2>1. CASE Complete(w)
    <3>1. phase[w] = "media" /\ UNCHANGED <<mode, offered>> BY <2>1 DEF Complete
    <3>2. Due(w) \subseteq stored BY <3>1 DEF SInv, Kept, Pending
    <3> QED BY <1>1, <1>3, <3>1, <3>2 DEF Kept, Due
  <2>2. CASE Abandon(w) \/ Crash
    <3>1. phase'[w] = "idle" BY <2>2 DEF Abandon, Crash, Forgotten
    <3> QED BY <1>1, <3>1 DEF Kept
  <2> QED BY <2>1, <2>2
<1> QED BY <1>6, <1>7, <1>8 DEF SInv

(* SInv holds at the start.                                                *)
LEMMA InitSerial == Init => SInv
<1> SUFFICES ASSUME Init PROVE SInv OBVIOUS
<1>1. Live = {} BY DEF Init, Live, NoPackage
<1>2. InOrder /\ Covers BY <1>1 DEF InOrder, Covers
<1>3. Takes /\ Listed BY DEF Init, Takes, Listed, NoPackage
<1>4. Dated /\ Kept BY DEF Init, Dated, Kept, Zero
<1> QED BY <1>2, <1>3, <1>4 DEF SInv

(* Every step preserves SInv.                                              *)
LEMMA StepSerial == ASSUME IInv, SInv, Serial, [Next]_vars PROVE SInv'
<1>1. CASE UNCHANGED vars
  BY <1>1 DEF vars, device, canon, media, job, SInv, InOrder, Takes, Covers, Dated, Listed, Kept,
     Live, Due, Pending, Older, AtOrBefore
<1>2. CASE (\E m \in Message : Arrive(m) \/ Clear(m)) \/ (\E x \in Media : Gallery(x))
  BY <1>2, ArriveSerial, ClearSerial
<1>3. ASSUME NEW w \in Worker,
             \/ \E md \in Modes : Take(w, md)
             \/ Materialize(w) \/ Load(w)
             \/ \E t \in Talker : IngestTalker(w, t)
      PROVE  SInv'
  BY <1>3, TakeSerial, MaterializeSerial, LoadSerial, IngestTalkerSerial
<1>4. ASSUME NEW w \in Worker,
             \/ TalkersDone(w)
             \/ \E x \in Media : TruncateFile(w, x) \/ WriteFile(w, x) \/ PutMedia(w, x)
             \/ Complete(w) \/ Abandon(w)
      PROVE  SInv'
  BY <1>4, MediaSerial, EndSerial
<1>5. CASE Crash
  <2>1. CASE \E w \in Worker : TRUE BY <1>5, <2>1, EndSerial
  <2>2. CASE Worker = {}
    <3>1. UNCHANGED <<phone, late, stored>> BY <1>5 DEF Crash, Forgotten, Gone, device, canon
    <3>2. Live' \subseteq Live BY <2>2, <3>1 DEF Live
    <3> QED BY <2>2, <3>1, <3>2 DEF SInv, InOrder, Takes, Covers, Dated, Listed, Kept
  <2> QED BY <2>1, <2>2
<1> QED BY <1>1, <1>2, <1>3, <1>4, <1>5 DEF Next

(* The invariant of accounts whose jobs do not overlap. *)
THEOREM SerialInvariance == ASSUME Serial PROVE Spec => []SInv
<1>1. IInv /\ SInv /\ [Next]_vars => SInv' BY StepSerial
<1> QED BY <1>1, InitSerial, Invariance, PTL DEF Spec

(* NothingLost: whatever was cut short before, a job that completes has     *)
(* stored what the phone held.                                             *)
THEOREM NoMessageIsLost == ASSUME Serial PROVE Spec => []NothingLost
<1>1. SInv => NothingLost BY DEF SInv, Kept, NothingLost, Due, Pending
<1> QED BY <1>1, SerialInvariance, PTL

-----------------------------------------------------------------------------
IsServed(x) == mediaRow[x] = "available" /\ files[x] = "whole"

(* The object a job is writing, and its file. *)
Filing ==
  \A w \in Worker, x \in Media : Turn(w, x) =>
    /\ phase[w] = "truncated" => package[w].media[x] = "blob" /\ files[x] = "partial"
    /\ phase[w] = "filed" => package[w].media[x] = "blob" /\ files[x] = "whole"

Rows == \A x \in Media : mediaRow[x] = "available" => files[x] # "none"

(* An object with bytes stays in the package and on the list until served. *)
MediaKept ==
  \A w \in Worker, x \in Media : offered[w].media[x] = "blob" =>
    /\ phase[w] \notin {"idle", "done"} => package[w].media[x] = "blob"
    /\ phase[w] \in {"media", "truncated", "filed"} => x \in todo[w] \/ IsServed(x)
    /\ phase[w] = "done" => IsServed(x)

MInv == Filing /\ Rows /\ MediaKept

(* Only one object is next.                                                *)
LEMMA OneTurn ==
  ASSUME NEW w \in Worker, NEW x \in Media, NEW y \in Media, Turn(w, x), Turn(w, y) PROVE x = y
<1>1. x \in Nat /\ y \in Nat BY ConstantsOK
<1>2. x <= y /\ y <= x BY DEF Turn
<1> QED BY <1>1, <1>2

(* Steps that touch neither a file nor a row.                              *)
LEMMA QuietMedia ==
  ASSUME TypeOK, MInv, Serial, NEW w \in Worker,
         \/ \E md \in Modes : Take(w, md)
         \/ Materialize(w) \/ Load(w)
         \/ \E t \in Talker : IngestTalker(w, t)
         \/ TalkersDone(w) \/ Complete(w) \/ Abandon(w)
  PROVE  MInv'
<1>1. (\A v \in Worker : v = w) /\ UNCHANGED <<files, mediaRow>>
  BY DEF Serial, Take, Materialize, Load, IngestTalker, TalkersDone, Complete, Abandon,
     Forgotten, Gone, media
<1>2. phase'[w] \notin {"truncated", "filed"}
  BY DEF TypeOK, Take, Materialize, Load, IngestTalker, TalkersDone, Complete, Abandon, Forgotten
<1>3. Filing' /\ Rows' BY <1>1, <1>2 DEF MInv, Filing, Rows
<1>4. MediaKept'
  <2> SUFFICES ASSUME NEW x \in Media, offered'[w].media[x] = "blob"
               PROVE  /\ phase'[w] \notin {"idle", "done"} => package'[w].media[x] = "blob"
                      /\ phase'[w] = "media" => x \in todo'[w] \/ IsServed(x)
                      /\ phase'[w] = "done" => IsServed(x)
    BY <1>1, <1>2 DEF MediaKept, IsServed
  <2>1. ASSUME NEW md \in Modes, Take(w, md) PROVE package'[w].media[x] = "blob" /\ phase'[w] = "taken"
    BY <2>1 DEF Take, TypeOK
  <2>2. CASE Materialize(w)
    <3>1. phase[w] = "taken" /\ phase'[w] = "written" /\ offered' = offered
      BY <2>2 DEF Materialize, TypeOK
    <3>2. package[w].media[x] = "blob" BY <3>1 DEF MInv, MediaKept
    <3>3. ~IsEmpty(package[w]) BY <3>2 DEF IsEmpty
    <3>4. package'[w] = package[w] BY <2>2, <3>1, <3>3 DEF Materialize
    <3> QED BY <3>1, <3>2, <3>4
  <2>3. CASE Load(w) \/ \E t \in Talker : IngestTalker(w, t)
    <3>1. phase[w] \in {"written", "talkers"} /\ phase'[w] = "talkers" /\ UNCHANGED <<offered, package>>
      BY <2>3 DEF Load, IngestTalker, TypeOK
    <3> QED BY <3>1 DEF MInv, MediaKept
  <2>4. CASE TalkersDone(w)
    <3>1. /\ phase[w] = "talkers" /\ phase'[w] = "media" /\ UNCHANGED <<offered, package>>
          /\ todo'[w] = {y \in Media : package[w].media[y] # "absent"}
      BY <2>4 DEF TalkersDone, TypeOK
    <3>2. package[w].media[x] = "blob" BY <3>1 DEF MInv, MediaKept
    <3> QED BY <3>1, <3>2
  <2>5. CASE Complete(w)
    <3>1. phase[w] = "media" /\ todo[w] = {} /\ phase'[w] = "done" /\ offered' = offered
      BY <2>5 DEF Complete, TypeOK
    <3>2. IsServed(x) BY <3>1 DEF MInv, MediaKept
    <3> QED BY <3>1, <3>2
  <2>6. CASE Abandon(w)
    <3>1. phase'[w] = "idle" BY <2>6 DEF Abandon, Forgotten
    <3> QED BY <3>1
  <2> QED BY <2>1, <2>2, <2>3, <2>4, <2>5, <2>6
<1> QED BY <1>3, <1>4 DEF MInv

(* A file is opened, then written; then its row is put.                    *)
LEMMA FileMedia ==
  ASSUME TypeOK, MInv, Serial, NEW w \in Worker, NEW x \in Media, TruncateFile(w, x) \/ WriteFile(w, x)
  PROVE  MInv'
<1>1. /\ \A v \in Worker : v = w
      /\ UNCHANGED <<mediaRow, offered, package, todo>>
      /\ phase[w] \in {"media", "truncated"} /\ Turn(w, x) /\ package[w].media[x] = "blob"
      /\ \/ phase'[w] = "truncated" /\ files' = [files EXCEPT ![x] = "partial"]
         \/ phase'[w] = "filed" /\ files' = [files EXCEPT ![x] = "whole"]
  BY DEF Serial, TruncateFile, WriteFile, TypeOK, MInv, Filing
<1>2. \A y \in Media : Turn(w, y)' => y = x BY <1>1, OneTurn DEF Turn
<1>3. files \in [Media -> {"none", "partial", "whole"}] BY DEF TypeOK
<1>4. Filing' BY <1>1, <1>2, <1>3 DEF Filing
<1>5. Rows' BY <1>1, <1>3 DEF MInv, Rows
<1>6. x \in todo[w] BY <1>1 DEF Turn
<1>7. \A y \in Media : y # x => files'[y] = files[y] BY <1>1, <1>3
<1>8. phase'[w] \in {"truncated", "filed"} BY <1>1
<1>9. MediaKept' BY <1>1, <1>6, <1>7, <1>8 DEF MInv, MediaKept, IsServed
<1> QED BY <1>4, <1>5, <1>9 DEF MInv

LEMMA PutMediaServes ==
  ASSUME TypeOK, MInv, Serial, NEW w \in Worker, NEW x \in Media, PutMedia(w, x)
  PROVE  MInv'
<1>1. /\ \A v \in Worker : v = w
      /\ UNCHANGED <<files, offered, package>>
      /\ Turn(w, x) /\ todo'[w] = todo[w] \ {x} /\ phase'[w] = "media"
      /\ mediaRow' = [mediaRow EXCEPT ![x] =
           IF package[w].media[x] = "blob" THEN "available" ELSE "unavailable"]
      /\ phase[w] \in {"media", "filed"}
      /\ package[w].media[x] = "blob" => phase[w] = "filed" /\ files[x] = "whole"
  BY DEF Serial, PutMedia, TypeOK, MInv, Filing
<1>2. mediaRow \in [Media -> {"none", "unavailable", "available"}] BY DEF TypeOK
<1>3. Filing' BY <1>1 DEF Filing
<1>4. Rows' BY <1>1, <1>2 DEF MInv, Rows
<1>5. \A y \in Media : y # x => mediaRow'[y] = mediaRow[y] BY <1>1, <1>2
<1>6. package[w].media[x] = "blob" => IsServed(x)' BY <1>1, <1>2 DEF IsServed
<1>7. MediaKept' BY <1>1, <1>5, <1>6 DEF MInv, MediaKept, IsServed
<1> QED BY <1>3, <1>4, <1>7 DEF MInv

(* Every step preserves MInv.                                              *)
LEMMA StepMedia == ASSUME TypeOK, MInv, Serial, [Next]_vars PROVE MInv'
<1>1. CASE UNCHANGED vars
  BY <1>1 DEF vars, media, job, MInv, Filing, Rows, MediaKept, Turn, IsServed
<1>2. CASE (\E m \in Message : Arrive(m) \/ Clear(m)) \/ (\E x \in Media : Gallery(x))
  BY <1>2 DEF Arrive, Clear, Gallery, media, job, MInv, Filing, Rows, MediaKept, Turn, IsServed
<1>3. ASSUME NEW w \in Worker,
             \/ \E md \in Modes : Take(w, md)
             \/ Materialize(w) \/ Load(w)
             \/ \E t \in Talker : IngestTalker(w, t)
             \/ TalkersDone(w) \/ Complete(w) \/ Abandon(w)
      PROVE  MInv'
  BY <1>3, QuietMedia
<1>4. ASSUME NEW w \in Worker, NEW x \in Media,
             TruncateFile(w, x) \/ WriteFile(w, x) \/ PutMedia(w, x)
      PROVE  MInv'
  BY <1>4, FileMedia, PutMediaServes
<1>5. CASE Crash
  <2>1. (\A w \in Worker : phase'[w] = "idle") /\ UNCHANGED <<files, mediaRow>>
    BY <1>5 DEF Crash, Forgotten, Gone, media
  <2> QED BY <2>1 DEF MInv, Filing, Rows, MediaKept
<1> QED BY <1>1, <1>2, <1>3, <1>4, <1>5 DEF Next

(* MediaServed: rows that promise a file have one, and a job that completes *)
(* leaves every object the phone had bytes of whole.                       *)
THEOREM MediaAreServed == ASSUME Serial PROVE Spec => []MediaServed
<1>1. Init => MInv BY DEF Init, MInv, Filing, Rows, MediaKept, Nothing
<1>2. TypeOK /\ MInv /\ [Next]_vars => MInv' BY StepMedia
<1>3. MInv => MediaServed BY DEF MInv, Rows, MediaKept, MediaServed, IsServed
<1> QED BY <1>1, <1>2, <1>3, TypeCorrect, PTL DEF Spec
=============================================================================
