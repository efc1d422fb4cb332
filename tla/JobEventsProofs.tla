--------------------------- MODULE JobEventsProofs ---------------------------
(***************************************************************************)
(* Proofs about JobEvents, for any number of listeners and changes and any *)
(* capacity of the channels.  The properties follow from IInv: what a      *)
(* channel holds lies between what its reader has written and the job and  *)
(* is in order, a reader that reads is listed, being served or has a       *)
(* closed channel, and a closed channel ends with the job's last word      *)
(* unless forceSend once found it full.                                    *)
(***************************************************************************)
EXTENDS JobEvents, TLAPS

(* What a channel holds is in order, after what its reader has written and *)
(* not ahead of the job.                                                   *)
OrderOK(l) ==
  /\ last[l].version <= job.version
  /\ \A i \in 1..Len(channel[l]) : /\ last[l].version <= channel[l][i].version
                                   /\ channel[l][i].version <= job.version
  /\ \A i, k \in 1..Len(channel[l]) : i <= k => channel[l][i].version <= channel[l][k].version

(* A reader that reads can count on an end, and the end on the last word. *)
EndOK(l) ==
  /\ reader[l] = "reading" => \/ l \in subscribers \/ l \in closed
                              \/ phase = "sending" /\ Over(job) /\ l \in batch
  /\ reader[l] = "reading" /\ l \in closed =>
       l \in behind \/ (Len(channel[l]) > 0 /\ Over(channel[l][Len(channel[l])]))
  /\ reader[l] = "over" => Over(last[l]) \/ l \in behind

(* Where the publisher is and what that says of the job and the list. *)
PublisherOK ==
  /\ ~Over(job) => job.version < MaxVersion
  /\ phase = "idle" => ~Over(job)
  /\ phase \in {"over", "muted"} => Over(job)
  /\ phase # "sending" => batch = {}
  /\ phase \in {"sending", "over"} /\ Over(job) => subscribers = {}
  /\ closed # {} => Over(job)
  /\ forcing \subseteq behind /\ (forcing # {} => Over(job))

IInv == TypeOK /\ PublisherOK /\ \A l \in Listener : OrderOK(l) /\ EndOK(l)

(* The entries of a longer and of a shorter channel.                       *)
LEMMA AppendEntries ==
  ASSUME NEW s \in Seq(Jobs), NEW e \in Jobs
  PROVE  /\ Append(s, e) \in Seq(Jobs) /\ Len(s) \in Nat /\ Len(Append(s, e)) = Len(s) + 1
         /\ \A i \in 1..Len(s) : Append(s, e)[i] = s[i]
         /\ Append(s, e)[Len(s) + 1] = e
OBVIOUS

LEMMA TailEntries ==
  ASSUME NEW s \in Seq(Jobs), s # <<>>
  PROVE  /\ Tail(s) \in Seq(Jobs) /\ Len(s) \in Nat \ {0} /\ Len(Tail(s)) = Len(s) - 1
         /\ Head(s) = s[1] /\ Head(s) \in Jobs
         /\ \A i \in 1..Len(Tail(s)) : Tail(s)[i] = s[i + 1]
         /\ \A i \in 1..Len(s) : s[i] \in Jobs
OBVIOUS

(* Versions are numbers.                                                   *)
LEMMA Versions ==
  ASSUME TypeOK
  PROVE  /\ job \in Jobs /\ job.version \in Nat /\ First \in Jobs
         /\ \A l \in Listener : last[l] \in Jobs /\ last[l].version \in Nat
         /\ \A l \in Listener : channel[l] \in Seq(Jobs) /\ Len(channel[l]) \in Nat
         /\ \A l \in Listener : \A i \in 1..Len(channel[l]) : channel[l][i] \in Jobs
         /\ \A e \in Jobs : e.version \in Nat /\ e.status \in {"active", "done", "failed"}
<1>1. \A e \in Jobs : e.version \in Nat /\ e.status \in {"active", "done", "failed"} BY DEF Jobs
<1>2. First \in Jobs BY ConstantsOK DEF First, Jobs
<1> QED BY <1>1, <1>2 DEF TypeOK

(* Init: nothing has been sent and nobody listens.                         *)
LEMMA InitInv == Init => IInv
<1> SUFFICES ASSUME Init PROVE IInv OBVIOUS
<1>1. First \in Jobs /\ ~Over(First) /\ First.version = 0 BY ConstantsOK DEF First, Jobs, Over
<1>2. channel \in [Listener -> Seq(Jobs)] /\ \A l \in Listener : Len(channel[l]) = 0 BY DEF Init
<1>3. TypeOK BY <1>1, <1>2, ConstantsOK DEF Init, TypeOK
<1>4. PublisherOK BY <1>1, ConstantsOK DEF Init, PublisherOK
<1>5. \A l \in Listener : OrderOK(l)
  <2>1. last = [l \in Listener |-> First] /\ job = First BY DEF Init
  <2>2. job.version = 0 /\ \A l \in Listener : last[l].version = 0 BY <1>1, <2>1
  <2> SUFFICES ASSUME NEW l \in Listener PROVE OrderOK(l) OBVIOUS
  <2>3. last[l].version <= job.version BY <2>2
  <2>4. Len(channel[l]) = 0 BY <1>2
  <2>5. ~\E i \in 1..Len(channel[l]) : TRUE BY <2>4
  <2> QED BY <2>3, <2>5 DEF OrderOK
<1>6. \A l \in Listener : EndOK(l) BY DEF Init, EndOK
<1> QED BY <1>3, <1>4, <1>5, <1>6 DEF IInv

(* A step of the publisher that sends nothing leaves the order alone.      *)
LEMMA OrderKept ==
  ASSUME IInv, job'.version \in Nat, job'.version >= job.version,
         UNCHANGED <<channel, reader, last>>
  PROVE  \A l \in Listener : OrderOK(l)'
BY Versions DEF IInv, OrderOK

(* The locked change.                                                      *)
LEMMA ChangeInv == ASSUME IInv, Change PROVE IInv'
<1> PICK s \in {"active", "done", "failed"} :
           /\ job.version + 1 = MaxVersion => s # "active"
           /\ job' = [version |-> job.version + 1, status |-> s]
  BY DEF Change
<1>1. job.version < MaxVersion /\ job.version \in Nat
  BY Versions DEF IInv, PublisherOK, Change
<1>2. job' \in Jobs /\ job'.version = job.version + 1 /\ job'.status = s
  BY <1>1, ConstantsOK DEF Jobs
<1>3. TypeOK' BY <1>2 DEF IInv, TypeOK, Change, client
<1>4. PublisherOK' BY <1>1, <1>2, ConstantsOK DEF IInv, PublisherOK, Change, client, Over
<1>5. \A l \in Listener : OrderOK(l)' BY <1>1, <1>2, OrderKept DEF Change, client
<1>6. \A l \in Listener : EndOK(l)' BY DEF IInv, EndOK, Change, client
<1> QED BY <1>3, <1>4, <1>5, <1>6 DEF IInv

(* The write that fails: of a status on the way, or of "done".             *)
LEMMA PersistFailsInv == ASSUME IInv, PersistFails PROVE IInv'
<1> USE DEF PersistFails, client
<1>1. CASE job.status = "active"
  <2>1. job.version < MaxVersion /\ job.version \in Nat
    BY <1>1, Versions DEF IInv, PublisherOK, Over
  <2>2. job' \in Jobs /\ job'.version = job.version + 1 /\ job'.status = "failed" /\ phase' = "changed"
    BY <1>1, <2>1, ConstantsOK DEF Jobs
  <2>3. TypeOK' BY <2>2 DEF IInv, TypeOK
  <2>4. PublisherOK' BY <2>2 DEF IInv, PublisherOK, Over
  <2>5. \A l \in Listener : OrderOK(l)' BY <2>1, <2>2, OrderKept
  <2>6. \A l \in Listener : EndOK(l)' BY DEF IInv, EndOK
  <2> QED BY <2>3, <2>4, <2>5, <2>6 DEF IInv
<1>2. CASE job.status = "done"
  <2>1. phase' = "muted" /\ job' = job BY <1>2
  <2>2. TypeOK' BY <2>1 DEF IInv, TypeOK
  <2>3. PublisherOK' BY <1>2, <2>1 DEF IInv, PublisherOK, Over
  <2>4. \A l \in Listener : OrderOK(l)' BY <2>1, Versions, OrderKept DEF IInv
  <2>5. \A l \in Listener : EndOK(l)' BY DEF IInv, EndOK
  <2> QED BY <2>2, <2>3, <2>4, <2>5 DEF IInv
<1> QED BY <1>1, <1>2

(* The list is copied, and for the last event cleared.                     *)
LEMMA EmitInv == ASSUME IInv, Emit PROVE IInv'
<1> USE DEF Emit, client
<1>1. TypeOK' BY DEF IInv, TypeOK, PublisherOK
<1>2. PublisherOK' BY DEF IInv, PublisherOK
<1>3. \A l \in Listener : OrderOK(l)' BY Versions, OrderKept DEF IInv
<1>4. \A l \in Listener : EndOK(l)' BY DEF IInv, EndOK, PublisherOK
<1> QED BY <1>1, <1>2, <1>3, <1>4 DEF IInv

(* The sends are through.                                                  *)
LEMMA EmittedInv == ASSUME IInv, Emitted PROVE IInv'
<1> USE DEF Emitted, client
<1>1. TypeOK' BY DEF IInv, TypeOK
<1>2. PublisherOK' BY DEF IInv, PublisherOK
<1>3. \A l \in Listener : OrderOK(l)' BY Versions, OrderKept DEF IInv
<1>4. \A l \in Listener : EndOK(l)' BY DEF IInv, EndOK, PublisherOK
<1> QED BY <1>1, <1>2, <1>3, <1>4 DEF IInv

(* A step that sends to, or reads for, one listener leaves the others as   *)
(* they are.                                                               *)
LEMMA Frame ==
  ASSUME NEW k \in Listener, OrderOK(k), EndOK(k),
         UNCHANGED <<job, phase, channel[k], reader[k], last[k]>>,
         k \in subscribers => k \in subscribers', k \in batch => k \in batch',
         k \in closed <=> k \in closed', k \in behind => k \in behind'
  PROVE  OrderOK(k)' /\ EndOK(k)'
<1>1. OrderOK(k)' BY DEF OrderOK
<1>2. EndOK(k)' BY DEF EndOK, Over
<1> QED BY <1>1, <1>2

(* One more entry, the job as it is, is in order, and is the last.         *)
LEMMA OrderAppend ==
  ASSUME IInv, NEW l \in Listener, channel'[l] = Append(channel[l], job),
         UNCHANGED <<job, reader, last>>
  PROVE  /\ OrderOK(l)'
         /\ Len(channel'[l]) > 0 /\ channel'[l][Len(channel'[l])] = job
         /\ Len(channel'[l]) = Len(channel[l]) + 1
<1> DEFINE n == Len(channel[l])
<1>1. /\ n \in Nat /\ Len(channel'[l]) = n + 1
      /\ \A i \in 1..n : channel'[l][i] = channel[l][i]
      /\ channel'[l][n + 1] = job
  BY AppendEntries, Versions DEF IInv
<1>2. \A i \in 1..(n + 1) : i \in 1..n \/ i = n + 1 BY <1>1
<1>3. \A i \in 1..n : channel[l][i].version \in Nat /\ channel[l][i].version <= job.version
  BY Versions DEF IInv, OrderOK
<1>4. job.version \in Nat /\ last[l].version \in Nat /\ last[l].version <= job.version
  BY Versions DEF IInv, OrderOK
<1>5. \A i \in 1..(n + 1) : /\ last[l].version <= channel'[l][i].version
                            /\ channel'[l][i].version <= job.version
  BY <1>1, <1>2, <1>3, <1>4 DEF IInv, OrderOK
<1>6. \A i, k \in 1..(n + 1) : i <= k => channel'[l][i].version <= channel'[l][k].version
  BY <1>1, <1>2, <1>3, <1>4 DEF IInv, OrderOK
<1>7. OrderOK(l)' BY <1>1, <1>4, <1>5, <1>6 DEF IInv, OrderOK
<1> QED BY <1>1, <1>7

(* One entry less, the oldest, leaves the rest in order, and its last.     *)
LEMMA OrderTail ==
  ASSUME IInv, NEW l \in Listener, channel[l] # <<>>, channel'[l] = Tail(channel[l]),
         UNCHANGED job, last'[l] \in {last[l], Head(channel[l])}
  PROVE  /\ OrderOK(l)'
         /\ last'[l].version >= last[l].version
         /\ Len(channel'[l]) + 1 = Len(channel[l])
         /\ Len(channel[l]) > 1 => channel'[l][Len(channel'[l])] = channel[l][Len(channel[l])]
<1> DEFINE n == Len(channel[l])
<1>1. /\ n \in Nat \ {0} /\ Len(channel'[l]) = n - 1
      /\ \A i \in 1..(n - 1) : channel'[l][i] = channel[l][i + 1] /\ i + 1 \in 1..n
      /\ Head(channel[l]) = channel[l][1] /\ 1 \in 1..n
  BY TailEntries, Versions DEF IInv
<1>2. \A i \in 1..n : /\ channel[l][i].version \in Nat /\ channel[l][i].version <= job.version
                      /\ channel[l][1].version <= channel[l][i].version
                      /\ last[l].version <= channel[l][i].version
  BY <1>1, Versions DEF IInv, OrderOK
<1>3. job.version \in Nat /\ last[l].version \in Nat /\ last[l].version <= job.version
  BY Versions DEF IInv, OrderOK
<1>4. last'[l].version \in {last[l].version, channel[l][1].version} BY <1>1
<1>5. \A i \in 1..(n - 1) : /\ last'[l].version <= channel'[l][i].version
                            /\ channel'[l][i].version <= job.version
  BY <1>1, <1>2, <1>3, <1>4
<1>6. \A i, k \in 1..(n - 1) : i <= k => channel'[l][i].version <= channel'[l][k].version
  BY <1>1 DEF IInv, OrderOK
<1>7. OrderOK(l)' BY <1>1, <1>2, <1>3, <1>4, <1>5, <1>6 DEF OrderOK
<1>8. n > 1 => channel'[l][n - 1] = channel[l][n] BY <1>1
<1>9. last'[l].version >= last[l].version BY <1>1, <1>2, <1>3, <1>4
<1> QED BY <1>1, <1>7, <1>8, <1>9

(* A step for listener l: l by parts, the others by Frame.                 *)
LEMMA Whole ==
  ASSUME IInv, NEW l \in Listener, TypeOK', PublisherOK', OrderOK(l)', EndOK(l)',
         UNCHANGED <<job, phase>>,
         \A k \in Listener \ {l} :
           /\ UNCHANGED <<channel[k], reader[k], last[k]>>
           /\ (k \in subscribers => k \in subscribers') /\ (k \in batch => k \in batch')
           /\ (k \in closed <=> k \in closed') /\ (k \in behind => k \in behind')
  PROVE  IInv'
<1>1. \A k \in Listener \ {l} : OrderOK(k)' /\ EndOK(k)' BY Frame DEF IInv
<1> QED BY <1>1 DEF IInv

(* A change on the way is offered to a listener.                           *)
LEMMA OfferInv == ASSUME IInv, NEW l \in Listener, Offer(l) PROVE IInv'
<1> USE DEF Offer, client
<1>1. CASE Len(channel[l]) < ChannelCap
  <2>1. channel' = [channel EXCEPT ![l] = Append(channel[l], job)] BY <1>1
  <2>2. channel'[l] = Append(channel[l], job) /\ Append(channel[l], job) \in Seq(Jobs)
    BY <2>1, Versions, AppendEntries DEF IInv, TypeOK
  <2>3. OrderOK(l)' /\ Len(channel'[l]) = Len(channel[l]) + 1 BY <2>2, OrderAppend
  <2>4. TypeOK' BY <1>1, <2>1, <2>2, <2>3, Versions, ConstantsOK DEF IInv, TypeOK, PublisherOK, Over
  <2>5. PublisherOK' BY DEF IInv, PublisherOK
  <2>6. EndOK(l)' BY DEF IInv, EndOK, PublisherOK
  <2> QED BY <2>1, <2>3, <2>4, <2>5, <2>6, Whole DEF IInv, TypeOK
<1>2. CASE ~(Len(channel[l]) < ChannelCap)
  <2>1. channel' = channel BY <1>2
  <2>2. TypeOK' BY <2>1 DEF IInv, TypeOK, PublisherOK
  <2>3. PublisherOK' BY DEF IInv, PublisherOK
  <2>4. EndOK(l)' BY <2>1 DEF IInv, EndOK, PublisherOK
  <2>5. OrderOK(l)' BY <2>1 DEF IInv, OrderOK
  <2> QED BY <2>1, <2>2, <2>3, <2>4, <2>5, Whole
<1> QED BY <1>1, <1>2

(* The last event goes into the channel, which is closed.                  *)
LEMMA ForceSendInv == ASSUME IInv, NEW l \in Listener, ForceSend(l) PROVE IInv'
<1> USE DEF ForceSend, Close, client
<1>1. channel' = [channel EXCEPT ![l] = Append(channel[l], job)] OBVIOUS
<1>2. channel'[l] = Append(channel[l], job) /\ Append(channel[l], job) \in Seq(Jobs)
  BY <1>1, Versions, AppendEntries DEF IInv, TypeOK
<1>3. /\ OrderOK(l)' /\ Len(channel'[l]) = Len(channel[l]) + 1
      /\ Len(channel'[l]) > 0 /\ channel'[l][Len(channel'[l])] = job
  BY <1>2, OrderAppend
<1>4. TypeOK' BY <1>1, <1>2, <1>3, Versions, ConstantsOK DEF IInv, TypeOK
<1>5. PublisherOK' BY DEF IInv, PublisherOK
<1>6. EndOK(l)' BY <1>3 DEF IInv, EndOK, PublisherOK, Over
<1> QED BY <1>1, <1>3, <1>4, <1>5, <1>6, Whole DEF IInv, TypeOK

(* The channel is full: its listener is remembered.                        *)
LEMMA ForceFullInv == ASSUME IInv, NEW l \in Listener, ForceFull(l) PROVE IInv'
<1> USE DEF ForceFull, client
<1>1. TypeOK' BY DEF IInv, TypeOK
<1>2. PublisherOK' BY DEF IInv, PublisherOK
<1>3. OrderOK(l)' BY DEF IInv, OrderOK
<1>4. EndOK(l)' BY DEF IInv, EndOK, Over
<1> QED BY <1>1, <1>2, <1>3, <1>4, Whole

(* The oldest event is discarded, or the channel found empty and closed.   *)
LEMMA ForceDrainInv == ASSUME IInv, NEW l \in Listener, ForceDrain(l) PROVE IInv'
<1>0. /\ l \in forcing /\ forcing' = {} /\ UNCHANGED <<job, subscribers, phase, reader, last, behind>>
      /\ \/ channel[l] # <<>> /\ channel' = [channel EXCEPT ![l] = Tail(channel[l])] /\ UNCHANGED <<batch, closed>>
         \/ channel[l] = <<>> /\ closed' = closed \cup {l} /\ batch' = batch \ {l} /\ UNCHANGED channel
  BY DEF ForceDrain, Close, client
<1>1. l \in batch /\ l \in behind BY <1>0 DEF IInv, TypeOK, PublisherOK
<1>2. CASE channel[l] # <<>> /\ channel' = [channel EXCEPT ![l] = Tail(channel[l])] /\ UNCHANGED <<batch, closed>>
  <2>1. channel'[l] = Tail(channel[l]) /\ Tail(channel[l]) \in Seq(Jobs)
    BY <1>2, Versions, TailEntries DEF IInv, TypeOK
  <2>2. OrderOK(l)' /\ Len(channel'[l]) + 1 = Len(channel[l]) BY <1>0, <1>2, <2>1, OrderTail
  <2>3. TypeOK'
    <3>1. channel' \in [Listener -> Seq(Jobs)] BY <1>2, <2>1 DEF IInv, TypeOK
    <3>2. \A k \in Listener : Len(channel'[k]) <= ChannelCap
      BY <1>2, <2>1, <2>2, Versions, ConstantsOK DEF IInv, TypeOK
    <3> QED BY <1>0, <1>2, <3>1, <3>2 DEF IInv, TypeOK
  <2>4. PublisherOK' BY <1>0, <1>2 DEF IInv, PublisherOK
  <2>5. EndOK(l)' BY <1>0, <1>1, <1>2 DEF IInv, EndOK, Over
  <2> QED BY <1>0, <1>2, <2>2, <2>3, <2>4, <2>5, Whole DEF IInv, TypeOK
<1>3. CASE channel[l] = <<>> /\ closed' = closed \cup {l} /\ batch' = batch \ {l} /\ UNCHANGED channel
  <2>1. TypeOK' BY <1>0, <1>3 DEF IInv, TypeOK
  <2>2. PublisherOK' BY <1>0, <1>1, <1>3 DEF IInv, PublisherOK
  <2>3. OrderOK(l)' BY <1>0, <1>3 DEF IInv, OrderOK
  <2>4. EndOK(l)' BY <1>0, <1>1, <1>3 DEF IInv, EndOK
  <2> QED BY <1>0, <1>3, <2>1, <2>2, <2>3, <2>4, Whole
<1> QED BY <1>0, <1>2, <1>3

(* A request subscribes, or gets a channel that is closed already.         *)
LEMMA SubscribeInv == ASSUME IInv, NEW l \in Listener, Subscribe(l) PROVE IInv'
<1> USE DEF Subscribe, published
<1>1. channel' = [channel EXCEPT ![l] = <<job>>] /\ reader' = [reader EXCEPT ![l] = "reading"]
  OBVIOUS
<1>2. <<job>> \in Seq(Jobs) /\ Len(<<job>>) = 1 /\ <<job>>[1] = job BY Versions DEF IInv
<1>3. channel'[l] = <<job>> /\ reader'[l] = "reading" BY <1>1 DEF IInv, TypeOK
<1>4. TypeOK' BY <1>1, <1>2, <1>3, ConstantsOK DEF IInv, TypeOK
<1>5. PublisherOK' BY DEF IInv, PublisherOK
<1>6. OrderOK(l)'
  <2>1. \A i \in 1..1 : i = 1 OBVIOUS
  <2>2. job.version \in Nat /\ last[l].version \in Nat /\ last[l].version <= job.version
    BY Versions DEF IInv, OrderOK
  <2> QED BY <1>2, <1>3, <2>1, <2>2 DEF OrderOK
<1>7. EndOK(l)'
  <2>1. CASE Over(job) BY <1>2, <1>3, <2>1 DEF EndOK
  <2>2. CASE ~Over(job) BY <1>3, <2>2 DEF IInv, EndOK, PublisherOK
  <2> QED BY <2>1, <2>2
<1> QED BY <1>1, <1>4, <1>5, <1>6, <1>7, Whole DEF IInv, TypeOK

(* A request writes one event; a terminal one ends the stream.             *)
LEMMA ReceiveInv ==
  ASSUME IInv, NEW l \in Listener, Receive(l)
  PROVE  IInv' /\ \A k \in Listener : last'[k].version >= last[k].version
<1> DEFINE e == Head(channel[l])
<1>1. /\ channel[l] # <<>> /\ channel' = [channel EXCEPT ![l] = Tail(channel[l])]
      /\ last' = [last EXCEPT ![l] = e] /\ reader[l] = "reading"
      /\ UNCHANGED <<job, phase, batch, forcing, closed, behind>>
      /\ IF Over(e) THEN reader' = [reader EXCEPT ![l] = "over"] /\ subscribers' = subscribers \ {l}
                    ELSE UNCHANGED <<reader, subscribers>>
  BY DEF Receive, published
<1>2. /\ channel'[l] = Tail(channel[l]) /\ Tail(channel[l]) \in Seq(Jobs)
      /\ e \in Jobs /\ last'[l] = e /\ e = channel[l][1] /\ Len(channel[l]) \in Nat \ {0}
  BY <1>1, Versions, TailEntries DEF IInv, TypeOK
<1>3. /\ OrderOK(l)' /\ Len(channel'[l]) + 1 = Len(channel[l]) /\ Len(channel'[l]) \in Nat
      /\ last'[l].version >= last[l].version
      /\ Len(channel[l]) > 1 => channel'[l][Len(channel'[l])] = channel[l][Len(channel[l])]
  BY <1>1, <1>2, OrderTail, Versions DEF IInv
<1> HIDE DEF e
<1>4. TypeOK'
  <2>1. channel' \in [Listener -> Seq(Jobs)] BY <1>1, <1>2 DEF IInv, TypeOK
  <2>2. \A k \in Listener : Len(channel'[k]) <= ChannelCap
    BY <1>1, <1>3, Versions, ConstantsOK DEF IInv, TypeOK
  <2> QED BY <1>1, <1>2, <2>1, <2>2 DEF IInv, TypeOK
<1>5. PublisherOK' BY <1>1 DEF IInv, PublisherOK
<1>6. EndOK(l)'
  <2>1. CASE Over(e)
    <3>1. reader'[l] = "over" BY <1>1, <2>1 DEF IInv, TypeOK
    <3> QED BY <1>2, <2>1, <3>1 DEF EndOK
  <2>2. CASE ~Over(e)
    <3>1. reader' = reader /\ subscribers' = subscribers BY <1>1, <2>2
    <3>2. l \in closed /\ l \notin behind => Len(channel'[l]) > 0 /\ Over(channel'[l][Len(channel'[l])])
      <4>1. l \in closed /\ l \notin behind => Over(channel[l][Len(channel[l])])
        BY <1>1 DEF IInv, EndOK
      <4>2. l \in closed /\ l \notin behind => Len(channel[l]) # 1 BY <1>2, <2>2, <4>1
      <4>3. \A n \in Nat \ {0} : n = 1 \/ n > 1 OBVIOUS
      <4>4. Len(channel[l]) = 1 \/ Len(channel[l]) > 1 BY <1>2, <4>3
      <4>5. Len(channel'[l]) > 0 <=> Len(channel[l]) > 1 BY <1>3
      <4> QED BY <1>3, <4>1, <4>2, <4>4, <4>5
    <3> QED BY <1>1, <3>1, <3>2 DEF IInv, EndOK
  <2> QED BY <2>1, <2>2
<1>7. IInv' BY <1>1, <1>3, <1>4, <1>5, <1>6, Whole DEF IInv, TypeOK
<1>8. \A k \in Listener \ {l} : last'[k].version >= last[k].version
  BY <1>1, Versions DEF IInv, TypeOK
<1> QED BY <1>3, <1>7, <1>8

(* A request returns: its channel is closed and empty, or its client left. *)
LEMMA EndOfStreamInv == ASSUME IInv, NEW l \in Listener, EndOfStream(l) PROVE IInv'
<1> USE DEF EndOfStream, published
<1>1. TypeOK' BY DEF IInv, TypeOK
<1>2. PublisherOK' BY DEF IInv, PublisherOK
<1>3. OrderOK(l)' BY DEF IInv, OrderOK
<1>4. Len(channel[l]) = 0 OBVIOUS
<1>5. l \in behind BY <1>4 DEF IInv, EndOK
<1>6. EndOK(l)' BY <1>5 DEF IInv, TypeOK, EndOK
<1> QED BY <1>1, <1>2, <1>3, <1>6, Whole DEF IInv, TypeOK

LEMMA DisconnectInv == ASSUME IInv, NEW l \in Listener, Disconnect(l) PROVE IInv'
<1> USE DEF Disconnect, published
<1>1. TypeOK' BY DEF IInv, TypeOK
<1>2. PublisherOK' BY DEF IInv, PublisherOK
<1>3. OrderOK(l)' BY DEF IInv, OrderOK
<1>4. EndOK(l)' BY DEF IInv, TypeOK, EndOK
<1> QED BY <1>1, <1>2, <1>3, <1>4, Whole DEF IInv, TypeOK

(* Every step preserves IInv, and no client is shown an older event.       *)
LEMMA NextInv ==
  ASSUME IInv, [Next]_vars
  PROVE  IInv' /\ \A l \in Listener : last'[l].version >= last[l].version
<1>1. last' = last => \A l \in Listener : last'[l].version >= last[l].version
  BY Versions DEF IInv
<1>2. CASE UNCHANGED vars
  BY <1>1, <1>2 DEF vars, published, client, IInv, TypeOK, PublisherOK, OrderOK, EndOK, Over
<1>3. CASE Change BY <1>1, <1>3, ChangeInv DEF Change, client
<1>4. CASE PersistFails BY <1>1, <1>4, PersistFailsInv DEF PersistFails, client
<1>5. CASE Emit BY <1>1, <1>5, EmitInv DEF Emit, client
<1>6. CASE Emitted BY <1>1, <1>6, EmittedInv DEF Emitted, client
<1>7. ASSUME NEW l \in Listener, Sending(l)
      PROVE  IInv' /\ \A k \in Listener : last'[k].version >= last[k].version
  <2>1. last' = last BY <1>7 DEF Sending, Offer, ForceSend, ForceFull, ForceDrain, client
  <2>2. IInv' BY <1>7, OfferInv, ForceSendInv, ForceFullInv, ForceDrainInv DEF Sending
  <2> QED BY <1>1, <2>1, <2>2
<1>8. ASSUME NEW l \in Listener, Subscribe(l) \/ EndOfStream(l) \/ Disconnect(l)
      PROVE  IInv' /\ \A k \in Listener : last'[k].version >= last[k].version
  <2>1. last' = last BY <1>8 DEF Subscribe, EndOfStream, Disconnect
  <2>2. IInv' BY <1>8, SubscribeInv, EndOfStreamInv, DisconnectInv
  <2> QED BY <1>1, <2>1, <2>2
<1>9. ASSUME NEW l \in Listener, Receive(l)
      PROVE  IInv' /\ \A k \in Listener : last'[k].version >= last[k].version
  BY <1>9, ReceiveInv
<1> QED BY <1>2, <1>3, <1>4, <1>5, <1>6, <1>7, <1>8, <1>9 DEF Next, Tell, Reading

-----------------------------------------------------------------------------
(* IInv holds in every reachable state. *)
THEOREM Invariance == Spec => []IInv
<1>1. IInv /\ [Next]_vars => IInv' BY NextInv
<1> QED BY <1>1, InitInv, PTL DEF Spec

(* TypeOK: among others, no channel ever holds more than its capacity.     *)
THEOREM TypeCorrect == Spec => []TypeOK
<1>1. IInv => TypeOK BY DEF IInv
<1> QED BY <1>1, Invariance, PTL

(* NobodyLeftBehind: after the last event nobody is listed, and whoever     *)
(* reads has a closed channel.                                             *)
THEOREM EverybodyIsClosed == Spec => []NobodyLeftBehind
<1>1. IInv => NobodyLeftBehind BY DEF IInv, PublisherOK, EndOK, NobodyLeftBehind
<1> QED BY <1>1, Invariance, PTL

(* LastWordDelivered: a stream that ends has carried the job's end, unless  *)
(* forceSend once found its channel full.                                  *)
THEOREM LastWordArrives == Spec => []LastWordDelivered
<1>1. IInv => LastWordDelivered BY DEF IInv, EndOK, LastWordDelivered
<1> QED BY <1>1, Invariance, PTL

(* EventsInOrder: no client sees the job go backwards. *)
THEOREM OrderIsKept == Spec => EventsInOrder
<1>1. IInv /\ [Next]_vars => [\A l \in Listener : last'[l].version >= last[l].version]_last
  BY NextInv
<1> QED BY <1>1, Invariance, PTL DEF Spec, EventsInOrder
=============================================================================
