------------------------------ MODULE JobEvents ------------------------------
(***************************************************************************)
(* How one backup job tells its listeners about its changes:               *)
(* Service.Subscribe, emit and forceSend (internal/app/backup/service.go)  *)
(* and the reader of an event stream, streamSSE (http.go).                 *)
(*                                                                         *)
(* The job changes under rt.mu; the change is written to the database and  *)
(* only then sent, to a copy of the subscriber list, outside the lock.     *)
(* While the progress goroutine sends, run waits for it, so the job has    *)
(* one publisher at a time and a change is sent before the next is made.   *)
(* A job is its version number, counting status changes and progress       *)
(* updates alike, and whether it is active, done, or over some other way.  *)
(***************************************************************************)
EXTENDS Naturals, Sequences

CONSTANTS Listener,    \* event-stream requests
          MaxVersion,  \* bound: changes of the job, its terminal one included
          ChannelCap,  \* capacity of a listener's channel (8 in the code)
          FaultyStore  \* whether a write of the job's row may fail

ASSUME ConstantsOK ==
  /\ MaxVersion \in Nat \ {0}
  /\ ChannelCap \in Nat \ {0}
  /\ FaultyStore \in BOOLEAN

VARIABLES
  job,          \* rt.job: its version, and whether it is over
  subscribers,  \* rt.subscribers
  phase,        \* the publisher: idle, changed, sending, over, or muted (over, untold)
  batch,        \* emit's copy of the list, the part still to be served
  forcing,      \* the listeners forceSend has found full: none or one
  channel,      \* the buffer of each listener's channel
  closed,       \* the channels that are closed
  reader,       \* each request: away, reading, over (returned) or left
  last,         \* the last job each request has written to its client
  behind        \* history: the listeners the last event found with a full channel

published == <<phase, batch, forcing>>
client    == <<reader, last>>
vars      == <<job, subscribers, published, channel, closed, client, behind>>

Jobs == [version : 0..MaxVersion, status : {"active", "done", "failed"}]
First == [version |-> 0, status |-> "active"]

Over(j) == j.status # "active"   \* Status.Terminal()

TypeOK ==
  /\ job \in Jobs
  /\ subscribers \subseteq Listener
  /\ phase \in {"idle", "changed", "sending", "over", "muted"}
  /\ batch \subseteq Listener
  /\ forcing \subseteq batch
  /\ channel \in [Listener -> Seq(Jobs)] /\ \A l \in Listener : Len(channel[l]) <= ChannelCap
  /\ closed \subseteq Listener
  /\ reader \in [Listener -> {"away", "reading", "over", "left"}]
  /\ last \in [Listener -> Jobs]
  /\ behind \subseteq Listener

Init ==
  /\ job = First
  /\ subscribers = {}
  /\ phase = "idle"
  /\ batch = {}
  /\ forcing = {}
  /\ channel = [l \in Listener |-> <<>>]
  /\ closed = {}
  /\ reader = [l \in Listener |-> "away"]
  /\ last = [l \in Listener |-> First]
  /\ behind = {}

-----------------------------------------------------------------------------
(* The publisher: setStatus, finish and the progress goroutine. *)

(* The locked change; a job that is over never changes. *)
Change ==
  /\ phase = "idle" /\ ~Over(job)
  /\ \E s \in {"active", "done", "failed"} :
       /\ job.version + 1 = MaxVersion => s # "active"
       /\ job' = [version |-> job.version + 1, status |-> s]
  /\ phase' = "changed"
  /\ UNCHANGED <<subscribers, batch, forcing, channel, closed, client, behind>>

(* setStatus's write fails.  For a status on the way, fail() makes and     *)
(* sends a terminal change instead; for "done", finish finds the job       *)
(* terminal and returns, and so does run.  A failed write of finish or of  *)
(* the progress goroutine is ignored: the event goes out all the same.     *)
PersistFails ==
  /\ phase = "changed" /\ FaultyStore
  /\ \/ /\ job.status = "active"
        /\ job' = [version |-> job.version + 1, status |-> "failed"]
        /\ UNCHANGED phase
     \/ /\ job.status = "done"
        /\ phase' = "muted"
        /\ UNCHANGED job
  /\ UNCHANGED <<subscribers, batch, forcing, channel, closed, client, behind>>

(* emit, the locked part: copy the list, and clear it for the last event. *)
Emit ==
  /\ phase = "changed"
  /\ phase' = "sending"
  /\ batch' = subscribers
  /\ subscribers' = IF Over(job) THEN {} ELSE subscribers
  /\ UNCHANGED <<job, forcing, channel, closed, client, behind>>

(* A change on the way: send if there is room, else drop it. *)
Offer(l) ==
  /\ phase = "sending" /\ l \in batch /\ ~Over(job)
  /\ batch' = batch \ {l}
  /\ channel' = IF Len(channel[l]) < ChannelCap
                THEN [channel EXCEPT ![l] = Append(@, job)] ELSE channel
  /\ UNCHANGED <<job, subscribers, phase, forcing, closed, client, behind>>

(* Mutant: the channel is forgotten without being closed. *)
Forgotten(l) ==
  /\ closed' = closed
  /\ batch' = batch \ {l}

Close(l) ==
  /\ closed' = closed \cup {l}
  /\ batch' = batch \ {l}

(* Mutant: the channel is closed before the event is in it. *)
CloseUnsent(l) ==
  /\ phase = "sending" /\ l \in batch /\ Over(job)
  /\ forcing = {}
  /\ Len(channel[l]) < ChannelCap
  /\ Close(l)
  /\ UNCHANGED <<job, subscribers, phase, forcing, channel, client, behind>>

(* forceSend, the outer select: the event fits. *)
ForceSend(l) ==
  /\ phase = "sending" /\ l \in batch /\ Over(job)
  /\ forcing = {}
  /\ Len(channel[l]) < ChannelCap
  /\ channel' = [channel EXCEPT ![l] = Append(@, job)]
  /\ Close(l)
  /\ UNCHANGED <<job, subscribers, phase, forcing, client, behind>>

(* forceSend, the outer select's default: the channel is full. *)
ForceFull(l) ==
  /\ phase = "sending" /\ l \in batch /\ Over(job)
  /\ forcing = {}
  /\ Len(channel[l]) = ChannelCap
  /\ forcing' = {l}
  /\ behind' = behind \cup {l}
  /\ UNCHANGED <<job, subscribers, phase, batch, channel, closed, client>>

(* Mutant: the oldest event is put back behind the others. *)
ForceRotate(l) ==
  /\ l \in forcing
  /\ forcing' = {}
  /\ channel[l] # <<>>
  /\ channel' = [channel EXCEPT ![l] = Append(Tail(@), Head(@))]
  /\ UNCHANGED <<batch, closed, job, subscribers, phase, client, behind>>

(* forceSend, the inner select: discard the oldest event and try again, or, *)
(* if the reader has emptied the channel since, give up.                    *)
ForceDrain(l) ==
  /\ l \in forcing
  /\ forcing' = {}
  /\ \/ /\ channel[l] # <<>>
        /\ channel' = [channel EXCEPT ![l] = Tail(@)]
        /\ UNCHANGED <<batch, closed>>
     \/ /\ channel[l] = <<>>
        /\ Close(l)
        /\ UNCHANGED channel
  /\ UNCHANGED <<job, subscribers, phase, client, behind>>

(* emit returns; after the last event so does run. *)
Emitted ==
  /\ phase = "sending" /\ batch = {}
  /\ phase' = IF Over(job) THEN "over" ELSE "idle"
  /\ UNCHANGED <<job, subscribers, batch, forcing, channel, closed, client, behind>>

-----------------------------------------------------------------------------
(* The event-stream request. *)

(* Mutant: a request is listed without a look at the job's status. *)
SubscribeAlways(l) ==
  /\ reader[l] = "away"
  /\ reader' = [reader EXCEPT ![l] = "reading"]
  /\ channel' = [channel EXCEPT ![l] = <<job>>]
  /\ subscribers' = subscribers \cup {l}
  /\ UNCHANGED <<job, published, closed, last, behind>>

(* Subscribe, under rt.mu: the current job first; a terminal job comes in  *)
(* a closed channel of its own, never listed.  Get, just before it, sees   *)
(* the same job or an earlier one and, if that is terminal, the request    *)
(* writes it itself: the same event.                                       *)
Subscribe(l) ==
  /\ reader[l] = "away"
  /\ reader' = [reader EXCEPT ![l] = "reading"]
  /\ channel' = [channel EXCEPT ![l] = <<job>>]
  /\ IF Over(job)
     THEN closed' = closed \cup {l} /\ UNCHANGED subscribers
     ELSE subscribers' = subscribers \cup {l} /\ UNCHANGED closed
  /\ UNCHANGED <<job, published, last, behind>>

(* Receive and write one event; a terminal one ends the stream, and the    *)
(* deferred unsub takes the request off the list.                          *)
Receive(l) ==
  /\ reader[l] = "reading" /\ channel[l] # <<>>
  /\ channel' = [channel EXCEPT ![l] = Tail(@)]
  /\ last' = [last EXCEPT ![l] = Head(channel[l])]
  /\ IF Over(Head(channel[l]))
     THEN /\ reader' = [reader EXCEPT ![l] = "over"]
          /\ subscribers' = subscribers \ {l}
     ELSE UNCHANGED <<reader, subscribers>>
  /\ UNCHANGED <<job, published, closed, behind>>

(* The channel is closed and empty. *)
EndOfStream(l) ==
  /\ reader[l] = "reading" /\ channel[l] = <<>> /\ l \in closed
  /\ reader' = [reader EXCEPT ![l] = "over"]
  /\ subscribers' = subscribers \ {l}
  /\ UNCHANGED <<job, published, channel, closed, last, behind>>

(* The client goes away. *)
Disconnect(l) ==
  /\ reader[l] = "reading"
  /\ reader' = [reader EXCEPT ![l] = "left"]
  /\ subscribers' = subscribers \ {l}
  /\ UNCHANGED <<job, published, channel, closed, last, behind>>

-----------------------------------------------------------------------------
Sending(l) == Offer(l) \/ ForceSend(l) \/ ForceFull(l) \/ ForceDrain(l)

(* Telling the listeners of the change that has been made. *)
Tell == PersistFails \/ Emit \/ Emitted \/ \E l \in Listener : Sending(l)

Reading(l) == Receive(l) \/ EndOfStream(l)

Next ==
  \/ Change \/ Tell
  \/ \E l \in Listener : Subscribe(l) \/ Reading(l) \/ Disconnect(l)

(* A goroutine that can tell of a change does, and a connected request that *)
(* can read does.  The job owes no change: one that waits for a package in  *)
(* the sidecar's directory may wait for ever (sidecar.go:138-188).  Nobody  *)
(* has to subscribe or to go away.                                          *)
Spec == Init /\ [][Next]_vars /\ WF_vars(Tell) /\ \A l \in Listener : WF_vars(Reading(l))

-----------------------------------------------------------------------------
(* A client never sees the job go backwards: an event is never older than   *)
(* the one written before it, though the list is copied and the sends made  *)
(* outside rt.mu (service.go:545-564).                                      *)
EventsInOrder == [][\A l \in Listener : last'[l].version >= last[l].version]_last

(* Once the last event is out nobody is still listed, and every channel     *)
(* handed out to a request that still reads is closed: no request slips in  *)
(* between the last change and the last emit (service.go:264-277, 545-564). *)
NobodyLeftBehind ==
  phase = "over" =>
    /\ subscribers = {}
    /\ \A l \in Listener : reader[l] = "reading" => l \in closed

(* Once the job is over, every stream ends: however far behind a listener   *)
(* is, the last event or the closing of its channel gets to each one that   *)
(* stays connected, whether it was listed before the end or asks after it   *)
(* (service.go:257-276, 545-578).  A job may never be over, and then its    *)
(* streams stay open.  A refused write of "done", after which nothing is    *)
(* sent or closed, excuses the streams of a job that is.                    *)
StreamEnds ==
  \A l \in Listener :
    reader[l] = "reading" /\ Over(job) ~> reader[l] # "reading" \/ phase = "muted"

(* A stream that ends has carried the job's terminal status, as             *)
(* TestHTTPSSEProgress reads it (http_test.go:121-127), to every reader     *)
(* whose channel had room for it.  (A full channel that is emptied between  *)
(* forceSend's two selects is closed without it, service.go:572-575.)       *)
LastWordDelivered == \A l \in Listener : reader[l] = "over" => Over(last[l]) \/ l \in behind
=============================================================================
