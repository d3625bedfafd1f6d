----------------------------- MODULE Connection -----------------------------
(***************************************************************************)
(* One WebSocket connection and the session behind it (runtime/app.py with *)
(* the run loop of core/session.py): the receive loop that only decodes    *)
(* and queues, the heartbeat, the reader and the client pump of the        *)
(* session, the task that runs the session and tears it down, and the      *)
(* close sequence, which is a task of its own.                             *)
(*                                                                         *)
(* What the handlers of the session do is left out: the client pump is     *)
(* busy with an item for any time, or for ever, and any pump may close the *)
(* session or end.  Time is abstracted: a connection may be found stale    *)
(* once nothing comes in, and five seconds may pass whenever the session   *)
(* waits for something that can take that long.                            *)
(***************************************************************************)
EXTENDS Naturals, FiniteSets, SequencesExt

CONSTANTS
  QueueMax,   \* INBOUND_QUEUE_MAX
  MaxItems    \* bound: frames and messages the client sends

ASSUME BoundsAreNat == QueueMax \in Nat \ {0} /\ MaxItems \in Nat

VARIABLES
  \* --- transport and receive loop
  client,       \* the peer: it is there, has fallen silent, or its socket is gone
  handler,      \* where the receive loop and what follows it stand
  heartbeat,    \* does the heartbeat task go on?
  shut,         \* WsTransport.closed
  queue,        \* the transport's queue
  accepted,     \* what the receive loop queued (history)
  dropped,      \* dropped_audio_frames
  \* --- session
  run,          \* the task that runs the session
  pump,         \* its client pump
  otherEnded,   \* another of its pumps has ended
  inbox,        \* the items its reader has taken
  handled,      \* the items the client pump has taken (history)
  closing,      \* the close sequence
  began,        \* the session was started (history)
  record        \* the session has its interaction record

transport == <<client, handler, heartbeat, shut, queue, accepted, dropped>>
session   == <<run, pump, otherEnded, inbox, handled, closing, began, record>>
vars == <<transport, session>>

\* A control message or an audio frame with its number; the end of the input.
Items == [kind : {"audio", "control"}, n : 1..MaxItems]
End == [kind |-> "end", n |-> 0]

TypeOK ==
  /\ client \in {"here", "silent", "gone"}
  /\ handler \in {"receiving", "waiting", "cancelling", "returned"}
  /\ heartbeat \in BOOLEAN /\ shut \in BOOLEAN
  /\ queue \in Seq(Items \cup {End})
  /\ accepted \in Seq(Items)
  /\ dropped \in 0..MaxItems
  /\ run \in {"starting", "running", "ending", "teardown", "failing", "done"}
  /\ pump \in {"idle", "busy", "closing", "ended"}
  /\ otherEnded \in BOOLEAN
  /\ inbox \in Seq(Items \cup {End})
  /\ handled \in Seq(Items \cup {End})
  /\ closing \in {"none", "running", "recorded", "done", "failed", "cut"}
  /\ began \in BOOLEAN /\ record \in BOOLEAN

Init ==
  /\ client = "here" /\ handler = "receiving" /\ heartbeat = TRUE /\ shut = FALSE
  /\ queue = <<>> /\ accepted = <<>> /\ dropped = 0
  /\ run = "starting" /\ pump = "idle" /\ otherEnded = FALSE
  /\ inbox = <<>> /\ handled = <<>>
  /\ closing = "none" /\ began = FALSE /\ record = FALSE

-----------------------------------------------------------------------------
(***************************************************************************)
(* The transport                                                           *)
(***************************************************************************)
AudioIn(q) == {i \in DOMAIN q : q[i].kind = "audio"}

\* Fault seeded below: a full queue drops what has waited longest.
Room_Oldest(q) ==
  IF Len(q) < QueueMax THEN q ELSE Tail(q)

\* Fault seeded below: the queue is full one item later.
Room_OffByOne(q) ==
  IF Len(q) <= QueueMax \/ AudioIn(q) = {} THEN q
  ELSE RemoveAt(q, CHOOSE i \in AudioIn(q) : \A j \in AudioIn(q) : i <= j)

\* push: a full queue drops its oldest audio frame, when it has one, and takes the
\* item in any case.
Room(q) ==
  IF Len(q) < QueueMax \/ AudioIn(q) = {} THEN q
  ELSE RemoveAt(q, CHOOSE i \in AudioIn(q) : \A j \in AudioIn(q) : i <= j)

\* The receive loop is left: no more heartbeat, and the end of the input is queued.
LeaveLoop(q) ==
  /\ handler' = "waiting"
  /\ heartbeat' = FALSE
  /\ queue' = Append(q, End)

\* A frame or message; whether the session still runs is looked at after it.  (A pong or
\* an invalid message is answered for on the spot and changes nothing here.)
Receive(kind) ==
  LET item == [kind |-> kind, n |-> Len(accepted) + 1]
      q    == Append(Room(queue), item)
  IN  /\ handler = "receiving" /\ client = "here"
      /\ Len(accepted) < MaxItems
      /\ accepted' = Append(accepted, item)
      /\ dropped' = dropped + (Len(queue) - Len(Room(queue)))
      /\ IF run = "done" THEN LeaveLoop(q)
         ELSE queue' = q /\ UNCHANGED <<handler, heartbeat>>
      /\ UNCHANGED <<client, shut, session>>

\* The disconnection arrives when the peer is gone, and after a close of ours.
ReceiveDisconnect ==
  /\ handler = "receiving"
  /\ client = "gone" \/ shut
  /\ client' = "gone"
  /\ LeaveLoop(queue)
  /\ UNCHANGED <<shut, accepted, dropped, session>>

\* The peer closes its socket, or the network loses it without a word.
ClientLeaves ==
  /\ client # "gone"
  /\ client' \in {"silent", "gone"} \ {client}
  /\ UNCHANGED <<handler, heartbeat, shut, queue, accepted, dropped, session>>

\* The heartbeat closes a connection it finds stale, and stops at a closed one.
HeartbeatStale ==
  /\ heartbeat /\ ~shut
  /\ client # "here"
  /\ shut' = TRUE /\ heartbeat' = FALSE
  /\ UNCHANGED <<client, handler, queue, accepted, dropped, session>>

HeartbeatStops ==
  /\ heartbeat /\ shut
  /\ heartbeat' = FALSE
  /\ UNCHANGED <<client, handler, shut, queue, accepted, dropped, session>>

\* Anything sent to a peer that is gone fails: by the heartbeat, which stops, or by the
\* session, which goes on.
SendFails ==
  /\ client = "gone" /\ ~shut
  /\ heartbeat \/ run \in {"starting", "running"} \/ closing \in {"running", "recorded"}
  /\ shut' = TRUE
  /\ heartbeat' \in {heartbeat, FALSE}
  /\ UNCHANGED <<client, handler, queue, accepted, dropped, session>>

-----------------------------------------------------------------------------
(***************************************************************************)
(* The session                                                             *)
(***************************************************************************)
\* start() opens the provider; nothing is read before it is over.
SessionStarts ==
  /\ run = "starting"
  /\ run' = "running" /\ began' = TRUE
  /\ UNCHANGED <<transport, pump, otherEnded, inbox, handled, closing, record>>

StartFails ==
  /\ run = "starting"
  /\ run' = "failing"
  /\ UNCHANGED <<transport, pump, otherEnded, inbox, handled, closing, began, record>>

PumpsLive == run \in {"running", "ending"}

Over(c) == c \in {"done", "failed", "cut"}

\* read_client: from the transport's queue to the session's inbox, which has no bound; it ends
\* with the input, however busy the client pump is.
ReaderTakes ==
  /\ PumpsLive
  /\ queue # <<>>
  /\ queue' = Tail(queue)
  /\ inbox' = Append(inbox, Head(queue))
  /\ UNCHANGED <<client, handler, heartbeat, shut, accepted, dropped,
                 run, pump, otherEnded, handled, closing, began, record>>

\* pump_client takes an item; at the end of the input it closes the session.
PumpTakes ==
  /\ PumpsLive
  /\ pump = "idle" /\ inbox # <<>>
  /\ inbox' = Tail(inbox)
  /\ handled' = Append(handled, Head(inbox))
  /\ IF Head(inbox) # End THEN pump' = "busy" /\ UNCHANGED closing
     ELSE IF closing # "none" THEN pump' = "ended" /\ UNCHANGED closing
     ELSE pump' = "closing" /\ closing' = "running"
  /\ UNCHANGED <<transport, run, otherEnded, began, record>>

\* The handler of an item returns, raises, or closes the session; a pump that finds
\* the session closed ends.
PumpGoesOn ==
  /\ PumpsLive
  /\ pump = "busy"
  /\ \/ pump' = (IF closing = "none" THEN "idle" ELSE "ended") /\ UNCHANGED closing
     \/ pump' = "ended" /\ UNCHANGED closing
     \/ /\ pump' = IF record THEN "ended" ELSE "closing"
        /\ closing' = IF closing = "none" THEN "running" ELSE closing
  /\ UNCHANGED <<transport, run, otherEnded, inbox, handled, began, record>>

\* close() is shielded: who called it goes on when the close sequence is over.
PumpClosed ==
  /\ PumpsLive
  /\ pump = "closing" /\ Over(closing)
  /\ pump' = "ended"
  /\ UNCHANGED <<transport, run, otherEnded, inbox, handled, closing, began, record>>

\* The provider pump or the audio pump ends, or closes the session.
OtherPump ==
  /\ PumpsLive /\ ~otherEnded
  /\ \/ otherEnded' = TRUE /\ UNCHANGED closing
     \/ closing = "none" /\ closing' = "running" /\ UNCHANGED otherEnded
  /\ UNCHANGED <<transport, run, pump, inbox, handled, began, record>>

\* Fault seeded below: run() does not wait for its reader.
X_TaskEnded == pump = "ended" \/ otherEnded

\* What run() waits for, the reader among it.
TaskEnded == pump = "ended" \/ otherEnded \/ End \in ToSet(handled \o inbox)

\* run(): the first task that ends brings down the others, after a close.
RunEnds ==
  /\ run = "running" /\ TaskEnded
  /\ IF closing = "none" THEN run' = "ending" /\ closing' = "running"
     ELSE run' = "teardown" /\ UNCHANGED closing
  /\ UNCHANGED <<transport, pump, otherEnded, inbox, handled, began, record>>

RunClosed ==
  /\ run = "ending" /\ Over(closing)
  /\ run' = "teardown"
  /\ UNCHANGED <<transport, pump, otherEnded, inbox, handled, closing, began, record>>

\* The teardown waits for the close sequence; its failure is the session's.
RunReturns ==
  /\ run = "teardown"
  /\ \/ closing \in {"none", "done"} /\ run' = "done"
     \/ closing = "failed" /\ run' = "failing"
  /\ UNCHANGED <<transport, pump, otherEnded, inbox, handled, closing, began, record>>

\* _run_guarded tells the client of the error and closes the transport.
RunFails ==
  /\ run = "failing"
  /\ run' = "done"
  /\ shut' = TRUE
  /\ UNCHANGED <<client, handler, heartbeat, queue, accepted, dropped,
                 pump, otherEnded, inbox, handled, closing, began, record>>

\* _close: the record is there before the sink and the transport are told.
CloseRecords ==
  /\ closing = "running"
  /\ closing' = "recorded" /\ record' = TRUE
  /\ UNCHANGED <<transport, run, pump, otherEnded, inbox, handled, began>>

CloseFinishes ==
  /\ closing = "recorded"
  /\ closing' = "done"
  /\ shut' = TRUE
  /\ UNCHANGED <<client, handler, heartbeat, queue, accepted, dropped,
                 run, pump, otherEnded, inbox, handled, began, record>>

\* The provider or the sink raises.
CloseFails ==
  /\ closing \in {"running", "recorded"}
  /\ closing' = "failed"
  /\ UNCHANGED <<transport, run, pump, otherEnded, inbox, handled, began, record>>

-----------------------------------------------------------------------------
\* What in the session may take five seconds; what is ready to run does not.
Slow ==
  \/ run \in {"starting", "failing"}
  \/ run = "running" /\ pump = "busy" /\ queue = <<>> /\ ~TaskEnded
  \/ run \in {"ending", "teardown"} /\ closing \in {"running", "recorded"}

\* Fault seeded below: the wait for the session has no timeout.
WaitTimesOut_Never == FALSE /\ UNCHANGED vars

\* wait_for gives up after five seconds and cancels the task.  The close() it waits in is
\* shielded, and the teardown then waits for the close sequence; but a teardown that waits
\* already waits for the sequence itself, and takes it along.
WaitTimesOut ==
  /\ handler = "waiting" /\ Slow
  /\ run # "done"
  /\ handler' = "cancelling"
  /\ run' = IF run \in {"running", "ending"} THEN "teardown" ELSE "done"
  /\ closing' = IF run = "teardown" THEN "cut" ELSE closing
  /\ UNCHANGED <<client, heartbeat, shut, queue, accepted, dropped,
                 pump, otherEnded, inbox, handled, began, record>>

\* Fault seeded below: the receive loop's end does not close the transport.
HandlerReturns_Open ==
  /\ handler \in {"waiting", "cancelling"} /\ run = "done"
  /\ handler' = "returned"
  /\ UNCHANGED <<client, heartbeat, shut, queue, accepted, dropped, session>>

HandlerReturns ==
  /\ handler \in {"waiting", "cancelling"} /\ run = "done"
  /\ handler' = "returned"
  /\ shut' = TRUE
  /\ UNCHANGED <<client, heartbeat, queue, accepted, dropped, session>>

-----------------------------------------------------------------------------
Transport ==
  \/ \E kind \in {"audio", "control"} : Receive(kind)
  \/ ReceiveDisconnect \/ ClientLeaves \/ HeartbeatStale \/ HeartbeatStops \/ SendFails
  \/ WaitTimesOut \/ HandlerReturns

Session ==
  \/ SessionStarts \/ StartFails \/ ReaderTakes \/ PumpTakes \/ PumpGoesOn \/ PumpClosed
  \/ OtherPump \/ RunEnds \/ RunClosed \/ RunReturns \/ RunFails
  \/ CloseRecords \/ CloseFinishes \/ CloseFails

Next == Transport \/ Session

Spec == Init /\ [][Next]_vars

\* The event loop runs what is ready and fires its timers, a closed or broken socket is
\* reported, and the close sequence ends one way or the other.  Nothing is assumed of
\* start() and of the handlers of the pumps, which may hang.
FairSpec ==
  /\ Spec
  /\ WF_vars(ReceiveDisconnect) /\ WF_vars(HeartbeatStale)
  /\ WF_vars(WaitTimesOut) /\ WF_vars(HandlerReturns)
  /\ WF_vars(ReaderTakes) /\ WF_vars(PumpTakes) /\ WF_vars(PumpClosed)
  /\ WF_vars(RunEnds) /\ WF_vars(RunClosed) /\ WF_vars(RunReturns) /\ WF_vars(RunFails)
  /\ WF_vars(CloseRecords \/ CloseFinishes \/ CloseFails)

-----------------------------------------------------------------------------
(***************************************************************************)
(* Properties                                                              *)
(***************************************************************************)
\* Everything that has been accepted and not dropped, in the order it will be or has
\* been handled in.
Kept == handled \o inbox \o queue

\* The end of the input has been queued.
Ended == IF handler = "receiving" THEN 0 ELSE 1

\* Whatever the load, control messages reach the session in order, each once and none
\* lost, and an audio frame is lost only by being dropped and counted.
ControlInOrder ==
  /\ \A m \in DOMAIN accepted :
       accepted[m].kind = "control" => \E i \in DOMAIN Kept : Kept[i] = accepted[m]
  /\ \A i, j \in DOMAIN Kept : i < j /\ Kept[i] # End /\ Kept[j] # End => Kept[i].n < Kept[j].n
  /\ Len(Kept) + dropped = Len(accepted) + Ended

\* A queue longer than its limit is so because of control messages: of audio it then
\* holds one frame at most.
BacklogIsControl ==
  Len(queue) > QueueMax + Ended => \A i, j \in AudioIn(queue) : i = j

\* When the handler of a connection returns nothing of it is left behind: the session's
\* task has ended and the transport is closed; and a session whose task has ended has
\* closed the transport or is being waited for.
NothingLeftBehind ==
  /\ handler = "returned" => run = "done" /\ shut /\ ~heartbeat
  /\ run = "done" => shut \/ handler # "receiving"

\* A session that was started leaves no connection without its record, however the peer goes
\* and whatever its pumps hang in, but by a close sequence that raised or was cut off.
StartedIsRecorded ==
  handler = "returned" /\ began => record \/ closing \in {"failed", "cut"}

\* However the peer goes, with a word or without, and whatever the session hangs in, the
\* handler of the connection returns; so it does when the session ends by itself.
HandlerComesBack == (client # "here" \/ run = "done") ~> handler = "returned"

\* --- What the documents say and the code does not do.

\* Every session produces an outcome (QV-OUT-001): one that was started, and whose close
\* sequence did not raise, has its record when its connection is gone.
EverySessionRecorded == handler = "returned" /\ began /\ closing # "failed" => record

=============================================================================
