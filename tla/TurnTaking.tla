----------------------------- MODULE TurnTaking -----------------------------
(***************************************************************************)
(* Turn taking in a live voice session: the dialog machine, the responses  *)
(* the speech-to-speech provider generates, and the interruption protocol  *)
(* that stops the assistant when the user speaks over it.                  *)
(*                                                                         *)
(* Three coroutines of one event loop share this state: the provider pump  *)
(* (provider events), the client pump (user frames, texts and reports) and *)
(* the audio pump (generated audio on its way to the client).  They only   *)
(* lose control at an await that can suspend: a send on a socket, the wait *)
(* for the client's playout report, a tool, and the emission of an event   *)
(* of a type the runtime mirrors to the client (any other event is only    *)
(* appended).  Such an await is a value of clientPc or providerPc; what    *)
(* runs between two of them is one action.                                 *)
(*                                                                         *)
(* Outside the core: the provider generates one response at a time, starts *)
(* one for each request it was sent, and may finish it before it sees a    *)
(* cancellation; the browser plays frames and reports when playout stops.  *)
(* Time is abstracted: a timeout or the end of a clock interval may come   *)
(* at any moment at which the code waits for it or reads the clock.        *)
(***************************************************************************)
EXTENDS DialogMachine, Sequences

CONSTANTS
  MaxResponses,   \* bound: responses the provider may start
  MaxTurns,       \* bound: turns the user may commit
  MaxFrames,      \* bound: audio frames of one response
  MaxTools        \* bound: tool calls the provider may make

ASSUME BoundsAreNat ==
  /\ MaxResponses \in Nat
  /\ MaxTurns \in Nat
  /\ MaxFrames \in Nat
  /\ MaxTools \in Nat

Responses == 1..MaxResponses
NoResponse == 0
Silent == -1      \* the browser plays nothing

VARIABLES
  \* --- the session
  dialog,         \* state of the dialog machine
  cancelled,      \* responses whose track is marked cancelled
  done,           \* responses whose track is marked done
  voiced,         \* responses with audio_ms_sent > 0
  current,        \* _current_response
  audible,        \* _audible
  playoutStopped, \* the _playout_stopped event is set
  interruptions,  \* responses of the interruption records, in order
  turnNo,         \* _turn_no
  closed,         \* _closed
  \* --- coroutines
  clientPc,       \* where the client pump is suspended
  task,           \* what it is in the middle of
  intr,           \* locals of interrupt(): the response and whether it is late
  providerPc,     \* where the provider pump is suspended
  subject,        \* the response whose event it is handling
  \* --- provider and adapter
  commands,       \* requests and cancellations the provider has not seen yet
  cancelSent,     \* responses the core asked the provider to cancel (history)
  generating,     \* the response being generated
  started,        \* responses started so far
  framesOut,      \* audio frames of the generating response so far
  toolCalls,      \* tool calls made so far
  events,         \* the adapter's event queue
  audio,          \* the adapter's audio queue: the response of each frame
  \* --- user and browser
  speech,         \* the turn detector: "quiet", "speech", "barged"
  announced,      \* response of the last AUDIO_START at the browser
  playing,        \* response the browser believes it plays
  uplink,         \* playout_stopped reports on the way to the server
  inbox           \* reports read from the socket, not yet processed

session   == <<dialog, cancelled, done, voiced, current, audible, playoutStopped,
               interruptions, turnNo, closed>>
clientCo  == <<clientPc, task, intr>>
providerCo == <<providerPc, subject>>
provider  == <<commands, cancelSent, generating, started, framesOut,
               toolCalls, events, audio>>
browser   == <<speech, announced, playing, uplink, inbox>>
vars == <<session, clientCo, providerCo, provider, browser>>

NoInterrupt == [rid |-> NoResponse, late |-> FALSE]

InterruptPcs == {"detecting", "detected", "cancelling", "waiting", "truncating", "recording"}
ClientPcs    == InterruptPcs \cup {"idle", "stopped", "noticing", "reporting", "answering",
                                  "turning", "committing"}
ProviderPcs  == {"idle", "stopped", "refusing", "announcing", "tooling", "confirming",
                 "agreed", "declined", "executing", "returning", "ending"}
EventTypes   == {"response_started", "audio_delta", "tool_call",
                 "response_done", "response_cancelled"}

Events   == [type : EventTypes, rid : Responses]
Commands == {"create", "cancel"}
Voice    == Responses \cup {NoResponse}

SessionTypes ==
  /\ dialog \in DialogStates
  /\ cancelled \subseteq Responses
  /\ done \subseteq Responses
  /\ voiced \subseteq Responses
  /\ current \in Voice
  /\ audible \in Voice
  /\ playoutStopped \in BOOLEAN
  /\ interruptions \in Seq(Responses)
  /\ turnNo \in Nat
  /\ closed \in BOOLEAN

CoroutineTypes ==
  /\ clientPc \in ClientPcs
  /\ task \in {"none", "frame", "text_received", "end_of_turn"}
  /\ intr \in [rid : Voice, late : BOOLEAN]
  /\ providerPc \in ProviderPcs
  /\ subject \in Voice

ProviderTypes ==
  /\ commands \in Seq(Commands)
  /\ cancelSent \subseteq Responses
  /\ generating \in Voice
  /\ started \in 0..MaxResponses
  /\ framesOut \in 0..MaxFrames
  /\ toolCalls \in 0..MaxTools
  /\ events \in Seq(Events)
  /\ audio \in Seq(Responses)

BrowserTypes ==
  /\ speech \in {"quiet", "speech", "barged"}
  /\ announced \in Voice
  /\ playing \in Voice \cup {Silent}
  /\ uplink \in Seq(Voice)
  /\ inbox \in Seq(Voice)

TypeOK == SessionTypes /\ CoroutineTypes /\ ProviderTypes /\ BrowserTypes

\* The session as start() leaves it: listening, nothing generated.
Init ==
  /\ dialog = "LISTENING"
  /\ cancelled = {} /\ done = {} /\ voiced = {}
  /\ current = NoResponse /\ audible = NoResponse
  /\ playoutStopped = FALSE
  /\ interruptions = <<>>
  /\ turnNo = 0
  /\ closed = FALSE
  /\ clientPc = "idle" /\ task = "none" /\ intr = NoInterrupt
  /\ providerPc = "idle" /\ subject = NoResponse
  /\ commands = <<>> /\ cancelSent = {}
  /\ generating = NoResponse /\ started = 0 /\ framesOut = 0 /\ toolCalls = 0
  /\ events = <<>> /\ audio = <<>>
  /\ speech = "quiet"
  /\ announced = NoResponse /\ playing = Silent
  /\ uplink = <<>> /\ inbox = <<>>

\* A pump whose handler has returned takes the next item, or returns when the
\* session is closed; one that waits for an item may still handle one then.
Rest == IF closed THEN "stopped" ELSE "idle"

-----------------------------------------------------------------------------
(***************************************************************************)
(* interrupt()                                                             *)
(***************************************************************************)

\* audible_response(): what it may return (the clock may have run past the
\* end of a finished response); the caller stores the answer in _audible.
AudibleNow ==
  IF audible = NoResponse \/ audible \in cancelled THEN {NoResponse}
  ELSE {audible} \cup (IF audible \in done THEN {NoResponse} ELSE {})

\* STOP_PLAYOUT: the browser flushes, and reports it if it was playing.
StopBrowser ==
  IF closed \/ playing = Silent THEN UNCHANGED <<uplink, playing>>
  ELSE uplink' = Append(uplink, playing) /\ playing' = Silent

\* Step 2 CANCEL: unless the response is done the provider is asked to cancel
\* it first; then the client is told to stop.
BeginCancel(rid) ==
  /\ playoutStopped' = FALSE
  /\ IF rid \in done
     THEN /\ clientPc' = "waiting"
          /\ StopBrowser
          /\ UNCHANGED <<commands, cancelSent>>
     ELSE /\ clientPc' = "cancelling"
          /\ commands' = Append(commands, "cancel")
          /\ cancelSent' = cancelSent \cup {rid}
          /\ UNCHANGED <<uplink, playing>>

\* What the caller does after interrupt() returns, or instead of it.
PendingConfirmation == providerPc = "confirming"

CommitTurn(kind) ==
  /\ turnNo' = turnNo + 1
  /\ dialog' = DialogFire(dialog, kind)
  /\ clientPc' = "committing"

BeginTurn(kind) ==
  /\ task' = kind
  /\ IF dialog = "INTERRUPTED"
     THEN /\ dialog' = DialogFire(dialog, "reconciled")
          /\ clientPc' = "turning"
          /\ UNCHANGED turnNo
     ELSE CommitTurn(kind)

\* A text given while a confirmation is pending answers it; it is not a turn.
TextTurn ==
  IF dialog = "WAITING_CONFIRMATION" /\ PendingConfirmation
  THEN /\ clientPc' = "answering" /\ task' = "none"
       /\ UNCHANGED <<dialog, turnNo>>
  ELSE BeginTurn("text_received")

\* What interrupt() gives the pump back to: the rest of handle_text or, after
\* a frame, the next item.
CallerGoesOn(caller) ==
  IF caller = "text_received" THEN TextTurn
  ELSE clientPc' = Rest /\ task' = "none" /\ UNCHANGED <<dialog, turnNo>>

\* Step 1 DETECT, up to the emission of the event, for a user frame or a text;
\* when nothing can be interrupted the caller goes on at once.
Interrupt(caller) ==
  \E a \in AudibleNow :
    LET speaking == dialog = "SPEAKING" /\ current # NoResponse
        rid      == IF speaking THEN current ELSE a
    IN  /\ audible' = IF speaking THEN audible ELSE a
        /\ IF rid = NoResponse
           THEN CallerGoesOn(caller) /\ UNCHANGED intr
           ELSE /\ task' = caller
                /\ intr' = [rid |-> rid, late |-> ~speaking]
                /\ clientPc' = "detecting"
                /\ UNCHANGED <<dialog, turnNo>>

ClientIdle == clientPc = "idle" /\ ~closed

UserSpeaks ==
  /\ ClientIdle
  /\ speech = "quiet"
  /\ speech' = "speech"
  /\ UNCHANGED <<session, clientCo, providerCo, provider, announced, playing, uplink, inbox>>

\* handle_audio with a BARGE_IN of the detector, which it reports once per
\* utterance and only while the assistant speaks or is audible ...
HandleBargeIn ==
  /\ ClientIdle
  /\ speech = "speech"
  /\ dialog = "SPEAKING" \/ AudibleNow # {NoResponse}
  /\ speech' = "barged"
  /\ clientPc' = "noticing"
  /\ UNCHANGED <<session, task, intr, providerCo, provider, announced, playing, uplink, inbox>>

\* ... and which is acted on once the event that tells of it is emitted.
BargeInNoticed ==
  /\ clientPc = "noticing"
  /\ Interrupt("frame")
  /\ UNCHANGED <<cancelled, done, voiced, current, playoutStopped, interruptions, closed,
                 providerCo, provider, browser>>

\* handle_text; an answer to a confirmation is no turn and is not bounded.
HandleText ==
  /\ ClientIdle
  /\ \/ /\ turnNo < MaxTurns
        /\ dialog = "SPEAKING" \/ AudibleNow # {NoResponse}
        /\ Interrupt("text_received")
     \/ /\ turnNo < MaxTurns \/ (dialog = "WAITING_CONFIRMATION" /\ PendingConfirmation)
        /\ dialog # "SPEAKING" /\ NoResponse \in AudibleNow
        /\ audible' = NoResponse
        /\ TextTurn
        /\ UNCHANGED intr
  /\ UNCHANGED <<cancelled, done, voiced, current, playoutStopped, interruptions, closed,
                 providerCo, provider, browser>>

\* resolve_confirmation_from_text after the event: the answer goes to the
\* confirmation now pending; when none is left, the pump dies of the lookup.
AnswerInterpreted ==
  /\ clientPc = "answering"
  /\ clientPc' = IF PendingConfirmation THEN Rest ELSE "stopped"
  /\ UNCHANGED <<session, task, intr, providerCo, provider, browser>>

\* END_OF_TURN from the detector, or from the client's audio_commit, which
\* does not reset the detector and is handled even after a close.
HandleEndOfTurn ==
  /\ clientPc = "idle"
  /\ turnNo < MaxTurns
  /\ \/ ~closed /\ speech # "quiet" /\ speech' = "quiet"
     \/ UNCHANGED speech
  /\ BeginTurn("end_of_turn")
  /\ UNCHANGED <<cancelled, done, voiced, current, audible, playoutStopped, interruptions,
                 closed, intr, providerCo, provider, announced, playing, uplink, inbox>>

\* A frame that raises no event still refreshes _audible against the clock.
AudibleExpires ==
  /\ ClientIdle
  /\ dialog # "SPEAKING"
  /\ audible # NoResponse
  /\ NoResponse \in AudibleNow
  /\ audible' = NoResponse
  /\ UNCHANGED <<dialog, cancelled, done, voiced, current, playoutStopped, interruptions,
                 turnNo, closed, clientCo, providerCo, provider, browser>>

\* handle_client_message(PLAYOUT_STOPPED): the event is set at once, _audible
\* is looked at after the emission.  The report leaves the inbox at the end.
HandlePlayoutStopped ==
  /\ clientPc = "idle"
  /\ clientPc' = "reporting"
  /\ inbox # <<>>
  /\ playoutStopped' = TRUE
  /\ UNCHANGED <<dialog, cancelled, done, voiced, current, audible, interruptions, turnNo,
                 closed, task, intr, providerCo, provider, browser>>

PlayoutReported ==
  /\ clientPc = "reporting"
  /\ clientPc' = Rest
  /\ inbox # <<>>
  /\ inbox' = Tail(inbox)
  /\ audible' = IF Head(inbox) \in {NoResponse, audible} THEN NoResponse ELSE audible
  /\ UNCHANGED <<dialog, cancelled, done, voiced, current, playoutStopped, interruptions,
                 turnNo, closed, task, intr, providerCo, provider, speech, announced,
                 playing, uplink>>

\* Any other item takes the pump to its check of _closed.
ClientStops ==
  /\ clientPc = "idle" /\ closed
  /\ clientPc' = "stopped"
  /\ UNCHANGED <<session, task, intr, providerCo, provider, browser>>

-----------------------------------------------------------------------------
\* The rest of interrupt(), one action per suspension.

\* After the emission of the event; the response and its lateness were read
\* before it, and the provider pump may have moved on in between.
InterruptDetected ==
  /\ clientPc = "detecting"
  /\ ~intr.late
  /\ dialog' = DialogFire(dialog, "barge_in")
  /\ clientPc' = "detected"
  /\ UNCHANGED <<cancelled, done, voiced, current, audible, playoutStopped, interruptions,
                 turnNo, closed, task, intr, providerCo, provider, browser>>

InterruptCancels ==
  /\ clientPc = "detected" \/ (clientPc = "detecting" /\ intr.late)
  /\ BeginCancel(intr.rid)
  /\ UNCHANGED <<dialog, cancelled, done, voiced, current, audible, interruptions, turnNo,
                 closed, task, intr, providerCo, generating, started, framesOut,
                 toolCalls, events, audio, speech, announced, inbox>>

\* cancel_response drops the audio the pump has not taken yet.
InterruptCancelSent ==
  /\ clientPc = "cancelling"
  /\ clientPc' = "waiting"
  /\ audio' = <<>>
  /\ StopBrowser
  /\ UNCHANGED <<session, task, intr, providerCo, commands, cancelSent, generating,
                 started, framesOut, toolCalls, events, speech, announced, inbox>>

\* The end of step 3: the record is kept, and the latency event emitted.
RecordInterrupt ==
  /\ interruptions' = Append(interruptions, intr.rid)
  /\ clientPc' = "recording"
  /\ UNCHANGED intr

\* Faults seeded below: the force timeout is missing ...
InterruptReconcile_NoTimeout ==
  /\ clientPc = "waiting"
  /\ playoutStopped
  /\ cancelled' = cancelled \cup {intr.rid}
  /\ audible' = NoResponse
  /\ RecordInterrupt
  /\ UNCHANGED <<dialog, done, voiced, current, playoutStopped, turnNo, closed, task,
                 providerCo, provider, browser>>

\* ... and a response that was already done is not marked as heard to its end.
InterruptReconcile_LateUnmarked ==
  /\ clientPc = "waiting"
  /\ cancelled' = IF intr.late THEN cancelled ELSE cancelled \cup {intr.rid}
  /\ audible' = IF intr.late THEN audible ELSE NoResponse
  /\ RecordInterrupt
  /\ UNCHANGED <<dialog, done, voiced, current, playoutStopped, turnNo, closed, task,
                 providerCo, provider, browser>>

\* The wait ends with the event or with the 300 ms force timeout.
InterruptReconcile ==
  /\ clientPc = "waiting"
  /\ cancelled' = cancelled \cup {intr.rid}
  /\ audible' = NoResponse
  /\ IF intr.rid \in voiced
     THEN clientPc' = "truncating" /\ UNCHANGED <<interruptions, intr>>
     ELSE RecordInterrupt
  /\ UNCHANGED <<dialog, done, voiced, current, playoutStopped, turnNo, closed, task,
                 providerCo, provider, browser>>

InterruptTruncated ==
  /\ clientPc = "truncating"
  /\ RecordInterrupt
  /\ UNCHANGED <<dialog, cancelled, done, voiced, current, audible, playoutStopped, turnNo,
                 closed, task, providerCo, provider, browser>>

\* Fault seeded below: _current_response is not cleared.
InterruptRecorded_KeepsCurrent ==
  /\ clientPc = "recording"
  /\ intr' = NoInterrupt
  /\ CallerGoesOn(task)
  /\ UNCHANGED <<cancelled, done, voiced, current, audible, playoutStopped, interruptions,
                 closed, providerCo, provider, browser>>

\* Step 4 ends the interruption: no response is current.
InterruptRecorded ==
  /\ clientPc = "recording"
  /\ current' = NoResponse
  /\ intr' = NoInterrupt
  /\ CallerGoesOn(task)
  /\ UNCHANGED <<cancelled, done, voiced, audible, playoutStopped, interruptions, closed,
                 providerCo, provider, browser>>

\* _begin_user_turn after "reconciled"
TurnReconciled ==
  /\ clientPc = "turning"
  /\ CommitTurn(task)
  /\ UNCHANGED <<cancelled, done, voiced, current, audible, playoutStopped, interruptions,
                 closed, task, intr, providerCo, provider, browser>>

\* commit_input / send_text: the provider is asked for a response.
TurnCommitted ==
  /\ clientPc = "committing"
  /\ clientPc' = Rest /\ task' = "none"
  /\ commands' = Append(commands, "create")
  /\ UNCHANGED <<session, intr, providerCo, cancelSent, generating, started,
                 framesOut, toolCalls, events, audio, browser>>

-----------------------------------------------------------------------------
(***************************************************************************)
(* The provider pump: handle_provider_event                                *)
(***************************************************************************)

NextEvent(type) ==
  /\ providerPc = "idle"
  /\ events # <<>> /\ Head(events).type = type
  /\ events' = Tail(events)

\* Fault seeded below: a response that starts during a barge-in is accepted.
HandleResponseStarted_NeverRefused ==
  LET rid == Head(events).rid IN
  /\ NextEvent("response_started")
  /\ subject' = rid
  /\ current' = rid
  /\ audible' = rid
  /\ playoutStopped' = FALSE
  /\ dialog' = DialogFire(dialog, "response_started")
  /\ providerPc' = "announcing"
  /\ UNCHANGED <<cancelled, commands, cancelSent, done, voiced, interruptions, turnNo, closed,
                 clientCo, generating, started, framesOut, toolCalls, audio, browser>>

\* RESPONSE_STARTED while a barge-in holds the floor is refused: its track is
\* born cancelled and the provider is asked to stop.  Any other becomes the
\* current and audible response, whether or not the dialog machine moves.
HandleResponseStarted ==
  LET rid == Head(events).rid IN
  /\ NextEvent("response_started")
  /\ subject' = rid
  /\ IF dialog = "INTERRUPTED"
     THEN /\ cancelled' = cancelled \cup {rid}
          /\ providerPc' = "refusing"
          /\ commands' = Append(commands, "cancel")
          /\ cancelSent' = cancelSent \cup {rid}
          /\ UNCHANGED <<dialog, current, audible, playoutStopped>>
     ELSE /\ current' = rid
          /\ audible' = rid
          /\ playoutStopped' = FALSE
          /\ dialog' = DialogFire(dialog, "response_started")
          /\ providerPc' = "announcing"
          /\ UNCHANGED <<cancelled, commands, cancelSent>>
  /\ UNCHANGED <<done, voiced, interruptions, turnNo, closed, clientCo,
                 generating, started, framesOut, toolCalls, audio, browser>>

RefusalSent ==
  /\ providerPc = "refusing"
  /\ providerPc' = Rest /\ subject' = NoResponse
  /\ audio' = <<>>
  /\ UNCHANGED <<session, clientCo, commands, cancelSent, generating, started,
                 framesOut, toolCalls, events, browser>>

AudioStartSent ==
  /\ providerPc = "announcing"
  /\ providerPc' = Rest /\ subject' = NoResponse
  /\ announced' = IF closed THEN announced ELSE subject
  /\ UNCHANGED <<session, clientCo, provider, speech, playing, uplink, inbox>>

HandleAudioDelta ==
  LET rid == Head(events).rid IN
  /\ NextEvent("audio_delta")
  /\ providerPc' = Rest
  /\ voiced' = IF rid \in cancelled THEN voiced ELSE voiced \cup {rid}
  /\ UNCHANGED <<dialog, cancelled, done, current, audible, playoutStopped, interruptions,
                 turnNo, closed, clientCo, subject, commands, cancelSent,
                 generating, started, framesOut, toolCalls, audio, browser>>

\* A tool call of a response marked cancelled is dropped; any other runs,
\* whether or not the dialog machine accepts "tool_requested".
HandleToolCall ==
  LET rid == Head(events).rid IN
  /\ NextEvent("tool_call")
  /\ IF rid \in cancelled
     THEN providerPc' = Rest /\ UNCHANGED <<dialog, subject>>
     ELSE /\ dialog' = DialogFire(dialog, "tool_requested")
          /\ providerPc' = "tooling"
          /\ subject' = rid
  /\ UNCHANGED <<cancelled, done, voiced, current, audible, playoutStopped, interruptions,
                 turnNo, closed, clientCo, commands, cancelSent, generating,
                 started, framesOut, toolCalls, audio, browser>>

\* run_tool after the pipeline returned: the result goes to the provider,
\* which is asked to go on.
SendToolResult ==
  /\ providerPc' = "returning"
  /\ commands' = Append(commands, "create")

ToolFinished ==
  /\ providerPc \in {"tooling", "executing"}
  /\ SendToolResult
  /\ UNCHANGED <<session, clientCo, subject, cancelSent, generating, started,
                 framesOut, toolCalls, events, audio, browser>>

\* _confirm_tool: the tool waits for the user's answer ...
ConfirmationNeeded ==
  /\ providerPc = "tooling"
  /\ providerPc' = "confirming"
  /\ dialog' = DialogFire(dialog, "confirmation_needed")
  /\ UNCHANGED <<cancelled, done, voiced, current, audible, playoutStopped, interruptions,
                 turnNo, closed, clientCo, subject, provider, browser>>

\* ... which grants it, denies it, or does not come in time; a pending
\* confirmation sends no result.  The confirmation is no longer pending when
\* the activity machine moves, before the dialog machine does.
ConfirmationAnswered ==
  /\ providerPc = "confirming"
  /\ providerPc' \in {"agreed", "declined"}
  /\ UNCHANGED <<session, clientCo, subject, provider, browser>>

AnswerApplied ==
  /\ \/ providerPc = "agreed"   /\ dialog' = DialogFire(dialog, "confirmed")
     \/ providerPc = "declined" /\ dialog' = DialogFire(dialog, "denied")
  /\ providerPc' = "executing"
  /\ UNCHANGED <<cancelled, done, voiced, current, audible, playoutStopped, interruptions,
                 turnNo, closed, clientCo, subject, provider, browser>>

ConfirmationTimesOut ==
  /\ providerPc = "confirming"
  /\ providerPc' = Rest /\ subject' = NoResponse
  /\ dialog' = CASE dialog = "WAITING_CONFIRMATION" -> DialogFire(dialog, "end_of_turn")
               [] dialog = "WAITING_TOOL"         -> DialogFire(dialog, "tool_failed")
               [] OTHER                           -> dialog
  /\ UNCHANGED <<cancelled, done, voiced, current, audible, playoutStopped, interruptions,
                 turnNo, closed, clientCo, provider, browser>>

ToolReturned ==
  /\ providerPc = "returning"
  /\ providerPc' = Rest /\ subject' = NoResponse
  /\ dialog' = IF dialog = "WAITING_TOOL" THEN DialogFire(dialog, "tool_returned") ELSE dialog
  /\ UNCHANGED <<cancelled, done, voiced, current, audible, playoutStopped, interruptions,
                 turnNo, closed, clientCo, provider, browser>>

\* RESPONSE_DONE up to the AUDIO_END message ...
HandleResponseDone ==
  LET rid == Head(events).rid IN
  /\ NextEvent("response_done")
  /\ done' = done \cup {rid}
  /\ IF rid \in cancelled /\ rid # current
     THEN providerPc' = Rest /\ UNCHANGED <<audible, subject>>
     ELSE /\ audible' = IF rid \notin voiced /\ audible = rid THEN NoResponse ELSE audible
          /\ providerPc' = "ending"
          /\ subject' = rid
  /\ UNCHANGED <<dialog, cancelled, voiced, current, playoutStopped, interruptions, turnNo,
                 closed, clientCo, commands, cancelSent, generating, started,
                 framesOut, toolCalls, audio, browser>>

\* ... and after it: the dialog goes back to listening.
AudioEndSent ==
  /\ providerPc = "ending"
  /\ providerPc' = Rest /\ subject' = NoResponse
  /\ current' = IF current = subject THEN NoResponse ELSE current
  /\ dialog' = CASE dialog = "SPEAKING" -> DialogFire(dialog, "response_done")
               [] dialog = "THINKING" -> DialogFire(dialog, "nothing_to_say")
               [] OTHER               -> dialog
  /\ UNCHANGED <<cancelled, done, voiced, audible, playoutStopped, interruptions, turnNo,
                 closed, clientCo, provider, browser>>

HandleResponseCancelled ==
  /\ NextEvent("response_cancelled")
  /\ providerPc' = Rest
  /\ cancelled' = cancelled \cup {Head(events).rid}
  /\ playoutStopped' = TRUE
  /\ UNCHANGED <<dialog, done, voiced, current, audible, interruptions, turnNo, closed,
                 clientCo, subject, commands, cancelSent, generating, started,
                 framesOut, toolCalls, audio, browser>>

\* Any other event takes the pump to its check of _closed.
ProviderStops ==
  /\ providerPc = "idle" /\ closed
  /\ providerPc' = "stopped"
  /\ UNCHANGED <<session, clientCo, subject, provider, browser>>

-----------------------------------------------------------------------------
(***************************************************************************)
(* The audio pump, the socket reader and the end of the session            *)
(***************************************************************************)

\* pump_audio_out forwards a frame whenever some response is current and not
\* cancelled; it does not look at the response the frame belongs to.
Forwards == current # NoResponse /\ current \notin cancelled

PumpAudio ==
  /\ clientPc # "stopped"
  /\ audio # <<>>
  /\ audio' = Tail(audio)
  /\ playing' = IF Forwards /\ playing = Silent THEN announced ELSE playing
  /\ UNCHANGED <<session, clientCo, providerCo, commands, cancelSent, generating,
                 started, framesOut, toolCalls, events, speech, announced, uplink, inbox>>

\* read_client signals the event itself, then queues the report.
ReadClient ==
  /\ clientPc # "stopped"
  /\ uplink # <<>>
  /\ uplink' = Tail(uplink)
  /\ inbox' = Append(inbox, Head(uplink))
  /\ playoutStopped' = TRUE
  /\ UNCHANGED <<dialog, cancelled, done, voiced, current, audible, interruptions, turnNo,
                 closed, clientCo, providerCo, provider, speech, announced, playing>>

\* close(): any pump may begin it; handlers that are suspended still resume.
\* The close sequence is a task of its own, which moves the dialog.
Close ==
  /\ ~closed
  /\ closed' = TRUE
  /\ UNCHANGED <<dialog, cancelled, done, voiced, current, audible, playoutStopped,
                 interruptions, turnNo, clientCo, providerCo, provider, browser>>

CloseDialog ==
  /\ closed /\ dialog # "CLOSED"
  /\ dialog' = DialogFire(dialog, "close")
  /\ UNCHANGED <<cancelled, done, voiced, current, audible, playoutStopped, interruptions,
                 turnNo, closed, clientCo, providerCo, provider, browser>>

-----------------------------------------------------------------------------
(***************************************************************************)
(* The provider behind the port, and the browser.  What they do after the  *)
(* pump that takes their events has returned reaches nobody.               *)
(***************************************************************************)

NextCommand(command) ==
  /\ providerPc # "stopped"
  /\ commands # <<>> /\ Head(commands) = command
  /\ commands' = Tail(commands)

ProviderStarts ==
  /\ NextCommand("create")
  /\ generating = NoResponse /\ started < MaxResponses
  /\ started' = started + 1
  /\ generating' = started + 1
  /\ framesOut' = 0
  /\ events' = Append(events, [type |-> "response_started", rid |-> started + 1])
  /\ UNCHANGED <<session, clientCo, providerCo, cancelSent, toolCalls, audio, browser>>

\* A request made while a response is being generated is answered by an error
\* that is not fatal: the session goes on without a response to it.
ProviderRejects ==
  /\ NextCommand("create")
  /\ generating # NoResponse
  /\ UNCHANGED <<session, clientCo, providerCo, cancelSent, generating, started, framesOut,
                 toolCalls, events, audio, browser>>

ProviderSpeaks ==
  /\ providerPc # "stopped"
  /\ generating # NoResponse /\ framesOut < MaxFrames
  /\ framesOut' = framesOut + 1
  /\ audio' = Append(audio, generating)
  /\ events' = Append(events, [type |-> "audio_delta", rid |-> generating])
  /\ UNCHANGED <<session, clientCo, providerCo, commands, cancelSent, generating,
                 started, toolCalls, browser>>

ProviderCallsTool ==
  /\ providerPc # "stopped"
  /\ generating # NoResponse /\ toolCalls < MaxTools
  /\ toolCalls' = toolCalls + 1
  /\ events' = Append(events, [type |-> "tool_call", rid |-> generating])
  /\ UNCHANGED <<session, clientCo, providerCo, commands, cancelSent, generating,
                 started, framesOut, audio, browser>>

ProviderFinishes ==
  /\ providerPc # "stopped"
  /\ generating # NoResponse
  /\ generating' = NoResponse
  /\ events' = Append(events, [type |-> "response_done", rid |-> generating])
  /\ UNCHANGED <<session, clientCo, providerCo, commands, cancelSent, started,
                 framesOut, toolCalls, audio, browser>>

\* A cancellation names no response: it ends whatever is being generated, and
\* is answered by a harmless error when nothing is.
ProviderCancels ==
  /\ NextCommand("cancel")
  /\ generating' = NoResponse
  /\ events' = IF generating = NoResponse THEN events
               ELSE Append(events, [type |-> "response_cancelled", rid |-> generating])
  /\ UNCHANGED <<session, clientCo, providerCo, cancelSent, started, framesOut,
                 toolCalls, audio, browser>>

\* The browser's buffer runs dry; it reports that only for a named response.
BrowserDrains ==
  /\ clientPc # "stopped"
  /\ playing \in Responses
  /\ uplink' = Append(uplink, playing)
  /\ playing' = Silent
  /\ UNCHANGED <<session, clientCo, providerCo, provider, speech, announced, inbox>>

-----------------------------------------------------------------------------
ClientResumes ==
  \/ BargeInNoticed \/ InterruptDetected \/ InterruptCancels \/ InterruptCancelSent
  \/ InterruptReconcile \/ InterruptTruncated \/ InterruptRecorded
  \/ AnswerInterpreted \/ PlayoutReported \/ TurnReconciled \/ TurnCommitted

ClientHandles ==
  \/ UserSpeaks \/ HandleBargeIn \/ HandleText \/ HandleEndOfTurn
  \/ AudibleExpires \/ HandlePlayoutStopped \/ ClientStops

ProviderResumes ==
  \/ RefusalSent \/ AudioStartSent \/ ToolFinished \/ ConfirmationNeeded
  \/ ConfirmationAnswered \/ AnswerApplied \/ ConfirmationTimesOut
  \/ ToolReturned \/ AudioEndSent

ProviderHandles ==
  \/ HandleResponseStarted \/ HandleAudioDelta \/ HandleToolCall
  \/ HandleResponseDone \/ HandleResponseCancelled \/ ProviderStops

Environment ==
  \/ ProviderStarts \/ ProviderRejects \/ ProviderSpeaks \/ ProviderCallsTool \/ ProviderFinishes
  \/ ProviderCancels \/ BrowserDrains

Next ==
  \/ ClientResumes \/ ClientHandles
  \/ ProviderResumes \/ ProviderHandles
  \/ PumpAudio \/ ReadClient \/ Close \/ CloseDialog
  \/ Environment

Spec == Init /\ [][Next]_vars

\* The event loop resumes a coroutine whose await is over, every await of
\* these handlers is bounded by a timeout, and the pumps never stop taking
\* what is queued while the session is open.
FairSpec ==
  /\ Spec
  /\ WF_vars(ClientResumes)
  /\ WF_vars(ProviderResumes)
  /\ WF_vars(ProviderHandles)
  /\ WF_vars(ProviderStarts)
  /\ WF_vars(ProviderFinishes)

-----------------------------------------------------------------------------
(***************************************************************************)
(* Properties                                                              *)
(***************************************************************************)

\* As long as the dialog stays INTERRUPTED no step of any pump makes a response
\* current or audible: one that starts in that time is refused.
FloorKept ==
  [][ dialog = "INTERRUPTED" /\ dialog' = "INTERRUPTED" =>
        current' \in {current, NoResponse} /\ audible' \in {audible, NoResponse} ]_vars

\* Once the interruption is reconciled and until the user's turn begins, the
\* session owns no response: none is current, so no audio is forwarded, and
\* none counts as audible, so the next speech is a turn and not a barge-in.
InterruptedIsQuiet ==
  ~closed /\ dialog = "INTERRUPTED" /\ clientPc = "idle" =>
    current = NoResponse /\ audible = NoResponse

\* A response is interrupted at most once, however often the user speaks over
\* it and whichever way it ends: the interruption records name each one once.
InterruptedOnce ==
  \A i, j \in DOMAIN interruptions :
    interruptions[i] = interruptions[j] => i = j

\* Neither pump is parked for ever: interrupt() ends with or without the
\* client's report and its turn is handed to the provider, and a tool or a
\* confirmation always gives the provider pump back.
PumpsReturn ==
  /\ clientPc \notin {"idle", "stopped"} ~> clientPc \in {"idle", "stopped"}
  /\ providerPc \notin {"idle", "stopped"} ~> providerPc \in {"idle", "stopped"}

\* What the comment on RESPONSE_TOOL_CALL says: a tool requested by a response
\* the core has cancelled is never executed.
NoToolFromCancelled ==
  [][ providerPc # "tooling" /\ providerPc' = "tooling" => subject' \notin cancelSent ]_vars

=============================================================================
