-------------------------- MODULE TurnTakingProofs --------------------------
(***************************************************************************)
(* Proofs about turn taking, for every number of responses, turns, frames  *)
(* and tool calls.  The invariants of the interruption protocol are not    *)
(* inductive: Quiet adds what relates the client pump's place in the       *)
(* protocol to the dialog state and the responses the session owns.        *)
(***************************************************************************)
EXTENDS TurnTaking, TLAPS

(***************************************************************************)
(* What firing a trigger can do to the dialog state.                       *)
(***************************************************************************)
\* Firing a trigger, legal or not, gives a dialog state.
LEMMA DialogFireType ==
  ASSUME NEW s \in DialogStates, NEW t
  PROVE  DialogFire(s, t) \in DialogStates
<1>1. \A u \in DOMAIN DialogTable[s] : DialogTable[s][u] \in DialogStates
  BY DEF DialogStates, DialogTable
<1> QED BY <1>1 DEF DialogFire, DialogCan

-----------------------------------------------------------------------------
\* The client pump interrupts a response that exists.
IntrOK == clientPc \in InterruptPcs => intr.rid \in Responses

\* The session start() leaves is well typed and interrupts nothing.
LEMMA InitTypes == Init => TypeOK /\ IntrOK
<1> SUFFICES ASSUME Init PROVE TypeOK /\ IntrOK
  OBVIOUS
<1> USE DEF Init, Voice
<1>1. SessionTypes
  <2>1. interruptions \in Seq(Responses)
    OBVIOUS
  <2> QED BY <2>1 DEF SessionTypes, DialogStates
<1>2. CoroutineTypes BY DEF CoroutineTypes, ClientPcs, ProviderPcs, NoInterrupt
<1>3. ProviderTypes BY BoundsAreNat DEF ProviderTypes
<1>4. BrowserTypes BY DEF BrowserTypes
<1>5. IntrOK BY DEF IntrOK, InterruptPcs
<1> QED BY <1>1, <1>2, <1>3, <1>4, <1>5 DEF TypeOK

\* What taking from and adding to the queues gives.
LEMMA EventQueue ==
  ASSUME events \in Seq(Events)
  PROVE  /\ events # <<>> => Head(events).rid \in Responses /\ Tail(events) \in Seq(Events)
         /\ \A t \in EventTypes, r \in Responses :
              Append(events, [type |-> t, rid |-> r]) \in Seq(Events)
<1>1. events # <<>> => Head(events) \in Events /\ Tail(events) \in Seq(Events)
  OBVIOUS
<1>2. \A e \in Events : e.rid \in Responses
  BY DEF Events
<1>3. \A t \in EventTypes, r \in Responses : [type |-> t, rid |-> r] \in Events
  BY DEF Events
<1>4. \A e \in Events : Append(events, e) \in Seq(Events)
  OBVIOUS
<1> QED BY <1>1, <1>2, <1>3, <1>4

\* The requests to the provider stay requests.
LEMMA CommandQueue ==
  ASSUME commands \in Seq(Commands)
  PROVE  /\ Append(commands, "create") \in Seq(Commands)
         /\ Append(commands, "cancel") \in Seq(Commands)
         /\ commands # <<>> => Tail(commands) \in Seq(Commands)
BY DEF Commands

-----------------------------------------------------------------------------
\* What the parts of interrupt() do to the variables they assign.
LEMMA StopBrowserTypes ==
  ASSUME BrowserTypes, StopBrowser
  PROVE  uplink' \in Seq(Voice) /\ playing' \in Voice \cup {Silent}
BY DEF StopBrowser, BrowserTypes

\* The first half of an interruption suspends in the cancellation or in the wait.
LEMMA BeginCancelTypes ==
  ASSUME TypeOK, NEW rid \in Responses, BeginCancel(rid)
  PROVE  /\ playoutStopped' \in BOOLEAN
         /\ clientPc' \in {"waiting", "cancelling"}
         /\ commands' \in Seq(Commands) /\ cancelSent' \subseteq Responses
         /\ uplink' \in Seq(Voice) /\ playing' \in Voice \cup {Silent}
<1> USE DEF BeginCancel, TypeOK
<1>1. CASE rid \in done
  BY <1>1, StopBrowserTypes DEF ProviderTypes
<1>2. CASE rid \notin done
  BY <1>2, CommandQueue DEF ProviderTypes, BrowserTypes
<1> QED BY <1>1, <1>2

\* A turn suspends the client pump on its way to the provider.
LEMMA BeginTurnTypes ==
  ASSUME SessionTypes, NEW k \in {"text_received", "end_of_turn"}, BeginTurn(k)
  PROVE  /\ dialog' \in DialogStates /\ turnNo' \in Nat
         /\ clientPc' \in {"turning", "committing"} /\ task' = k
BY DialogFireType DEF BeginTurn, CommitTurn, SessionTypes

\* A text is a turn, or answers a confirmation.
LEMMA TextTurnTypes ==
  ASSUME SessionTypes, TextTurn
  PROVE  /\ dialog' \in DialogStates /\ turnNo' \in Nat
         /\ clientPc' \in {"answering", "turning", "committing"}
         /\ task' \in {"none", "text_received"}
<1>1. CASE dialog = "WAITING_CONFIRMATION" /\ PendingConfirmation
  BY <1>1 DEF TextTurn, SessionTypes
<1>2. CASE ~(dialog = "WAITING_CONFIRMATION" /\ PendingConfirmation)
  BY <1>2, BeginTurnTypes DEF TextTurn
<1> QED BY <1>1, <1>2

\* audible_response() answers with a response or none.
LEMMA AudibleNowType ==
  ASSUME SessionTypes, NEW a \in AudibleNow
  PROVE  a \in Voice
BY DEF AudibleNow, SessionTypes, Voice

\* What an interruption gives the pump back to.
LEMMA CallerTypes ==
  ASSUME SessionTypes, NEW caller, CallerGoesOn(caller)
  PROVE  /\ dialog' \in DialogStates /\ turnNo' \in Nat
         /\ clientPc' \in {"idle", "stopped", "answering", "turning", "committing"}
         /\ task' \in {"none", "text_received"}
BY TextTurnTypes DEF CallerGoesOn, SessionTypes, Rest

\* What interrupt() reads before its first suspension: nothing to interrupt, or
\* a response, which stays in its locals.
LEMMA InterruptBegins ==
  ASSUME SessionTypes, NEW caller \in {"frame", "text_received"}, Interrupt(caller)
  PROVE  /\ audible' \in {audible, NoResponse}
         /\ \/ CallerGoesOn(caller) /\ UNCHANGED intr
            \/ \E r \in Responses, l \in BOOLEAN :
                 /\ intr' = [rid |-> r, late |-> l]
                 /\ task' = caller /\ clientPc' = "detecting"
                 /\ UNCHANGED <<dialog, turnNo>>
<1> DEFINE speaking == dialog = "SPEAKING" /\ current # NoResponse
<1> DEFINE Rid(a) == IF speaking THEN current ELSE a
<1>1. PICK a \in AudibleNow :
        /\ audible' = IF speaking THEN audible ELSE a
        /\ IF Rid(a) = NoResponse
           THEN CallerGoesOn(caller) /\ UNCHANGED intr
           ELSE /\ task' = caller
                /\ intr' = [rid |-> Rid(a), late |-> ~speaking]
                /\ clientPc' = "detecting"
                /\ UNCHANGED <<dialog, turnNo>>
  BY DEF Interrupt
<1>2. a \in {audible, NoResponse} /\ a \in Voice /\ Rid(a) \in Voice
  BY <1>1, AudibleNowType DEF AudibleNow, SessionTypes
<1>3. Rid(a) # NoResponse => Rid(a) \in Responses /\ (~speaking) \in BOOLEAN
  BY <1>2 DEF Voice
<1>4. audible' \in {audible, NoResponse}
  BY <1>1, <1>2
<1>5. CASE Rid(a) = NoResponse
  BY <1>1, <1>4, <1>5
<1>6. CASE Rid(a) # NoResponse
  BY <1>1, <1>3, <1>4, <1>6
<1> QED BY <1>5, <1>6

\* The same as types of the variables it may assign.
LEMMA InterruptTypes ==
  ASSUME TypeOK, NEW caller \in {"frame", "text_received"}, Interrupt(caller)
  PROVE  /\ audible' \in Voice /\ dialog' \in DialogStates /\ turnNo' \in Nat
         /\ clientPc' \in ClientPcs
         /\ task' \in {"none", "frame", "text_received"}
         /\ intr' \in [rid : Voice, late : BOOLEAN]
         /\ clientPc' \in InterruptPcs => intr'.rid \in Responses
<1>1. audible' \in Voice
  BY InterruptBegins DEF TypeOK, SessionTypes, Voice
<1>2. CASE CallerGoesOn(caller) /\ UNCHANGED intr
  BY <1>1, <1>2, CallerTypes DEF TypeOK, CoroutineTypes, ClientPcs, InterruptPcs
<1>3. ASSUME NEW r \in Responses, NEW l \in BOOLEAN, intr' = [rid |-> r, late |-> l],
             task' = caller, clientPc' = "detecting", UNCHANGED <<dialog, turnNo>>
      PROVE  /\ dialog' \in DialogStates /\ turnNo' \in Nat /\ clientPc' \in ClientPcs
             /\ task' \in {"none", "frame", "text_received"}
             /\ intr' \in [rid : Voice, late : BOOLEAN] /\ intr'.rid \in Responses
  BY <1>3 DEF TypeOK, SessionTypes, ClientPcs, InterruptPcs, Voice
<1> QED BY <1>1, <1>2, <1>3, InterruptBegins DEF TypeOK

\* The end of an interruption records a response that exists.
LEMMA RecordTypes ==
  ASSUME TypeOK, IntrOK, clientPc \in InterruptPcs, RecordInterrupt
  PROVE  interruptions' \in Seq(Responses) /\ clientPc' = "recording" /\ UNCHANGED intr
BY DEF RecordInterrupt, IntrOK, TypeOK, SessionTypes

-----------------------------------------------------------------------------
\* Every step keeps the types, one case per action.
LEMMA NextTypes == TypeOK /\ IntrOK /\ [Next]_vars => TypeOK' /\ IntrOK'
<1> SUFFICES ASSUME TypeOK, IntrOK, [Next]_vars PROVE TypeOK' /\ IntrOK'
  OBVIOUS
<1> USE DialogFireType, EventQueue, CommandQueue
    DEF Rest, TypeOK, SessionTypes, CoroutineTypes, ProviderTypes, BrowserTypes, IntrOK, Voice,
        ClientPcs, InterruptPcs, ProviderPcs, session, clientCo, providerCo, provider, browser
<1>1. CASE UserSpeaks
  BY <1>1 DEF UserSpeaks, ClientIdle
<1>2. CASE HandleBargeIn
  BY <1>2 DEF HandleBargeIn, ClientIdle
<1>3. CASE HandleText
  <2>1. CASE Interrupt("text_received")
    <3>1. SessionTypes'
      BY <1>3, <2>1, InterruptTypes DEF HandleText
    <3>2. CoroutineTypes'
      BY <1>3, <2>1, InterruptTypes DEF HandleText
    <3>3. ProviderTypes'
      BY <1>3, <2>1, InterruptTypes DEF HandleText
    <3>4. BrowserTypes'
      BY <1>3, <2>1, InterruptTypes DEF HandleText
    <3>5. IntrOK'
      BY <1>3, <2>1, InterruptTypes DEF HandleText
    <3> QED BY <3>1, <3>2, <3>3, <3>4, <3>5
  <2>2. CASE audible' = NoResponse /\ TextTurn /\ UNCHANGED intr
    <3>1. SessionTypes'
      BY <1>3, <2>2, TextTurnTypes DEF HandleText
    <3>2. CoroutineTypes'
      BY <1>3, <2>2, TextTurnTypes DEF HandleText
    <3>3. ProviderTypes'
      BY <1>3, <2>2, TextTurnTypes DEF HandleText
    <3>4. BrowserTypes'
      BY <1>3, <2>2, TextTurnTypes DEF HandleText
    <3>5. IntrOK'
      BY <1>3, <2>2, TextTurnTypes DEF HandleText
    <3> QED BY <3>1, <3>2, <3>3, <3>4, <3>5
  <2> QED BY <1>3, <2>1, <2>2 DEF HandleText
<1>4. CASE HandleEndOfTurn
  BY <1>4 DEF HandleEndOfTurn, BeginTurn, CommitTurn
<1>5. CASE AudibleExpires
  BY <1>5 DEF AudibleExpires, ClientIdle
<1>6. CASE HandlePlayoutStopped
  BY <1>6 DEF HandlePlayoutStopped
<1>7. CASE InterruptDetected
  BY <1>7 DEF InterruptDetected
<1>41. CASE InterruptCancels
  <2>1. BeginCancel(intr.rid) /\ intr.rid \in Responses
    BY <1>41 DEF InterruptCancels
  <2>2. SessionTypes'
    BY <1>41, <2>1, BeginCancelTypes DEF InterruptCancels
  <2>3. CoroutineTypes'
    BY <1>41, <2>1, BeginCancelTypes DEF InterruptCancels
  <2>4. ProviderTypes'
    BY <1>41, <2>1, BeginCancelTypes DEF InterruptCancels
  <2>5. BrowserTypes'
    BY <1>41, <2>1, BeginCancelTypes DEF InterruptCancels
  <2>6. IntrOK'
    BY <1>41, <2>1, BeginCancelTypes DEF InterruptCancels
  <2> QED BY <2>2, <2>3, <2>4, <2>5, <2>6
<1>8. CASE InterruptCancelSent
  <2>1. SessionTypes'
    BY <1>8, StopBrowserTypes DEF InterruptCancelSent
  <2>2. CoroutineTypes'
    BY <1>8, StopBrowserTypes DEF InterruptCancelSent
  <2>3. ProviderTypes'
    BY <1>8, StopBrowserTypes DEF InterruptCancelSent
  <2>4. BrowserTypes'
    BY <1>8, StopBrowserTypes DEF InterruptCancelSent
  <2>5. IntrOK'
    BY <1>8, StopBrowserTypes DEF InterruptCancelSent
  <2> QED BY <2>1, <2>2, <2>3, <2>4, <2>5
<1>9. CASE InterruptReconcile
  <2>1. clientPc \in InterruptPcs /\ intr.rid \in Responses
    BY <1>9 DEF InterruptReconcile
  <2>2. CASE intr.rid \in voiced
    BY <1>9, <2>1, <2>2 DEF InterruptReconcile
  <2>3. CASE intr.rid \notin voiced
    BY <1>9, <2>1, <2>3, RecordTypes DEF InterruptReconcile
  <2> QED BY <2>2, <2>3
<1>10. CASE InterruptTruncated
  <2>1. clientPc \in InterruptPcs
    BY <1>10 DEF InterruptTruncated
  <2> QED BY <1>10, <2>1, RecordTypes DEF InterruptTruncated
<1>42. CASE InterruptRecorded
  <2>1. SessionTypes'
    BY <1>42, CallerTypes DEF InterruptRecorded, NoInterrupt
  <2>2. CoroutineTypes'
    BY <1>42, CallerTypes DEF InterruptRecorded, NoInterrupt
  <2>3. ProviderTypes'
    BY <1>42, CallerTypes DEF InterruptRecorded, NoInterrupt
  <2>4. BrowserTypes'
    BY <1>42, CallerTypes DEF InterruptRecorded, NoInterrupt
  <2>5. IntrOK'
    BY <1>42, CallerTypes DEF InterruptRecorded, NoInterrupt
  <2> QED BY <2>1, <2>2, <2>3, <2>4, <2>5
<1>43. CASE BargeInNoticed
  <2>1. SessionTypes'
    BY <1>43, InterruptTypes DEF BargeInNoticed
  <2>2. CoroutineTypes'
    BY <1>43, InterruptTypes DEF BargeInNoticed
  <2>3. ProviderTypes'
    BY <1>43, InterruptTypes DEF BargeInNoticed
  <2>4. BrowserTypes'
    BY <1>43, InterruptTypes DEF BargeInNoticed
  <2>5. IntrOK'
    BY <1>43, InterruptTypes DEF BargeInNoticed
  <2> QED BY <2>1, <2>2, <2>3, <2>4, <2>5
<1>44. CASE AnswerInterpreted
  BY <1>44 DEF AnswerInterpreted
<1>45. CASE PlayoutReported
  BY <1>45 DEF PlayoutReported
<1>11. CASE TurnReconciled
  BY <1>11 DEF TurnReconciled, CommitTurn
<1>12. CASE TurnCommitted
  BY <1>12 DEF TurnCommitted
<1>13. CASE HandleResponseStarted
  <2>1. Head(events).rid \in Responses /\ events' \in Seq(Events)
    BY <1>13 DEF HandleResponseStarted, NextEvent
  <2>2. SessionTypes'
    BY <1>13, <2>1 DEF HandleResponseStarted
  <2>3. CoroutineTypes'
    BY <1>13, <2>1 DEF HandleResponseStarted
  <2>4. ProviderTypes'
    BY <1>13, <2>1 DEF HandleResponseStarted
  <2>5. BrowserTypes'
    BY <1>13, <2>1 DEF HandleResponseStarted
  <2>6. IntrOK'
    BY <1>13, <2>1 DEF HandleResponseStarted
  <2> QED BY <2>2, <2>3, <2>4, <2>5, <2>6
<1>14. CASE RefusalSent
  BY <1>14 DEF RefusalSent
<1>15. CASE AudioStartSent
  BY <1>15 DEF AudioStartSent
<1>16. CASE HandleAudioDelta
  BY <1>16 DEF HandleAudioDelta, NextEvent
<1>17. CASE HandleToolCall
  BY <1>17 DEF HandleToolCall, NextEvent
<1>18. CASE ToolFinished
  BY <1>18 DEF ToolFinished, SendToolResult
<1>19. CASE ConfirmationNeeded
  BY <1>19 DEF ConfirmationNeeded
<1>20. CASE ConfirmationAnswered
  BY <1>20 DEF ConfirmationAnswered
<1>21. CASE AnswerApplied
  BY <1>21 DEF AnswerApplied
<1>22. CASE ConfirmationTimesOut
  BY <1>22 DEF ConfirmationTimesOut
<1>23. CASE ToolReturned
  BY <1>23 DEF ToolReturned
<1>24. CASE HandleResponseDone
  BY <1>24 DEF HandleResponseDone, NextEvent
<1>25. CASE AudioEndSent
  BY <1>25 DEF AudioEndSent
<1>26. CASE HandleResponseCancelled
  BY <1>26 DEF HandleResponseCancelled, NextEvent
<1>27. CASE PumpAudio
  BY <1>27 DEF PumpAudio, Forwards
<1>28. CASE ReadClient
  BY <1>28 DEF ReadClient
<1>29. CASE Close
  BY <1>29 DEF Close
<1>30. CASE ProviderStarts
  <2>1. started + 1 \in Responses /\ started + 1 \in 0..MaxResponses
    BY <1>30, BoundsAreNat DEF ProviderStarts, Responses
  <2>2. events' \in Seq(Events) /\ commands' \in Seq(Commands)
    BY <1>30, <2>1 DEF ProviderStarts, NextCommand, EventTypes
  <2>3. SessionTypes'
    BY <1>30, <2>1, <2>2, BoundsAreNat DEF ProviderStarts
  <2>4. CoroutineTypes'
    BY <1>30, <2>1, <2>2, BoundsAreNat DEF ProviderStarts
  <2>5. ProviderTypes'
    BY <1>30, <2>1, <2>2, BoundsAreNat DEF ProviderStarts
  <2>6. BrowserTypes'
    BY <1>30, <2>1, <2>2, BoundsAreNat DEF ProviderStarts
  <2>7. IntrOK'
    BY <1>30, <2>1, <2>2, BoundsAreNat DEF ProviderStarts
  <2> QED BY <2>3, <2>4, <2>5, <2>6, <2>7
<1>31. CASE ProviderRejects
  BY <1>31 DEF ProviderRejects, NextCommand
<1>32. CASE ProviderSpeaks
  <2>1. events' \in Seq(Events) /\ framesOut' \in 0..MaxFrames
    BY <1>32, BoundsAreNat DEF ProviderSpeaks, EventTypes, NoResponse
  <2>2. SessionTypes'
    BY <1>32, <2>1 DEF ProviderSpeaks
  <2>3. CoroutineTypes'
    BY <1>32, <2>1 DEF ProviderSpeaks
  <2>4. ProviderTypes'
    BY <1>32, <2>1 DEF ProviderSpeaks
  <2>5. BrowserTypes'
    BY <1>32, <2>1 DEF ProviderSpeaks
  <2>6. IntrOK'
    BY <1>32, <2>1 DEF ProviderSpeaks
  <2> QED BY <2>2, <2>3, <2>4, <2>5, <2>6
<1>33. CASE ProviderCallsTool
  <2>1. events' \in Seq(Events) /\ toolCalls' \in 0..MaxTools
    BY <1>33, BoundsAreNat DEF ProviderCallsTool, EventTypes, NoResponse
  <2>2. SessionTypes'
    BY <1>33, <2>1 DEF ProviderCallsTool
  <2>3. CoroutineTypes'
    BY <1>33, <2>1 DEF ProviderCallsTool
  <2>4. ProviderTypes'
    BY <1>33, <2>1 DEF ProviderCallsTool
  <2>5. BrowserTypes'
    BY <1>33, <2>1 DEF ProviderCallsTool
  <2>6. IntrOK'
    BY <1>33, <2>1 DEF ProviderCallsTool
  <2> QED BY <2>2, <2>3, <2>4, <2>5, <2>6
<1>34. CASE ProviderFinishes
  <2>1. events' \in Seq(Events)
    BY <1>34, BoundsAreNat DEF ProviderFinishes, EventTypes, NoResponse
  <2>2. SessionTypes'
    BY <1>34, <2>1 DEF ProviderFinishes
  <2>3. CoroutineTypes'
    BY <1>34, <2>1 DEF ProviderFinishes
  <2>4. ProviderTypes'
    BY <1>34, <2>1 DEF ProviderFinishes
  <2>5. BrowserTypes'
    BY <1>34, <2>1 DEF ProviderFinishes
  <2>6. IntrOK'
    BY <1>34, <2>1 DEF ProviderFinishes
  <2> QED BY <2>2, <2>3, <2>4, <2>5, <2>6
<1>35. CASE ProviderCancels
  <2>1. events' \in Seq(Events)
    BY <1>35, BoundsAreNat DEF ProviderCancels, EventTypes, NoResponse
  <2>2. SessionTypes'
    BY <1>35, <2>1 DEF ProviderCancels, NextCommand
  <2>3. CoroutineTypes'
    BY <1>35, <2>1 DEF ProviderCancels, NextCommand
  <2>4. ProviderTypes'
    BY <1>35, <2>1 DEF ProviderCancels, NextCommand
  <2>5. BrowserTypes'
    BY <1>35, <2>1 DEF ProviderCancels, NextCommand
  <2>6. IntrOK'
    BY <1>35, <2>1 DEF ProviderCancels, NextCommand
  <2> QED BY <2>2, <2>3, <2>4, <2>5, <2>6
<1>36. CASE BrowserDrains
  <2>1. SessionTypes'
    BY <1>36 DEF BrowserDrains
  <2>2. CoroutineTypes'
    BY <1>36 DEF BrowserDrains
  <2>3. ProviderTypes'
    BY <1>36 DEF BrowserDrains
  <2>4. BrowserTypes'
    BY <1>36 DEF BrowserDrains
  <2>5. IntrOK'
    BY <1>36 DEF BrowserDrains
  <2> QED BY <2>1, <2>2, <2>3, <2>4, <2>5
<1>37. CASE ClientStops
  BY <1>37 DEF ClientStops
<1>38. CASE ProviderStops
  BY <1>38 DEF ProviderStops
<1>39. CASE CloseDialog
  BY <1>39 DEF CloseDialog
<1>40. CASE UNCHANGED vars
  BY <1>40 DEF vars
<1> QED
  BY <1>1, <1>2, <1>3, <1>4, <1>5, <1>6, <1>7, <1>8, <1>9, <1>10, <1>11, <1>12, <1>13, <1>14,
     <1>15, <1>16, <1>17, <1>18, <1>19, <1>20, <1>21, <1>22, <1>23, <1>24, <1>25, <1>26, <1>27,
     <1>28, <1>29, <1>30, <1>31, <1>32, <1>33, <1>34, <1>35, <1>36, <1>37, <1>38, <1>39, <1>40,
     <1>41, <1>42, <1>43, <1>44, <1>45
  DEF Next, ClientResumes, ClientHandles, ProviderResumes, ProviderHandles, Environment

\* Every variable has its type in every state a session reaches, and the
\* response interrupt() works on is one that was started.
THEOREM TypeCorrect == Spec => [](TypeOK /\ IntrOK)
<1>1. Init => TypeOK /\ IntrOK
  BY InitTypes
<1>2. (TypeOK /\ IntrOK) /\ [Next]_vars => (TypeOK /\ IntrOK)'
  BY NextTypes
<1> QED BY <1>1, <1>2, PTL DEF Spec

-----------------------------------------------------------------------------
(***************************************************************************)
(* Nothing but the interrupted response is heard until the user's turn.    *)
(***************************************************************************)
\* An interrupted dialog is being reconciled, or waits for the user's turn.
InterruptedHasHolder ==
  ~closed /\ dialog = "INTERRUPTED" =>
    clientPc \in (InterruptPcs \ {"detecting"}) \cup {"idle", "reporting"}

\* It waits for the turn without a response of its own, reports included.
HolderIsQuiet ==
  ~closed /\ dialog = "INTERRUPTED" /\ clientPc \in {"idle", "reporting"} =>
    current = NoResponse /\ audible = NoResponse

\* interrupt() clears _audible before the truncation is sent, and nothing
\* sets it again before the record is written.
TruncatingIsQuiet ==
  ~closed /\ dialog = "INTERRUPTED" /\ clientPc \in {"truncating", "recording"} =>
    audible = NoResponse

Quiet == InterruptedHasHolder /\ HolderIsQuiet /\ TruncatingIsQuiet

\* A session starts listening.
LEMMA InitQuiet == Init => Quiet
BY DEF Init, Quiet, InterruptedHasHolder, HolderIsQuiet, TruncatingIsQuiet

\* Only a barge-in leads to INTERRUPTED, and "reconciled" leads out of it.
LEMMA DialogMoves ==
  ASSUME NEW s \in DialogStates, NEW t
  PROVE  /\ DialogFire(s, t) = "INTERRUPTED" => s = "INTERRUPTED" \/ t = "barge_in"
         /\ t = "reconciled" => DialogFire(s, t) # "INTERRUPTED"
<1>1. \A u \in DOMAIN DialogTable[s] : DialogTable[s][u] = "INTERRUPTED" => u = "barge_in"
  BY DEF DialogStates, DialogTable
<1>2. /\ "reconciled" \in DOMAIN DialogTable["INTERRUPTED"]
      /\ DialogTable["INTERRUPTED"]["reconciled"] = "LISTENING"
  BY DEF DialogTable
<1> QED BY <1>1, <1>2 DEF DialogFire, DialogCan

\* A turn takes the dialog out of INTERRUPTED.
LEMMA BeginTurnLeaves ==
  ASSUME TypeOK, NEW k \in {"text_received", "end_of_turn"}, BeginTurn(k)
  PROVE  dialog' # "INTERRUPTED"
BY DialogMoves DEF BeginTurn, CommitTurn, TypeOK, SessionTypes

\* So does a text, which is a turn unless the dialog waits for an answer.
LEMMA TextTurnLeaves ==
  ASSUME TypeOK, TextTurn
  PROVE  dialog' # "INTERRUPTED"
BY BeginTurnLeaves DEF TextTurn

\* What follows an interruption does not bring INTERRUPTED about.
LEMMA CallerLeaves ==
  ASSUME TypeOK, NEW caller, CallerGoesOn(caller), dialog # "INTERRUPTED"
  PROVE  dialog' # "INTERRUPTED"
BY TextTurnLeaves DEF CallerGoesOn

\* A step that leaves the client pump alone, gives no response the floor and
\* does not fire "barge_in" keeps the invariant.  All the steps of the provider
\* pump but RESPONSE_STARTED are of this kind.
LEMMA OthersKeepQuiet ==
  ASSUME TypeOK, Quiet, UNCHANGED <<clientPc, closed>>,
         current' \in {current, NoResponse}, audible' \in {audible, NoResponse},
         \/ dialog' = dialog
         \/ \E t : t # "barge_in" /\ dialog' = DialogFire(dialog, t)
  PROVE  Quiet'
<1>1. dialog' = "INTERRUPTED" => dialog = "INTERRUPTED"
  BY DialogMoves DEF TypeOK, SessionTypes
<1> QED
  BY <1>1 DEF Quiet, InterruptedHasHolder, HolderIsQuiet, TruncatingIsQuiet

\* Every step keeps the invariant, one case per action.
LEMMA NextQuiet == TypeOK /\ Quiet /\ [Next]_vars => Quiet'
<1> SUFFICES ASSUME TypeOK, Quiet, [Next]_vars PROVE Quiet'
  OBVIOUS
<1> USE DEF session, clientCo, providerCo, provider, browser
<1>1. CASE UserSpeaks
  BY <1>1, OthersKeepQuiet DEF UserSpeaks
<1>2. CASE HandleBargeIn
  <2>1. ~closed => dialog # "INTERRUPTED"
    BY <1>2 DEF HandleBargeIn, ClientIdle, AudibleNow, Quiet, HolderIsQuiet
  <2> QED BY <1>2, <2>1 DEF HandleBargeIn, Quiet, InterruptedHasHolder, HolderIsQuiet, TruncatingIsQuiet
<1>3. CASE HandleText
  <2>1. dialog' # "INTERRUPTED"
    <3>1. CASE /\ dialog = "SPEAKING" \/ AudibleNow # {NoResponse}
               /\ Interrupt("text_received")
      <4>1. dialog # "INTERRUPTED"
        BY <1>3, <3>1 DEF HandleText, ClientIdle, AudibleNow, Quiet, HolderIsQuiet
      <4> QED BY <3>1, <4>1, InterruptBegins, CallerLeaves DEF TypeOK
    <3>2. CASE TextTurn
      BY <3>2, TextTurnLeaves
    <3> QED BY <1>3, <3>1, <3>2 DEF HandleText
  <2> QED BY <2>1 DEF Quiet, InterruptedHasHolder, HolderIsQuiet, TruncatingIsQuiet
<1>4. CASE HandleEndOfTurn
  <2>1. dialog' # "INTERRUPTED"
    BY <1>4, BeginTurnLeaves DEF HandleEndOfTurn
  <2> QED BY <2>1 DEF Quiet, InterruptedHasHolder, HolderIsQuiet, TruncatingIsQuiet
<1>5. CASE AudibleExpires
  BY <1>5, OthersKeepQuiet DEF AudibleExpires
<1>6. CASE HandlePlayoutStopped
  BY <1>6 DEF HandlePlayoutStopped, InterruptPcs, Quiet, InterruptedHasHolder, HolderIsQuiet, TruncatingIsQuiet
<1>7. CASE InterruptDetected
  BY <1>7 DEF InterruptDetected, InterruptPcs, Quiet, InterruptedHasHolder, HolderIsQuiet, TruncatingIsQuiet
<1>8. CASE InterruptCancels
  BY <1>8 DEF InterruptCancels, BeginCancel, InterruptPcs, Quiet, InterruptedHasHolder, HolderIsQuiet, TruncatingIsQuiet
<1>9. CASE InterruptCancelSent
  BY <1>9 DEF InterruptCancelSent, InterruptPcs, Quiet, InterruptedHasHolder, HolderIsQuiet, TruncatingIsQuiet
<1>10. CASE InterruptReconcile
  BY <1>10 DEF InterruptReconcile, RecordInterrupt, InterruptPcs, Quiet, InterruptedHasHolder, HolderIsQuiet, TruncatingIsQuiet
<1>11. CASE InterruptTruncated
  BY <1>11 DEF InterruptTruncated, RecordInterrupt, InterruptPcs, Quiet, InterruptedHasHolder, HolderIsQuiet, TruncatingIsQuiet
<1>12. CASE InterruptRecorded
  <2>1. CASE task = "text_received"
    BY <1>12, <2>1, TextTurnLeaves DEF InterruptRecorded, CallerGoesOn, Quiet, InterruptedHasHolder, HolderIsQuiet, TruncatingIsQuiet
  <2>2. CASE task # "text_received"
    BY <1>12, <2>2 DEF InterruptRecorded, CallerGoesOn, Rest, Quiet, InterruptedHasHolder, HolderIsQuiet, TruncatingIsQuiet
  <2> QED BY <2>1, <2>2
<1>13. CASE BargeInNoticed
  <2>1. ~closed => dialog # "INTERRUPTED"
    BY <1>13 DEF BargeInNoticed, Quiet, InterruptedHasHolder, InterruptPcs
  <2>2. ~closed => dialog' # "INTERRUPTED"
    BY <1>13, <2>1, InterruptBegins, CallerLeaves DEF BargeInNoticed, TypeOK
  <2> QED BY <1>13, <2>2 DEF BargeInNoticed, Quiet, InterruptedHasHolder, InterruptPcs, HolderIsQuiet, TruncatingIsQuiet
<1>14. CASE AnswerInterpreted
  BY <1>14 DEF AnswerInterpreted, Rest, InterruptPcs, Quiet, InterruptedHasHolder, HolderIsQuiet, TruncatingIsQuiet
<1>15. CASE PlayoutReported
  BY <1>15 DEF PlayoutReported, Rest, InterruptPcs, Quiet, InterruptedHasHolder, HolderIsQuiet, TruncatingIsQuiet
<1>16. CASE TurnReconciled
  <2>1. ~closed => dialog # "INTERRUPTED"
    BY <1>16 DEF TurnReconciled, Quiet, InterruptedHasHolder, InterruptPcs
  <2>2. dialog # "INTERRUPTED" => dialog' # "INTERRUPTED"
    BY <1>16, DialogMoves DEF TurnReconciled, CommitTurn, TypeOK, SessionTypes, CoroutineTypes
  <2> QED BY <1>16, <2>1, <2>2 DEF TurnReconciled, Quiet, InterruptedHasHolder, InterruptPcs, HolderIsQuiet, TruncatingIsQuiet
<1>17. CASE TurnCommitted
  BY <1>17 DEF TurnCommitted, Rest, InterruptPcs, Quiet, InterruptedHasHolder, HolderIsQuiet, TruncatingIsQuiet
<1>18. CASE HandleResponseStarted
  <2>1. CASE dialog = "INTERRUPTED"
    BY <1>18, <2>1, OthersKeepQuiet DEF HandleResponseStarted
  <2>2. CASE dialog # "INTERRUPTED"
    <3>1. dialog' # "INTERRUPTED"
      BY <1>18, <2>2, DialogMoves DEF HandleResponseStarted, TypeOK, SessionTypes
    <3> QED BY <3>1 DEF Quiet, InterruptedHasHolder, HolderIsQuiet, TruncatingIsQuiet
  <2> QED BY <2>1, <2>2
<1>19. CASE RefusalSent
  BY <1>19, OthersKeepQuiet DEF RefusalSent
<1>20. CASE AudioStartSent
  BY <1>20, OthersKeepQuiet DEF AudioStartSent
<1>21. CASE HandleAudioDelta
  BY <1>21, OthersKeepQuiet DEF HandleAudioDelta
<1>22. CASE HandleToolCall
  BY <1>22, OthersKeepQuiet DEF HandleToolCall
<1>23. CASE ToolFinished
  BY <1>23, OthersKeepQuiet DEF ToolFinished
<1>24. CASE ConfirmationNeeded
  BY <1>24, OthersKeepQuiet DEF ConfirmationNeeded
<1>25. CASE ConfirmationAnswered
  BY <1>25, OthersKeepQuiet DEF ConfirmationAnswered
<1>26. CASE AnswerApplied
  BY <1>26, OthersKeepQuiet DEF AnswerApplied
<1>27. CASE ConfirmationTimesOut
  BY <1>27, OthersKeepQuiet DEF ConfirmationTimesOut
<1>28. CASE ToolReturned
  BY <1>28, OthersKeepQuiet DEF ToolReturned
<1>29. CASE HandleResponseDone
  BY <1>29, OthersKeepQuiet DEF HandleResponseDone
<1>30. CASE AudioEndSent
  BY <1>30, OthersKeepQuiet DEF AudioEndSent
<1>31. CASE HandleResponseCancelled
  BY <1>31, OthersKeepQuiet DEF HandleResponseCancelled
<1>32. CASE PumpAudio
  BY <1>32, OthersKeepQuiet DEF PumpAudio
<1>33. CASE ReadClient
  BY <1>33, OthersKeepQuiet DEF ReadClient
<1>34. CASE Close
  BY <1>34 DEF Close, InterruptPcs, Quiet, InterruptedHasHolder, HolderIsQuiet, TruncatingIsQuiet
<1>35. CASE CloseDialog
  <2>1. closed'
    BY <1>35 DEF CloseDialog
  <2> QED BY <2>1 DEF Quiet, InterruptedHasHolder, HolderIsQuiet, TruncatingIsQuiet
<1>36. CASE ProviderStarts
  BY <1>36, OthersKeepQuiet DEF ProviderStarts
<1>37. CASE ProviderRejects
  BY <1>37, OthersKeepQuiet DEF ProviderRejects
<1>38. CASE ProviderSpeaks
  BY <1>38, OthersKeepQuiet DEF ProviderSpeaks
<1>39. CASE ProviderCallsTool
  BY <1>39, OthersKeepQuiet DEF ProviderCallsTool
<1>40. CASE ProviderFinishes
  BY <1>40, OthersKeepQuiet DEF ProviderFinishes
<1>41. CASE ProviderCancels
  BY <1>41, OthersKeepQuiet DEF ProviderCancels
<1>42. CASE BrowserDrains
  BY <1>42, OthersKeepQuiet DEF BrowserDrains
<1>43. CASE ClientStops
  BY <1>43 DEF ClientStops, InterruptPcs, Quiet, InterruptedHasHolder, HolderIsQuiet, TruncatingIsQuiet
<1>44. CASE ProviderStops
  BY <1>44, OthersKeepQuiet DEF ProviderStops
<1>45. CASE UNCHANGED vars
  BY <1>45, OthersKeepQuiet DEF vars
<1> QED
  BY <1>1, <1>2, <1>3, <1>4, <1>5, <1>6, <1>7, <1>8, <1>9, <1>10, <1>11, <1>12, <1>13,
     <1>14, <1>15, <1>16, <1>17, <1>18, <1>19, <1>20, <1>21, <1>22, <1>23, <1>24, <1>25,
     <1>26, <1>27, <1>28, <1>29, <1>30, <1>31, <1>32, <1>33, <1>34, <1>35, <1>36, <1>37,
     <1>38, <1>39, <1>40, <1>41, <1>42, <1>43, <1>44, <1>45
  DEF Next, ClientResumes, ClientHandles, ProviderResumes, ProviderHandles, Environment

\* After an interruption and until the user's turn the session owns no
\* response: interrupt() leaves _current_response and _audible empty, and what
\* the provider starts in between is refused.
THEOREM InterruptionIsQuiet == Spec => []InterruptedIsQuiet
<1>1. Init => Quiet
  BY InitQuiet
<1>2. TypeOK /\ Quiet /\ [Next]_vars => Quiet'
  BY NextQuiet
<1>3. TypeOK /\ IntrOK => TypeOK
  OBVIOUS
<1>4. Quiet => InterruptedIsQuiet
  BY DEF Quiet, HolderIsQuiet, InterruptedIsQuiet
<1> QED BY <1>1, <1>2, <1>3, <1>4, TypeCorrect, PTL DEF Spec

-----------------------------------------------------------------------------
\* The steps that give a response the floor, each when the dialog is not, or
\* does not stay, INTERRUPTED.
LEMMA NextFloor ==
  ASSUME TypeOK, [Next]_vars, dialog = "INTERRUPTED"
  PROVE  current' \in {current, NoResponse} /\ audible' \in {audible, NoResponse}
<1> USE DEF session, clientCo, providerCo, provider, browser
<1>1. CASE UserSpeaks
  BY <1>1 DEF UserSpeaks
<1>2. CASE HandleBargeIn
  BY <1>2 DEF HandleBargeIn
<1>3. CASE HandleText
  BY <1>3, InterruptBegins DEF HandleText, TypeOK
<1>4. CASE HandleEndOfTurn
  BY <1>4 DEF HandleEndOfTurn
<1>5. CASE AudibleExpires
  BY <1>5 DEF AudibleExpires
<1>6. CASE HandlePlayoutStopped
  BY <1>6 DEF HandlePlayoutStopped
<1>7. CASE InterruptDetected
  BY <1>7 DEF InterruptDetected
<1>8. CASE InterruptCancels
  BY <1>8 DEF InterruptCancels
<1>9. CASE InterruptCancelSent
  BY <1>9 DEF InterruptCancelSent
<1>10. CASE InterruptReconcile
  BY <1>10 DEF InterruptReconcile
<1>11. CASE InterruptTruncated
  BY <1>11 DEF InterruptTruncated
<1>12. CASE InterruptRecorded
  BY <1>12 DEF InterruptRecorded
<1>13. CASE BargeInNoticed
  BY <1>13, InterruptBegins DEF BargeInNoticed, TypeOK
<1>14. CASE AnswerInterpreted
  BY <1>14 DEF AnswerInterpreted
<1>15. CASE PlayoutReported
  BY <1>15 DEF PlayoutReported
<1>16. CASE TurnReconciled
  BY <1>16 DEF TurnReconciled
<1>17. CASE TurnCommitted
  BY <1>17 DEF TurnCommitted
<1>18. CASE HandleResponseStarted
  BY <1>18 DEF HandleResponseStarted
<1>19. CASE RefusalSent
  BY <1>19 DEF RefusalSent
<1>20. CASE AudioStartSent
  BY <1>20 DEF AudioStartSent
<1>21. CASE HandleAudioDelta
  BY <1>21 DEF HandleAudioDelta
<1>22. CASE HandleToolCall
  BY <1>22 DEF HandleToolCall
<1>23. CASE ToolFinished
  BY <1>23 DEF ToolFinished
<1>24. CASE ConfirmationNeeded
  BY <1>24 DEF ConfirmationNeeded
<1>25. CASE ConfirmationAnswered
  BY <1>25 DEF ConfirmationAnswered
<1>26. CASE AnswerApplied
  BY <1>26 DEF AnswerApplied
<1>27. CASE ConfirmationTimesOut
  BY <1>27 DEF ConfirmationTimesOut
<1>28. CASE ToolReturned
  BY <1>28 DEF ToolReturned
<1>29. CASE HandleResponseDone
  BY <1>29 DEF HandleResponseDone
<1>30. CASE AudioEndSent
  BY <1>30 DEF AudioEndSent
<1>31. CASE HandleResponseCancelled
  BY <1>31 DEF HandleResponseCancelled
<1>32. CASE PumpAudio
  BY <1>32 DEF PumpAudio
<1>33. CASE ReadClient
  BY <1>33 DEF ReadClient
<1>34. CASE Close
  BY <1>34 DEF Close
<1>35. CASE CloseDialog
  BY <1>35 DEF CloseDialog
<1>36. CASE ProviderStarts
  BY <1>36 DEF ProviderStarts
<1>37. CASE ProviderRejects
  BY <1>37 DEF ProviderRejects
<1>38. CASE ProviderSpeaks
  BY <1>38 DEF ProviderSpeaks
<1>39. CASE ProviderCallsTool
  BY <1>39 DEF ProviderCallsTool
<1>40. CASE ProviderFinishes
  BY <1>40 DEF ProviderFinishes
<1>41. CASE ProviderCancels
  BY <1>41 DEF ProviderCancels
<1>42. CASE BrowserDrains
  BY <1>42 DEF BrowserDrains
<1>43. CASE ClientStops
  BY <1>43 DEF ClientStops
<1>44. CASE ProviderStops
  BY <1>44 DEF ProviderStops
<1>45. CASE UNCHANGED vars
  BY <1>45 DEF vars
<1> QED
  BY <1>1, <1>2, <1>3, <1>4, <1>5, <1>6, <1>7, <1>8, <1>9, <1>10, <1>11, <1>12, <1>13,
     <1>14, <1>15, <1>16, <1>17, <1>18, <1>19, <1>20, <1>21, <1>22, <1>23, <1>24, <1>25,
     <1>26, <1>27, <1>28, <1>29, <1>30, <1>31, <1>32, <1>33, <1>34, <1>35, <1>36, <1>37,
     <1>38, <1>39, <1>40, <1>41, <1>42, <1>43, <1>44, <1>45
  DEF Next, ClientResumes, ClientHandles, ProviderResumes, ProviderHandles, Environment

\* The provider cannot take the floor back: wherever interrupt() is suspended,
\* and until the user's turn, no handler sets _current_response or _audible.
THEOREM FloorStaysWithUser == Spec => FloorKept
<1>1. TypeOK /\ [Next]_vars =>
        [ dialog = "INTERRUPTED" /\ dialog' = "INTERRUPTED" =>
            current' \in {current, NoResponse} /\ audible' \in {audible, NoResponse} ]_vars
  BY NextFloor
<1> QED BY <1>1, TypeCorrect, PTL DEF Spec, FloorKept


-----------------------------------------------------------------------------
(***************************************************************************)
(* A response is interrupted once.                                         *)
(***************************************************************************)
Recorded == {interruptions[i] : i \in DOMAIN interruptions}

\* The responses the session has come to know.
Known == Recorded \cup {current, audible, intr.rid}

\* What is on record is cancelled, so it is not audible any more; it is current only until the
\* record is complete, and what is being interrupted is not on record yet.
Once ==
  /\ InterruptedOnce
  /\ Recorded \subseteq cancelled
  /\ clientPc \in InterruptPcs \ {"recording"} => intr.rid \notin Recorded
  /\ clientPc = "truncating" => intr.rid \in cancelled
  /\ current \in Recorded => clientPc = "recording"

\* A response that is still to be announced (ev) is not known (kn), and is announced once: the
\* provider numbers them as it starts them (st).
Fresh(ev, kn, st) ==
  /\ kn \subseteq 0..st
  /\ \A k \in DOMAIN ev : ev[k].rid \in 1..st
  /\ \A k \in DOMAIN ev : ev[k].type = "response_started" => ev[k].rid \notin kn
  /\ \A k, l \in DOMAIN ev :
       /\ ev[k].type = "response_started" /\ ev[l].type = "response_started"
       /\ ev[k].rid = ev[l].rid
       => k = l

Apart == Once /\ Fresh(events, Known, started) /\ generating \in 0..started

\* Nothing is interrupted at the start.
LEMMA InitApart == Init => Apart
<1> SUFFICES ASSUME Init PROVE Apart
  OBVIOUS
<1> USE DEF Init
<1>1. Recorded = {} /\ Known = {0}
  BY DEF Recorded, Known, NoInterrupt, NoResponse
<1>2. Once
  BY <1>1 DEF Once, InterruptedOnce, InterruptPcs, NoResponse
<1>3. Fresh(events, Known, started) /\ generating \in 0..started
  BY <1>1 DEF Fresh, NoResponse
<1> QED BY <1>2, <1>3 DEF Apart

\* What is on record is a response.
LEMMA RecordedExist == TypeOK => NoResponse \notin Recorded
<1> SUFFICES ASSUME TypeOK PROVE NoResponse \notin Recorded
  OBVIOUS
<1>1. \A i \in DOMAIN interruptions : interruptions[i] \in Responses
  BY DEF TypeOK, SessionTypes
<1>2. NoResponse \notin Responses
  BY DEF Responses, NoResponse
<1> QED BY <1>1, <1>2 DEF Recorded

\* The announcements that are left when the first is taken, and when one is added.
LEMMA FreshTail ==
  ASSUME NEW ev \in Seq(Events), NEW kn, NEW st \in Nat, Fresh(ev, kn, st), ev # <<>>
  PROVE  /\ Fresh(Tail(ev), kn, st)
         /\ Head(ev).type = "response_started" => Fresh(Tail(ev), kn \cup {Head(ev).rid}, st)
<1>1. /\ Len(ev) \in Nat \ {0} /\ DOMAIN Tail(ev) = 1..(Len(ev) - 1) /\ DOMAIN ev = 1..Len(ev)
      /\ \A k \in 1..(Len(ev) - 1) : Tail(ev)[k] = ev[k + 1]
      /\ Head(ev) = ev[1]
  OBVIOUS
<1>2. \A k \in DOMAIN Tail(ev) : k + 1 \in DOMAIN ev /\ k + 1 # 1 /\ Tail(ev)[k] = ev[k + 1]
  BY <1>1
<1>3. \A k, l \in DOMAIN Tail(ev) : k + 1 = l + 1 => k = l
  BY <1>1
<1>4. 1 \in DOMAIN ev
  BY <1>1
<1>5. Fresh(Tail(ev), kn, st)
  BY <1>2, <1>3 DEF Fresh
<1>6. ASSUME Head(ev).type = "response_started"
      PROVE  Fresh(Tail(ev), kn \cup {Head(ev).rid}, st)
  <2>1. Head(ev).rid \in 0..st
    BY <1>1, <1>4 DEF Fresh
  <2>2. \A k \in DOMAIN Tail(ev) :
          Tail(ev)[k].type = "response_started" => Tail(ev)[k].rid # Head(ev).rid
    BY <1>1, <1>2, <1>4, <1>6 DEF Fresh
  <2> QED BY <1>5, <2>1, <2>2 DEF Fresh
<1> QED BY <1>5, <1>6

\* An event of a response that has started, other than its start, keeps the queue fresh.
LEMMA FreshAppend ==
  ASSUME NEW ev \in Seq(Events), NEW kn, NEW st \in Nat, Fresh(ev, kn, st),
         NEW e \in Events, e.rid \in 1..st,
         e.type # "response_started"
  PROVE  Fresh(Append(ev, e), kn, st)
<1>1. /\ Len(ev) \in Nat /\ DOMAIN ev = 1..Len(ev) /\ DOMAIN Append(ev, e) = 1..(Len(ev) + 1)
      /\ \A k \in DOMAIN ev : Append(ev, e)[k] = ev[k]
      /\ Append(ev, e)[Len(ev) + 1] = e
  OBVIOUS
<1>2. \A k \in DOMAIN Append(ev, e) : k \in DOMAIN ev \/ k = Len(ev) + 1
  BY <1>1
<1> QED BY <1>1, <1>2 DEF Fresh

\* The start of the next response keeps the queue fresh.
LEMMA FreshStart ==
  ASSUME NEW ev \in Seq(Events), NEW kn, NEW st \in Nat, Fresh(ev, kn, st),
         NEW e \in Events, e.rid = st + 1
  PROVE  Fresh(Append(ev, e), kn, st + 1)
<1>1. /\ Len(ev) \in Nat /\ DOMAIN ev = 1..Len(ev) /\ DOMAIN Append(ev, e) = 1..(Len(ev) + 1)
      /\ \A k \in DOMAIN ev : Append(ev, e)[k] = ev[k]
      /\ Append(ev, e)[Len(ev) + 1] = e
  OBVIOUS
<1>2. \A k \in DOMAIN Append(ev, e) : k \in DOMAIN ev \/ k = Len(ev) + 1
  BY <1>1
<1>3. kn \subseteq 0..(st + 1) /\ st + 1 \notin kn
  BY DEF Fresh
<1>4. \A k \in DOMAIN ev : ev[k].rid \in 1..(st + 1) /\ ev[k].rid # st + 1
  BY DEF Fresh
<1> QED BY <1>1, <1>2, <1>3, <1>4 DEF Fresh

\* A queue that is fresh is fresh for fewer responses that are known.
LEMMA FreshLess ==
  ASSUME NEW ev, NEW kn, NEW st \in Nat, Fresh(ev, kn, st),
         NEW less, less \subseteq kn \cup {0}
  PROVE  Fresh(ev, less, st)
BY DEF Fresh

\* A step that records nothing, gives no response the floor, and takes an event or adds one of
\* the response being generated.  All steps but those of an interruption and the start of a
\* response are of this kind.
LEMMA OthersKeepApart ==
  ASSUME TypeOK, Apart, UNCHANGED <<interruptions, intr, started>>,
         cancelled \subseteq cancelled',
         current' \in {current, NoResponse}, audible' \in {audible, NoResponse},
         generating' \in {generating, NoResponse},
         \/ clientPc' = clientPc
         \/ clientPc \notin InterruptPcs /\ clientPc' \notin InterruptPcs,
         \/ events' = events
         \/ events # <<>> /\ events' = Tail(events)
         \/ /\ generating # NoResponse
            /\ \E t \in EventTypes \ {"response_started"} :
                 events' = Append(events, [type |-> t, rid |-> generating])
  PROVE  Apart'
<1>1. Recorded' = Recorded
  BY DEF Recorded
<1>2. NoResponse \notin Recorded
  BY RecordedExist
<1>3. Once'
  <2>1. InterruptedOnce' /\ Recorded' \subseteq cancelled'
    BY <1>1 DEF Apart, Once, InterruptedOnce
  <2>2. "recording" \in InterruptPcs /\ "truncating" \in InterruptPcs
    BY DEF InterruptPcs
  <2> QED BY <1>1, <1>2, <2>1, <2>2 DEF Apart, Once
<1>4. Known' \subseteq Known \cup {0}
  BY <1>1 DEF Known, NoResponse
<1>5. events \in Seq(Events) /\ started \in Nat /\ generating \in Voice
  BY DEF TypeOK, ProviderTypes
<1>6. Fresh(events', Known, started)
  <2>1. CASE events' = events
    BY <2>1 DEF Apart
  <2>2. CASE events # <<>> /\ events' = Tail(events)
    BY <1>5, <2>2, FreshTail DEF Apart
  <2>3. ASSUME generating # NoResponse, NEW t \in EventTypes \ {"response_started"},
               events' = Append(events, [type |-> t, rid |-> generating])
        PROVE  Fresh(events', Known, started)
    <3>1. generating \in Responses /\ generating \in 1..started
      BY <1>5, <2>3 DEF Voice, Responses, NoResponse, Apart
    <3>2. [type |-> t, rid |-> generating] \in Events
      BY <3>1 DEF Events
    <3> QED BY <1>5, <2>3, <3>1, <3>2, FreshAppend DEF Apart
  <2> QED BY <2>1, <2>2, <2>3
<1>7. Fresh(events', Known', started')
  BY <1>4, <1>5, <1>6, FreshLess
<1>8. generating' \in 0..started'
  BY <1>5 DEF Apart, NoResponse
<1> QED BY <1>3, <1>7, <1>8 DEF Apart

\* interrupt() begins with a response that is current or audible, and so not on record.
LEMMA BeginsApart ==
  ASSUME TypeOK, Apart, NEW caller \in {"frame", "text_received"}, Interrupt(caller),
         clientPc \notin InterruptPcs,
         UNCHANGED <<cancelled, current, interruptions, events, started, generating>>
  PROVE  Apart'
<1> DEFINE speaking == dialog = "SPEAKING" /\ current # NoResponse
<1> DEFINE Rid(a) == IF speaking THEN current ELSE a
<1>1. PICK a \in AudibleNow :
        /\ audible' = IF speaking THEN audible ELSE a
        /\ IF Rid(a) = NoResponse
           THEN CallerGoesOn(caller) /\ UNCHANGED intr
           ELSE /\ intr' = [rid |-> Rid(a), late |-> ~speaking]
                /\ clientPc' = "detecting"
  BY DEF Interrupt
<1>2. a \in {audible, NoResponse} /\ (a # NoResponse => a \notin cancelled)
  BY DEF AudibleNow
<1>3. audible' \in {audible, NoResponse}
  BY <1>1, <1>2
<1>4. CASE Rid(a) = NoResponse
  <2>1. clientPc' \notin InterruptPcs
    BY <1>1, <1>4, CallerTypes DEF TypeOK, InterruptPcs
  <2> QED BY <1>1, <1>3, <1>4, <2>1, OthersKeepApart
<1>5. CASE Rid(a) # NoResponse
  <2>1. intr'.rid = Rid(a) /\ clientPc' = "detecting" /\ Recorded' = Recorded
    BY <1>1, <1>5 DEF Recorded
  <2>2. "recording" \in InterruptPcs
    BY DEF InterruptPcs
  <2>3. Rid(a) \notin Recorded
    BY <1>2, <1>5, <2>2 DEF Apart, Once
  <2>4. Once'
    BY <2>1, <2>2, <2>3 DEF Apart, Once, InterruptedOnce
  <2>5. Known' \subseteq Known \cup {0}
    BY <1>2, <1>3, <2>1 DEF Known, NoResponse
  <2>6. Fresh(events', Known', started') /\ generating' \in 0..started'
    BY <2>5, FreshLess DEF Apart, TypeOK, ProviderTypes
  <2> QED BY <2>4, <2>6 DEF Apart
<1> QED BY <1>4, <1>5

\* The record of an interruption adds a response that was not on record.
LEMMA RecordApart ==
  ASSUME TypeOK, IntrOK, Apart, RecordInterrupt, clientPc \in InterruptPcs \ {"recording"},
         cancelled \subseteq cancelled', intr.rid \in cancelled',
         current' = current, audible' \in {audible, NoResponse},
         UNCHANGED <<events, started, generating>>
  PROVE  Apart'
<1> DEFINE n == Len(interruptions)
<1>1. /\ n \in Nat /\ DOMAIN interruptions = 1..n /\ DOMAIN interruptions' = 1..(n + 1)
      /\ \A i \in 1..n : interruptions'[i] = interruptions[i]
      /\ interruptions'[n + 1] = intr.rid
  <2>1. interruptions \in Seq(Responses) /\ intr.rid \in Responses
    BY DEF TypeOK, SessionTypes, IntrOK
  <2> QED BY <2>1 DEF RecordInterrupt
<1>2. \A i \in 1..(n + 1) : i \in 1..n \/ i = n + 1
  BY <1>1
<1>3. intr.rid \notin Recorded /\ clientPc' = "recording" /\ intr' = intr
  BY DEF Apart, Once, RecordInterrupt
<1> HIDE DEF n
<1>4. Recorded' = Recorded \cup {intr.rid}
  <2>1. Recorded' = {interruptions'[i] : i \in DOMAIN interruptions'}
    BY DEF Recorded
  <2>2. 1..(n + 1) = 1..n \cup {n + 1}
    BY <1>1
  <2> QED BY <1>1, <2>1, <2>2 DEF Recorded
<1>5. InterruptedOnce'
  <2>1. \A i \in 1..n : interruptions'[i] # intr.rid
    BY <1>1, <1>3 DEF Recorded
  <2>2. \A i, j \in 1..n : interruptions'[i] = interruptions'[j] => i = j
    BY <1>1 DEF Apart, Once, InterruptedOnce
  <2>3. \A i, j \in 1..(n + 1) : interruptions'[i] = interruptions'[j] => i = j
    BY <1>1, <1>2, <2>1, <2>2
  <2> QED BY <1>1, <2>3 DEF InterruptedOnce
<1>6. Once'
  BY <1>3, <1>4, <1>5 DEF Apart, Once
<1>7. Known' \subseteq Known \cup {0}
  BY <1>3, <1>4 DEF Known, NoResponse
<1>8. Fresh(events', Known', started') /\ generating' \in 0..started'
  BY <1>7, FreshLess DEF Apart, TypeOK, ProviderTypes
<1> QED BY <1>6, <1>8 DEF Apart

\* A step of interrupt() before its record.
LEMMA WithinApart ==
  ASSUME TypeOK, Apart,
         clientPc \in InterruptPcs \ {"recording"}, clientPc' \in InterruptPcs \ {"recording"},
         cancelled \subseteq cancelled', clientPc' = "truncating" => intr.rid \in cancelled',
         audible' \in {audible, NoResponse},
         UNCHANGED <<interruptions, intr, current, events, started, generating>>
  PROVE  Apart'
<1>1. Recorded' = Recorded
  BY DEF Recorded
<1>2. Once'
  BY <1>1 DEF Apart, Once, InterruptedOnce
<1>3. Known' \subseteq Known \cup {0}
  BY <1>1 DEF Known, NoResponse
<1>4. Fresh(events', Known', started') /\ generating' \in 0..started'
  BY <1>3, FreshLess DEF Apart, TypeOK, ProviderTypes
<1> QED BY <1>2, <1>4 DEF Apart

\* A response that is given the floor has just been announced.
LEMMA AcceptedApart ==
  ASSUME TypeOK, Apart, NextEvent("response_started"),
         current' = Head(events).rid, audible' = Head(events).rid,
         UNCHANGED <<cancelled, interruptions, intr, clientPc, started, generating>>
  PROVE  Apart'
<1> DEFINE rid == Head(events).rid
<1>1. events \in Seq(Events) /\ started \in Nat /\ events # <<>>
      /\ Head(events).type = "response_started" /\ events' = Tail(events)
  BY DEF TypeOK, ProviderTypes, NextEvent
<1>2. Fresh(events', Known \cup {rid}, started)
  BY <1>1, FreshTail DEF Apart
<1>3. rid \notin Known
  <2>1. 1 \in DOMAIN events /\ Head(events) = events[1]
    BY <1>1
  <2> QED BY <1>1, <2>1 DEF Apart, Fresh
<1>4. Recorded' = Recorded
  BY DEF Recorded
<1>5. Once'
  BY <1>3, <1>4 DEF Apart, Once, InterruptedOnce, Known
<1>6. Known' \subseteq (Known \cup {rid}) \cup {0}
  BY <1>4 DEF Known
<1>7. Fresh(events', Known', started')
  BY <1>1, <1>2, <1>6, FreshLess
<1> QED BY <1>5, <1>7 DEF Apart

\* Every step of a client handler keeps Apart.
LEMMA HandlesApart ==
  ASSUME TypeOK, IntrOK, Apart, ClientHandles
  PROVE  Apart'
<1> USE DEF InterruptPcs, session, clientCo, providerCo, provider, browser
<1>1. CASE UserSpeaks
  BY <1>1, OthersKeepApart DEF UserSpeaks, ClientIdle
<1>2. CASE HandleBargeIn
  BY <1>2, OthersKeepApart DEF HandleBargeIn, ClientIdle
<1>3. CASE HandleText
  <2>1. clientPc \notin InterruptPcs
    BY <1>3 DEF HandleText, ClientIdle
  <2>2. CASE Interrupt("text_received")
    BY <1>3, <2>1, <2>2, BeginsApart DEF HandleText
  <2>3. CASE audible' = NoResponse /\ TextTurn /\ UNCHANGED intr
    <3>1. clientPc' \notin InterruptPcs
      BY <2>3, TextTurnTypes DEF TypeOK
    <3> QED BY <1>3, <2>1, <2>3, <3>1, OthersKeepApart DEF HandleText
  <2> QED BY <1>3, <2>2, <2>3 DEF HandleText
<1>4. CASE HandleEndOfTurn
  BY <1>4, OthersKeepApart DEF HandleEndOfTurn, BeginTurn, CommitTurn
<1>5. CASE AudibleExpires
  BY <1>5, OthersKeepApart DEF AudibleExpires, ClientIdle
<1>6. CASE HandlePlayoutStopped
  BY <1>6, OthersKeepApart DEF HandlePlayoutStopped
<1>7. CASE ClientStops
  BY <1>7, OthersKeepApart DEF ClientStops
<1> QED BY <1>1, <1>2, <1>3, <1>4, <1>5, <1>6, <1>7 DEF ClientHandles

\* So does every step a suspended client pump resumes with.
LEMMA ResumesApart ==
  ASSUME TypeOK, IntrOK, Apart, ClientResumes
  PROVE  Apart'
<1> USE DEF InterruptPcs, session, clientCo, providerCo, provider, browser
<1>1. CASE BargeInNoticed
  <2>1. clientPc \notin InterruptPcs
    BY <1>1 DEF BargeInNoticed
  <2> QED BY <1>1, <2>1, BeginsApart DEF BargeInNoticed
<1>2. CASE InterruptDetected
  BY <1>2, WithinApart DEF InterruptDetected
<1>3. CASE InterruptCancels
  BY <1>3, WithinApart DEF InterruptCancels, BeginCancel
<1>4. CASE InterruptCancelSent
  BY <1>4, WithinApart DEF InterruptCancelSent
<1>5. CASE InterruptReconcile
  <2>1. CASE intr.rid \in voiced
    BY <1>5, <2>1, WithinApart DEF InterruptReconcile
  <2>2. CASE intr.rid \notin voiced
    BY <1>5, <2>2, RecordApart DEF InterruptReconcile
  <2> QED BY <2>1, <2>2
<1>6. CASE InterruptTruncated
  <2>1. intr.rid \in cancelled
    BY <1>6 DEF InterruptTruncated, Apart, Once
  <2> QED BY <1>6, <2>1, RecordApart DEF InterruptTruncated
<1>7. CASE InterruptRecorded
  <2>1. clientPc' \notin InterruptPcs
    BY <1>7, CallerTypes DEF InterruptRecorded, TypeOK
  <2>2. Recorded' = Recorded /\ current' = NoResponse /\ intr' = NoInterrupt
    BY <1>7 DEF InterruptRecorded, Recorded
  <2>3. NoResponse \notin Recorded
    BY RecordedExist
  <2>4. Once'
    BY <1>7, <2>1, <2>2, <2>3 DEF InterruptRecorded, Apart, Once, InterruptedOnce, InterruptPcs
  <2>5. Known' \subseteq Known \cup {0}
    BY <1>7, <2>2 DEF InterruptRecorded, Known, NoInterrupt, NoResponse
  <2>6. Fresh(events', Known', started') /\ generating' \in 0..started'
    BY <1>7, <2>5, FreshLess DEF InterruptRecorded, Apart, TypeOK, ProviderTypes, providerCo, provider
  <2> QED BY <2>4, <2>6 DEF Apart
<1>8. CASE AnswerInterpreted
  BY <1>8, OthersKeepApart DEF AnswerInterpreted, Rest
<1>9. CASE PlayoutReported
  BY <1>9, OthersKeepApart DEF PlayoutReported, Rest
<1>10. CASE TurnReconciled
  BY <1>10, OthersKeepApart DEF TurnReconciled, CommitTurn
<1>11. CASE TurnCommitted
  BY <1>11, OthersKeepApart DEF TurnCommitted, Rest
<1> QED BY <1>1, <1>2, <1>3, <1>4, <1>5, <1>6, <1>7, <1>8, <1>9, <1>10, <1>11 DEF ClientResumes

\* So does every step a suspended provider pump resumes with.
LEMMA ProviderResumesApart ==
  ASSUME TypeOK, IntrOK, Apart, ProviderResumes
  PROVE  Apart'
<1> USE DEF InterruptPcs, session, clientCo, providerCo, provider, browser
<1>1. CASE RefusalSent
  BY <1>1, OthersKeepApart DEF RefusalSent
<1>2. CASE AudioStartSent
  BY <1>2, OthersKeepApart DEF AudioStartSent
<1>3. CASE ToolFinished
  BY <1>3, OthersKeepApart DEF ToolFinished, SendToolResult
<1>4. CASE ConfirmationNeeded
  BY <1>4, OthersKeepApart DEF ConfirmationNeeded
<1>5. CASE ConfirmationAnswered
  BY <1>5, OthersKeepApart DEF ConfirmationAnswered
<1>6. CASE AnswerApplied
  BY <1>6, OthersKeepApart DEF AnswerApplied
<1>7. CASE ConfirmationTimesOut
  BY <1>7, OthersKeepApart DEF ConfirmationTimesOut
<1>8. CASE ToolReturned
  BY <1>8, OthersKeepApart DEF ToolReturned
<1>9. CASE AudioEndSent
  BY <1>9, OthersKeepApart DEF AudioEndSent
<1> QED BY <1>1, <1>2, <1>3, <1>4, <1>5, <1>6, <1>7, <1>8, <1>9 DEF ProviderResumes

\* So does every handler of a provider event.
LEMMA ProviderHandlesApart ==
  ASSUME TypeOK, IntrOK, Apart, ProviderHandles
  PROVE  Apart'
<1> USE DEF InterruptPcs, session, clientCo, providerCo, provider, browser
<1>1. CASE HandleResponseStarted
  <2>1. CASE dialog = "INTERRUPTED"
    BY <1>1, <2>1, OthersKeepApart DEF HandleResponseStarted, NextEvent
  <2>2. CASE dialog # "INTERRUPTED"
    BY <1>1, <2>2, AcceptedApart DEF HandleResponseStarted
  <2> QED BY <2>1, <2>2
<1>2. CASE HandleAudioDelta
  BY <1>2, OthersKeepApart DEF HandleAudioDelta, NextEvent
<1>3. CASE HandleToolCall
  BY <1>3, OthersKeepApart DEF HandleToolCall, NextEvent
<1>4. CASE HandleResponseDone
  BY <1>4, OthersKeepApart DEF HandleResponseDone, NextEvent
<1>5. CASE HandleResponseCancelled
  BY <1>5, OthersKeepApart DEF HandleResponseCancelled, NextEvent
<1>6. CASE ProviderStops
  BY <1>6, OthersKeepApart DEF ProviderStops
<1> QED BY <1>1, <1>2, <1>3, <1>4, <1>5, <1>6 DEF ProviderHandles

\* So does every step of the provider and the browser.
LEMMA EnvironmentApart ==
  ASSUME TypeOK, IntrOK, Apart, Environment
  PROVE  Apart'
<1> USE DEF InterruptPcs, session, clientCo, providerCo, provider, browser
<1>1. CASE ProviderStarts
  <2> DEFINE e == [type |-> "response_started", rid |-> started + 1]
  <2>1. started + 1 \in Responses /\ e.rid = started + 1
    BY <1>1, BoundsAreNat DEF ProviderStarts, Responses, TypeOK, ProviderTypes
  <2>2. e \in Events
    BY <2>1 DEF Events, EventTypes
  <2>3. events \in Seq(Events) /\ started \in Nat
    BY DEF TypeOK, ProviderTypes
  <2>4. events' = Append(events, e) /\ started' = started + 1 /\ generating' = started + 1
    BY <1>1 DEF ProviderStarts
  <2> HIDE DEF e
  <2>5. Fresh(events', Known, started')
    BY <2>1, <2>2, <2>3, <2>4, FreshStart DEF Apart
  <2>6. UNCHANGED <<session, clientCo>>
    BY <1>1 DEF ProviderStarts
  <2>7. Recorded' = Recorded
    BY <2>6 DEF Recorded, session
  <2>8. Known' = Known /\ Once'
    BY <2>6, <2>7 DEF Known, Once, InterruptedOnce, session, clientCo, Apart
  <2>9. generating' \in 0..started'
    BY <2>3, <2>4
  <2> QED BY <2>5, <2>8, <2>9 DEF Apart
<1>2. CASE ProviderRejects
  BY <1>2, OthersKeepApart DEF ProviderRejects
<1>3. CASE ProviderSpeaks
  BY <1>3, OthersKeepApart DEF ProviderSpeaks, EventTypes
<1>4. CASE ProviderCallsTool
  BY <1>4, OthersKeepApart DEF ProviderCallsTool, EventTypes
<1>5. CASE ProviderFinishes
  BY <1>5, OthersKeepApart DEF ProviderFinishes, EventTypes
<1>6. CASE ProviderCancels
  BY <1>6, OthersKeepApart DEF ProviderCancels, EventTypes, NextCommand
<1>7. CASE BrowserDrains
  BY <1>7, OthersKeepApart DEF BrowserDrains
<1> QED BY <1>1, <1>2, <1>3, <1>4, <1>5, <1>6, <1>7 DEF Environment

\* So do the audio pump, the reader and the close.
LEMMA OthersApart ==
  ASSUME TypeOK, IntrOK, Apart, PumpAudio \/ ReadClient \/ Close \/ CloseDialog \/ UNCHANGED vars
  PROVE  Apart'
<1> USE DEF InterruptPcs, session, clientCo, providerCo, provider, browser
<1>1. CASE PumpAudio
  BY <1>1, OthersKeepApart DEF PumpAudio
<1>2. CASE ReadClient
  BY <1>2, OthersKeepApart DEF ReadClient
<1>3. CASE Close
  BY <1>3, OthersKeepApart DEF Close
<1>4. CASE CloseDialog
  BY <1>4, OthersKeepApart DEF CloseDialog
<1>5. CASE UNCHANGED vars
  BY <1>5, OthersKeepApart DEF vars
<1> QED BY <1>1, <1>2, <1>3, <1>4, <1>5

\* A response the user has spoken over is never spoken over again: what is on record is neither
\* audible nor interrupted, and a response that starts later has not been on record.
THEOREM InterruptsOnce == Spec => []InterruptedOnce
<1>1. Init => Apart
  BY InitApart
<1>2. TypeOK /\ IntrOK /\ Apart /\ [Next]_vars => Apart'
  BY HandlesApart, ResumesApart, ProviderResumesApart, ProviderHandlesApart, EnvironmentApart,
     OthersApart DEF Next
<1>3. Apart => InterruptedOnce
  BY DEF Apart, Once
<1> QED BY <1>1, <1>2, <1>3, TypeCorrect, PTL DEF Spec

=============================================================================
