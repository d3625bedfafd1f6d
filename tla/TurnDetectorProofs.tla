------------------------- MODULE TurnDetectorProofs -------------------------
(***************************************************************************)
(* What the turn detectors do for any configuration and any audio.  The    *)
(* invariant IInv ties the silence a turn has counted to the audio that    *)
(* was really silent, and the hold of the scorer to the turn it was given  *)
(* in; a turn that ends too early or never follows from breaking it.       *)
(***************************************************************************)
EXTENDS TurnDetector, SequenceTheorems, TLAPS

Booleans ==
  /\ in_speech \in BOOLEAN /\ candidate_emitted \in BOOLEAN /\ barge_emitted \in BOOLEAN
  /\ extended \in BOOLEAN /\ last \in BOOLEAN /\ committed \in BOOLEAN

Counts ==
  /\ kind \in {"energy", "silero", "smart_turn"}
  /\ speech_ms \in 0..SpeechCap
  /\ silence_ms \in Nat /\ quiet \in Nat
  /\ min_silence = MinSilence + (IF extended THEN Extension ELSE 0)
  /\ silence_ms < min_silence

Buffered == buffer \in Seq(BOOLEAN) /\ Len(buffer) < Window

InTurn == in_speech => quiet = silence_ms

BetweenTurns ==
  ~in_speech => /\ silence_ms = 0 /\ ~candidate_emitted /\ ~barge_emitted
                /\ ~extended

HoldIsOfTheTurn == extended => candidate_emitted

IInv == Booleans /\ Counts /\ Buffered /\ InTurn /\ BetweenTurns /\ HoldIsOfTheTurn

-----------------------------------------------------------------------------
\* What is left of a frame is shorter than a window.
LEMMA Remainder ==
  ASSUME NEW n \in Nat, NEW w \in Nat \ {0}
  PROVE  /\ w * (n \div w) \in 0..n
         /\ n - w * (n \div w) < w
OBVIOUS

\* What a frame tells of, when it may be two things.
LEMMA Together ==
  ASSUME NEW a, NEW b
  PROVE  /\ <<>> \o <<>> = <<>> /\ <<a>> \o <<>> = <<a>>
         /\ <<>> \o <<b>> = <<b>> /\ <<a>> \o <<b>> = <<a, b>>
<1> DEFINE S == {a, b}
<1>1. <<>> \in Seq(S) /\ <<a>> \in Seq(S) /\ <<b>> \in Seq(S) /\ <<a, b>> \in Seq(S)
  OBVIOUS
<1>2. <<>> \o <<>> = <<>> /\ <<a>> \o <<>> = <<a>> /\ <<>> \o <<b>> = <<b>>
  BY <1>1, ConcatEmptySeq
<1>3. <<a>> \o <<b>> = <<a, b>>
  <2> DEFINE s == <<a>> \o <<b>>
  <2>1. s \in Seq(S) /\ Len(s) = 2 /\ s[1] = a /\ s[2] = b
    BY <1>1
  <2>2. Len(<<a, b>>) = 2 /\ <<a, b>>[1] = a /\ <<a, b>>[2] = b
    OBVIOUS
  <2>3. \A i \in 1..Len(s) : s[i] = <<a, b>>[i]
    BY <2>1, <2>2
  <2> HIDE DEF s
  <2>4. s = <<a, b>>
    BY <1>1, <2>1, <2>2, <2>3, SeqEqual
  <2> QED BY <2>4 DEF s
<1> QED BY <1>2, <1>3

\* The lengths of the configuration.
LEMMA ConfigurationOK ==
  /\ MinSpeech \in Nat \ {0} /\ MinSilence \in Nat \ {0} /\ BargeInMinSpeech \in Nat \ {0}
  /\ Extension \in Nat \ {0} /\ UnitMs \in Nat \ {0} /\ Window \in Nat \ {0}
  /\ SpeechCap \in Nat /\ QuietCap \in Nat /\ MinSilence < QuietCap
BY TurnDetectorAssumption DEF SpeechCap, QuietCap

\* A frame lasts a whole number of units.
LEMMA FrameOK ==
  ASSUME NEW ms \in FrameMs
  PROVE  /\ ms \in Nat \ {0}
         /\ ms \div UnitMs \in Nat
<1>1. PICK n \in 1..(3 * Window) : ms = n * UnitMs
  BY TurnDetectorAssumption
<1>2. n \in Nat \ {0} /\ UnitMs \in Nat \ {0}
  BY ConfigurationOK
<1>3. ms \in Nat \ {0}
  BY <1>1, <1>2
<1>4. ms \div UnitMs \in Nat
  BY <1>2, <1>3
<1> QED BY <1>3, <1>4

\* What was silent or voiced is in the buffer, or in a window that was judged.
LEMMA HearKeeps ==
  ASSUME IInv, NEW ms \in FrameMs, NEW loud \in BOOLEAN, NEW voiced \in BOOLEAN,
         Hear(loud, ms, voiced)
  PROVE  Buffered' /\ last' \in BOOLEAN
<1>1. CASE kind # "silero"
  BY <1>1 DEF Hear, IInv, Buffered, Booleans
<1>2. CASE kind = "silero"
  <2> DEFINE heard == [i \in 1..(ms \div UnitMs) |-> loud]
             units == buffer \o heard
             judged == Window * Windows(units)
  <2>1. heard \in Seq(BOOLEAN)
    BY FrameOK
  <2>2. units \in Seq(BOOLEAN) /\ Len(units) \in Nat
    <3>1. buffer \in Seq(BOOLEAN)
      BY DEF IInv, Buffered
    <3> HIDE DEF heard
    <3> QED BY <2>1, <3>1
  <2>3. judged \in 0..Len(units) /\ Len(units) - judged < Window
    BY <2>2, ConfigurationOK, Remainder DEF Windows
  <2>4. buffer' = Left(units) /\ last' = voiced
    BY <1>2 DEF Hear
  <2> HIDE DEF units, judged
  <2>5. Left(units) = SubSeq(units, judged + 1, Len(units))
    BY DEF Left, judged
  <2>6. Left(units) \in Seq(BOOLEAN)
    BY <2>2, <2>3, <2>5
  <2>7. Len(Left(units)) = Len(units) - judged
    BY <2>2, <2>3, <2>5
  <2> QED BY <2>3, <2>4, <2>6, <2>7 DEF Buffered
<1> QED BY <1>1, <1>2

\* A detector that was just configured satisfies the invariant.
LEMMA InitInv == Init => IInv
<1> SUFFICES ASSUME Init PROVE IInv
  OBVIOUS
<1> USE ConfigurationOK DEF Init
<1>1. Booleans /\ InTurn /\ BetweenTurns /\ HoldIsOfTheTurn
  BY DEF Booleans, InTurn, BetweenTurns, HoldIsOfTheTurn
<1>2. Counts
  BY DEF Counts
<1>3. Buffered
  BY DEF Buffered
<1> QED BY <1>1, <1>2, <1>3 DEF IInv

\* Reset and Restore lead back to what a detector is between turns.
LEMMA ResetKeeps ==
  ASSUME IInv, Reset, Restore, committed' \in BOOLEAN, quiet' \in Nat, last' \in BOOLEAN,
         Buffered', UNCHANGED kind
  PROVE  IInv'
<1> USE ConfigurationOK DEF Reset, Restore
<1>1. Booleans' /\ InTurn' /\ BetweenTurns' /\ HoldIsOfTheTurn'
  BY DEF Booleans, InTurn, BetweenTurns, HoldIsOfTheTurn
<1>2. Counts'
  BY DEF Counts, IInv
<1> QED BY <1>1, <1>2 DEF IInv

\* Every frame keeps the invariant, whatever it sounds like.
LEMMA NextKeeps == IInv /\ [Next]_vars => IInv'
<1> SUFFICES ASSUME IInv, [Next]_vars PROVE IInv'
  OBVIOUS
<1> USE ConfigurationOK
<1>1. CASE UNCHANGED vars
  BY <1>1 DEF vars, detector, smart, IInv, Booleans, Counts, Buffered, InTurn, BetweenTurns, HoldIsOfTheTurn
<1>2. CASE Next
  <2>1. PICK ms \in FrameMs, loud \in BOOLEAN, speaking \in BOOLEAN, voiced \in BOOLEAN :
          /\ Hear(loud, ms, voiced)
          /\ IF voiced THEN Voiced(ms, speaking)
             ELSE Noise(ms) \/ TurnEnds(ms) \/ Candidate(ms) \/ Pauses(ms)
          /\ quiet' = IF voiced THEN 0 ELSE IF quiet + ms < QuietCap THEN quiet + ms ELSE QuietCap
          /\ UNCHANGED kind
    BY <1>2 DEF Next, Push
  <2>2. Buffered' /\ last' \in BOOLEAN
    BY <2>1, HearKeeps
  <2>3. ms \in Nat /\ quiet' \in Nat
    BY <2>1, FrameOK DEF IInv, Counts
  <2>4. CASE voiced
    <3>1. Voiced(ms, speaking) /\ quiet' = 0 /\ kind' = kind
      BY <2>1, <2>4
    <3>2. speech_ms' \in 0..SpeechCap
      BY <2>3, <3>1 DEF Voiced, Spoken, Capped, IInv, Counts
    <3>3. /\ in_speech' \in BOOLEAN /\ candidate_emitted' = (candidate_emitted /\ in_speech)
          /\ barge_emitted' \in BOOLEAN
          /\ (in_speech => in_speech') /\ (~in_speech' => ~barge_emitted' \/ barge_emitted)
      BY <3>1 DEF Voiced, Spoken, IInv, Booleans
    <3>4. silence_ms' = 0 /\ UNCHANGED <<min_silence, extended>> /\ committed' = FALSE
      BY <3>1 DEF Voiced, Spoken
    <3>5. Booleans'
      BY <2>2, <3>3, <3>4 DEF IInv, Booleans
    <3>6. Counts'
      BY <3>1, <3>2, <3>4 DEF IInv, Counts
    <3>7. InTurn' /\ BetweenTurns' /\ HoldIsOfTheTurn'
      BY <3>1, <3>3, <3>4 DEF IInv, Booleans, InTurn, BetweenTurns, HoldIsOfTheTurn
    <3> QED BY <2>2, <3>5, <3>6, <3>7 DEF IInv
  <2>5. CASE ~voiced
    <3>1. quiet' = (IF quiet + ms < QuietCap THEN quiet + ms ELSE QuietCap) /\ kind' = kind
      BY <2>1, <2>5
    <3>2. CASE Noise(ms)
      <4>1. Booleans' /\ InTurn' /\ BetweenTurns' /\ HoldIsOfTheTurn'
        BY <2>2, <3>2 DEF Noise, IInv, Booleans, InTurn, BetweenTurns, HoldIsOfTheTurn
      <4>2. Counts'
        BY <2>3, <3>1, <3>2 DEF Noise, IInv, Counts
      <4> QED BY <2>2, <4>1, <4>2 DEF IInv
    <3>3. CASE TurnEnds(ms)
      BY <2>2, <2>3, <3>1, <3>3, ResetKeeps DEF TurnEnds
    <3>4. CASE Candidate(ms)
      <4>1. CASE Reset /\ Restore /\ committed' = TRUE
        BY <2>2, <2>3, <3>1, <4>1, ResetKeeps
      <4>2. CASE /\ silence_ms' = Silence(ms) /\ candidate_emitted' = TRUE
                 /\ \/ /\ ~extended /\ extended' = TRUE /\ min_silence' = min_silence + Extension
                    \/ UNCHANGED <<extended, min_silence>>
                 /\ committed' = FALSE
                 /\ UNCHANGED <<in_speech, speech_ms, barge_emitted>>
        <5>1. in_speech /\ Silence(ms) < min_silence
          BY <3>4 DEF Candidate
        <5>2. silence_ms' < min_silence' /\ silence_ms' \in Nat /\ quiet' = silence_ms'
          BY <2>3, <3>1, <4>2, <5>1 DEF Silence, IInv, Counts, InTurn, QuietCap
        <5>3. extended' \in BOOLEAN /\ min_silence' = MinSilence + (IF extended' THEN Extension ELSE 0)
          <6>1. extended \in BOOLEAN /\ min_silence = MinSilence + (IF extended THEN Extension ELSE 0)
            BY DEF IInv, Booleans, Counts
          <6>2. CASE ~extended /\ extended' = TRUE /\ min_silence' = min_silence + Extension
            BY <6>1, <6>2
          <6>3. CASE UNCHANGED <<extended, min_silence>>
            BY <6>1, <6>3
          <6> QED BY <4>2, <6>2, <6>3
        <5> QED
          BY <2>2, <2>3, <3>1, <4>2, <5>1, <5>2, <5>3
          DEF IInv, Booleans, Counts, InTurn, BetweenTurns, HoldIsOfTheTurn
      <4> QED BY <3>4, <4>1, <4>2 DEF Candidate
    <3>5. CASE Pauses(ms)
      <4>1. silence_ms' < min_silence' /\ silence_ms' \in Nat /\ quiet' = silence_ms'
        BY <2>3, <3>1, <3>5 DEF Pauses, Silence, IInv, Counts, InTurn, QuietCap
      <4> QED
        BY <2>2, <2>3, <3>1, <3>5, <4>1
        DEF Pauses, IInv, Booleans, Counts, InTurn, BetweenTurns, HoldIsOfTheTurn
    <3> QED BY <2>1, <2>5, <3>2, <3>3, <3>4, <3>5
  <2> QED BY <2>4, <2>5
<1> QED BY <1>1, <1>2

\* The invariant holds of every detector, for any configuration and any audio.
LEMMA Invariance == Spec => []IInv
BY InitInv, NextKeeps, PTL DEF Spec

\* No window of audio waits beside the one being filled, and no silence is counted beyond what
\* ends the turn, for any configuration (EnergyTurnDetector.push, SileroProbability).
THEOREM TypeCorrect == Spec => []TypeOK
<1>1. IInv => TypeOK
  <2> SUFFICES ASSUME IInv PROVE TypeOK
    OBVIOUS
  <2> USE ConfigurationOK
  <2>1. min_silence \in {MinSilence, MinSilence + Extension} /\ silence_ms \in 0..(min_silence - 1)
    BY DEF IInv, Counts, Booleans
  <2>2. \A i \in DOMAIN buffer : buffer[i] \in BOOLEAN
    BY DEF IInv, Buffered
  <2> QED BY <2>1, <2>2 DEF TypeOK, IInv, Booleans, Counts, Buffered
<1> QED BY <1>1, Invariance, PTL

\* A user who stopped is answered: no turn outlasts its silence, which only the hold of this
\* very turn extends (SmartTurnDetector.push and reset).
THEOREM TurnsEnd == Spec => []NotLeftWaiting
<1>1. IInv => NotLeftWaiting
  BY ConfigurationOK DEF IInv, Booleans, Counts, InTurn, NotLeftWaiting
<1> QED BY <1>1, Invariance, PTL
-----------------------------------------------------------------------------
\* Which frames end a turn, and which do not.
LEMMA WhoEnds ==
  ASSUME IInv, Next, "end_of_turn" \in ToSet(said')
  PROVE  \/ quiet' >= MinSilence
         \/ committed' /\ kind = "smart_turn" /\ quiet' >= MinSilence \div 2
<1> USE ConfigurationOK
<1>1. PICK ms \in FrameMs, loud \in BOOLEAN, speaking \in BOOLEAN, voiced \in BOOLEAN :
        /\ IF voiced THEN Voiced(ms, speaking)
           ELSE Noise(ms) \/ TurnEnds(ms) \/ Candidate(ms) \/ Pauses(ms)
        /\ quiet' = IF voiced THEN 0 ELSE IF quiet + ms < QuietCap THEN quiet + ms ELSE QuietCap
  BY DEF Next, Push
<1>2. ms \in Nat
  BY FrameOK
<1>3. CASE Voiced(ms, speaking)
  <2>1. said' \in {<<>>, <<"speech_continuing">>, <<"speech_start">>, <<"barge_in">>,
                   <<"speech_continuing", "barge_in">>, <<"speech_start", "barge_in">>}
    BY <1>3, Together DEF Voiced, Spoken, When
  <2> QED BY <2>1 DEF ToSet
<1>4. CASE ~voiced /\ Noise(ms)
  <2>1. said' \in {<<>>, <<"noise_rejected">>}
    BY <1>4 DEF Noise, When
  <2> QED BY <2>1 DEF ToSet
<1>5. CASE ~voiced /\ TurnEnds(ms)
  <2>1. quiet + ms >= min_silence /\ quiet \in Nat
    BY <1>2, <1>5 DEF TurnEnds, Silence, IInv, InTurn, Counts
  <2>2. min_silence >= MinSilence /\ min_silence \in Nat
    BY DEF IInv, Counts, Booleans
  <2> QED BY <1>1, <1>2, <1>5, <2>1, <2>2
<1>6. CASE ~voiced /\ Candidate(ms)
  <2>1. CASE said' = <<"end_of_turn_candidate">>
    BY <2>1 DEF ToSet
  <2>2. CASE kind = "smart_turn" /\ committed' = TRUE
    <3>1. in_speech /\ ~candidate_emitted /\ Silence(ms) >= min_silence \div 2
      BY <1>6 DEF Candidate
    <3>2. min_silence = MinSilence /\ quiet = silence_ms /\ quiet \in Nat
      BY <3>1 DEF IInv, HoldIsOfTheTurn, Counts, InTurn
    <3>3. quiet + ms >= MinSilence \div 2
      BY <3>1, <3>2 DEF Silence
    <3>4. QuietCap >= MinSilence \div 2
      OBVIOUS
    <3>5. quiet' >= MinSilence \div 2
      BY <1>1, <1>2, <1>6, <3>2, <3>3, <3>4
    <3> QED BY <2>2, <3>5
  <2> QED BY <1>6, <2>1, <2>2 DEF Candidate
<1>7. CASE ~voiced /\ Pauses(ms)
  <2>1. said' \in {<<>>, <<"speech_pause">>}
    BY <1>7 DEF Pauses, When
  <2> QED BY <2>1 DEF ToSet
<1> QED BY <1>1, <1>3, <1>4, <1>5, <1>6, <1>7

\* A user who went on speaking is not cut off, for any configuration: a turn ends only after
\* silence in one piece, of the configured length or half of it when the scorer commits.
THEOREM TurnsEndInSilence == Spec => NotCutOff
<1>1. IInv /\ [Next]_vars =>
        [("end_of_turn" \in ToSet(said')) =>
           \/ quiet' >= MinSilence
           \/ committed' /\ kind = "smart_turn" /\ quiet' >= MinSilence \div 2]_vars
  BY WhoEnds
<1> QED BY <1>1, Invariance, PTL DEF Spec, NotCutOff

-----------------------------------------------------------------------------
\* A detector that was just configured is between turns.
LEMMA OrderInit == Init => Order!Init
BY DEF Init, Order!Init, Phase

\* Every frame tells of what TurnOrder allows next, or of nothing.
LEMMA OrderNext == IInv /\ [Next]_vars => [Order!Next]_<<Phase, said>>
<1> SUFFICES ASSUME IInv, [Next]_vars PROVE [Order!Next]_<<Phase, said>>
  OBVIOUS
<1> USE DEF Order!Next, Order!Listens, Order!Starts, Order!Continues, Order!BargesIn, Order!Ends
<1>0. Booleans
  BY DEF IInv
<1>1. CASE UNCHANGED vars
  BY <1>1 DEF vars, detector, smart, Phase
<1>2. CASE Next
  <2>1. PICK ms \in FrameMs, speaking \in BOOLEAN :
          Voiced(ms, speaking) \/ Noise(ms) \/ TurnEnds(ms) \/ Candidate(ms) \/ Pauses(ms)
    BY <1>2 DEF Next, Push
  <2>2. CASE Voiced(ms, speaking)
    <3> DEFINE started == in_speech \/ Capped(speech_ms + ms) >= MinSpeech
               barges == started /\ speaking /\ ~barge_emitted
                         /\ Capped(speech_ms + ms) >= BargeInMinSpeech
    <3>1. /\ in_speech' = started /\ barge_emitted' = (barge_emitted \/ barges)
          /\ said' = When(started, <<IF in_speech THEN "speech_continuing" ELSE "speech_start">>)
                       \o When(barges, <<"barge_in">>)
      BY <2>2 DEF Voiced, Spoken
    <3> HIDE DEF started, barges
    <3>2. (in_speech => started) /\ (barges => started /\ ~barge_emitted)
      BY DEF started, barges
    <3>3. ~in_speech => ~barge_emitted
      BY DEF IInv, BetweenTurns
    <3>4. CASE ~started
      BY <3>1, <3>2, <3>3, <3>4 DEF When, Phase
    <3>5. CASE started /\ in_speech
      BY <3>1, <3>2, <3>5, Together DEF When, Phase
    <3>6. CASE started /\ ~in_speech
      BY <3>1, <3>2, <3>3, <3>6, Together DEF When, Phase
    <3> QED BY <3>4, <3>5, <3>6
  <2>3. CASE Noise(ms)
    BY <2>3 DEF Noise, When, Phase
  <2>4. CASE TurnEnds(ms)
    BY <2>4 DEF TurnEnds, Reset, Phase
  <2>5. CASE Candidate(ms)
    <3>1. CASE said' = <<"end_of_turn_candidate", "end_of_turn">> /\ Reset
      BY <2>5, <3>1 DEF Candidate, Reset, Phase
    <3>2. CASE said' = <<"end_of_turn_candidate">> /\ UNCHANGED <<in_speech, barge_emitted>>
      BY <2>5, <3>2 DEF Candidate, Phase
    <3> QED BY <2>5, <3>1, <3>2 DEF Candidate
  <2>6. CASE Pauses(ms)
    BY <2>6 DEF Pauses, When, Phase
  <2> QED BY <2>1, <2>2, <2>3, <2>4, <2>5, <2>6
<1> QED BY <1>1, <1>2

\* For any configuration and any audio the events come in the order of turns the session relies
\* on: the detectors implement TurnOrder (Session.handle_turn_event).
THEOREM DetectorsKeepOrder == Spec => KeepsOrder
<1>1. Spec => Order!Spec
  BY OrderInit, OrderNext, Invariance, PTL DEF Spec, Order!Spec
<1> QED BY <1>1 DEF KeepsOrder

-----------------------------------------------------------------------------
(***************************************************************************)
(* Speech that no verdict has told of yet lies in the buffer, all of it,   *)
(* and the buffer is shorter than a window.                                *)
(***************************************************************************)
\* Products of lengths.
LEMMA Products ==
  ASSUME NEW a \in Nat, NEW b \in Nat, NEW c \in Nat \ {0}
  PROVE  /\ a * c \in Nat /\ (a + b) * c = a * c + b * c /\ 1 * c = c
         /\ a < b => a * c < b * c
         /\ (b * c) \div c = b
<1>1. a * c \in Nat /\ (a + b) * c = a * c + b * c /\ 1 * c = c
  OBVIOUS
<1>2. a < b => a * c < b * c
  <2> SUFFICES ASSUME a < b PROVE a * c < b * c
    OBVIOUS
  <2>1. PICK d \in Nat \ {0} : b = a + d
    <3>1. b - a \in Nat \ {0} /\ b = a + (b - a)
      OBVIOUS
    <3> QED BY <3>1
  <2>2. d * c \in Nat \ {0} /\ a * c \in Nat
    OBVIOUS
  <2>3. b * c = a * c + d * c
    BY <2>1
  <2> QED BY <2>2, <2>3
<1>3. (b * c) \div c = b
  OBVIOUS
<1> QED BY <1>1, <1>2, <1>3

\* A frame is as long as its units.
LEMMA FrameUnits ==
  ASSUME NEW ms \in FrameMs
  PROVE  ms \div UnitMs \in Nat \ {0} /\ (ms \div UnitMs) * UnitMs = ms
<1>1. PICK n \in 1..(3 * Window) : ms = n * UnitMs
  BY TurnDetectorAssumption
<1>2. n \in Nat \ {0} /\ UnitMs \in Nat \ {0}
  BY ConfigurationOK
<1>3. ms \div UnitMs = n
  BY <1>1, <1>2, Products
<1> QED BY <1>1, <1>2, <1>3

\* The missed frames fit into the buffer, which holds their speech.
Waiting(least) ==
  /\ missed \in Nat /\ missed * least <= Len(buffer) * UnitMs
  /\ missed > 0 => \E i \in DOMAIN buffer : buffer[i]

\* A frame that is not told of completes no window with speech in it.
LEMMA HearWaits ==
  ASSUME NEW least \in Nat, \A ms \in FrameMs : least <= ms,
         IInv, Waiting(least), NEW ms \in FrameMs, NEW loud \in BOOLEAN, NEW voiced \in BOOLEAN,
         Hear(loud, ms, voiced)
  PROVE  Waiting(least)'
<1>1. CASE kind # "silero"
  BY <1>1 DEF Hear, Waiting
<1>2. CASE kind = "silero"
  <2> DEFINE n == ms \div UnitMs
             heard == [i \in 1..n |-> loud]
             units == buffer \o heard
             judged == Window * Windows(units)
  <2>1. /\ n \in Nat \ {0} /\ n * UnitMs = ms /\ UnitMs \in Nat \ {0} /\ Window \in Nat \ {0}
    BY FrameUnits, ConfigurationOK
  <2>2. buffer \in Seq(BOOLEAN) /\ Len(buffer) \in Nat /\ Len(buffer) < Window
    BY DEF IInv, Buffered
  <2>3. heard \in Seq(BOOLEAN) /\ Len(heard) = n /\ \A i \in 1..n : heard[i] = loud
    <3> HIDE DEF n
    <3> QED BY <2>1
  <2> HIDE DEF n, heard
  <2>4. /\ units \in Seq(BOOLEAN) /\ Len(units) = Len(buffer) + n
        /\ \A i \in 1..Len(buffer) : units[i] = buffer[i]
        /\ units[Len(buffer) + 1] = loud
    BY <2>1, <2>2, <2>3
  <2>5. /\ voiced = Verdict(units) /\ buffer' = Left(units)
        /\ missed' = IF ~voiced /\ (loud \/ missed > 0) THEN missed + 1 ELSE 0
    BY <1>2 DEF Hear, units, heard, n
  <2> HIDE DEF units
  <2>6. Windows(units) \in Nat /\ judged \in 0..Len(units) /\ Len(units) - judged < Window
    <3>1. Len(units) \in Nat
      BY <2>1, <2>2, <2>4
    <3>2. Len(units) \div Window \in Nat
      BY <2>1, <3>1
    <3> QED BY <2>1, <3>1, <3>2, Remainder DEF Windows
  <2>7. Len(buffer) * UnitMs \in Nat /\ Len(units) * UnitMs = Len(buffer) * UnitMs + ms
    BY <2>1, <2>2, <2>4, Products
  <2>8. Left(units) \in Seq(BOOLEAN) /\ Len(Left(units)) \in Nat
        /\ Left(units) = SubSeq(units, judged + 1, Len(units))
    <3>1. Left(units) = SubSeq(units, judged + 1, Len(units))
      BY DEF Left
    <3> HIDE DEF judged
    <3>2. Left(units) \in Seq(BOOLEAN)
      BY <2>4, <2>6, <3>1
    <3> QED BY <3>1, <3>2
  <2>9. missed \in Nat /\ missed * least \in Nat /\ missed * least <= Len(buffer) * UnitMs
        /\ (missed > 0 => \E i \in 1..Len(buffer) : buffer[i])
    <3>1. DOMAIN buffer = 1..Len(buffer)
      BY <2>2
    <3> QED BY <3>1 DEF Waiting
  <2>10. ASSUME loud \/ missed > 0
         PROVE  \E i \in 1..(Len(buffer) + 1) : i \in 1..Len(units) /\ units[i]
    <3>1. CASE loud
      <4> DEFINE i == Len(buffer) + 1
      <4>1. i \in 1..Len(units) /\ i \in 1..(Len(buffer) + 1) /\ units[i]
        BY <2>1, <2>2, <2>4, <3>1
      <4> HIDE DEF i
      <4> QED BY <4>1
    <3>2. CASE missed > 0
      <4>1. PICK i \in 1..Len(buffer) : buffer[i]
        BY <2>9, <3>2
      <4>2. i \in 1..(Len(buffer) + 1) /\ i \in 1..Len(units)
        BY <2>1, <2>2, <2>4
      <4> QED BY <2>4, <4>1, <4>2
    <3> QED BY <2>10, <3>1, <3>2
  <2>11. CASE missed' = 0
    BY <2>1, <2>5, <2>8, <2>11 DEF Waiting
  <2>12. CASE missed' # 0
    <3>1. ~voiced /\ (loud \/ missed > 0) /\ missed' = missed + 1
      BY <2>5, <2>12
    <3>2. PICK i \in 1..(Len(buffer) + 1) : i \in 1..Len(units) /\ units[i]
      BY <2>10, <3>1
    <3>3. Windows(units) = 0
      <4> SUFFICES ASSUME Windows(units) # 0 PROVE FALSE
        OBVIOUS
      <4>1. judged >= Window
        <5> DEFINE w == Windows(units)
        <5>1. w \in Nat \ {0}
          BY <2>6
        <5> HIDE DEF w
        <5>2. Window * w >= Window
          BY <2>1, <5>1
        <5> QED BY <5>2 DEF w
      <4>2. judged \in Nat /\ i \in 1..judged
        <5> HIDE DEF judged
        <5>1. judged \in Nat /\ Len(buffer) + 1 <= judged
          BY <2>1, <2>2, <2>4, <2>6, <4>1
        <5>2. i \in Nat /\ 1 <= i /\ i <= Len(buffer) + 1
          BY <2>2, <3>2
        <5> QED BY <2>2, <5>1, <5>2
      <4>3. Verdict(units)
        BY <3>2, <4>2 DEF Verdict
      <4> QED BY <2>5, <3>1, <4>3
    <3>4. judged = 0
      BY <2>1, <3>3
    <3>5. Left(units) = units
      <4> HIDE DEF judged
      <4>1. SubSeq(units, 1, Len(units)) = units
        BY <2>4
      <4> QED BY <2>8, <3>4, <4>1
    <3>6. (missed + 1) * least = missed * least + least
      BY <2>9
    <3>7. (missed + 1) * least <= Len(units) * UnitMs
      BY <2>7, <2>9, <3>6, FrameOK
    <3> QED BY <2>4, <2>5, <2>9, <3>1, <3>2, <3>5, <3>7 DEF Waiting
  <2> QED BY <2>11, <2>12
<1> QED BY <1>1, <1>2

\* So it is after every frame.
LEMMA AllWait ==
  ASSUME NEW least \in Nat, \A ms \in FrameMs : least <= ms
  PROVE  Spec => []Waiting(least)
<1>1. Init => Waiting(least)
  BY ConfigurationOK DEF Init, Waiting
<1>2. IInv /\ Waiting(least) /\ [Next]_vars => Waiting(least)'
  <2> SUFFICES ASSUME IInv, Waiting(least), [Next]_vars PROVE Waiting(least)'
    OBVIOUS
  <2>1. CASE UNCHANGED vars
    BY <2>1 DEF vars, Waiting
  <2>2. CASE Next
    <3>1. PICK ms \in FrameMs, loud \in BOOLEAN, voiced \in BOOLEAN : Hear(loud, ms, voiced)
      BY <2>2 DEF Next, Push
    <3> QED BY <3>1, HearWaits
  <2> QED BY <2>1, <2>2
<1> QED BY <1>1, <1>2, Invariance, PTL DEF Spec

\* The buffer holds less than a window, so what is missed is shorter than one.
LEMMA WaitsShortly ==
  ASSUME NEW least \in Nat, IInv, Waiting(least)
  PROVE  missed \in Nat /\ missed * least \in Nat /\ missed * least < Window * UnitMs
<1>1. Len(buffer) \in Nat /\ Len(buffer) < Window
  BY DEF IInv, Buffered
<1>2. Len(buffer) * UnitMs < Window * UnitMs /\ Len(buffer) * UnitMs \in Nat
      /\ Window * UnitMs \in Nat
  BY <1>1, ConfigurationOK, Products
<1>3. missed \in Nat /\ missed * least \in Nat /\ missed * least <= Len(buffer) * UnitMs
  BY DEF Waiting
<1> QED BY <1>2, <1>3

\* Speech waits for its verdict no longer than a window lasts, whatever is heard: so many frames
\* of at least this length are shorter than a window (SileroProbability).
THEOREM SpeechIsToldOf ==
  ASSUME NEW least \in Nat, \A ms \in FrameMs : least <= ms
  PROVE  Spec => [](missed * least < Window * UnitMs)
<1>1. IInv /\ Waiting(least) => missed * least < Window * UnitMs
  BY WaitsShortly
<1>2. Spec => []Waiting(least)
  BY AllWait
<1> QED BY <1>1, <1>2, Invariance, PTL

\* So a burst is told of by the frame after it, in any configuration in which two frames make up a
\* window, as frames of 20 ms do.
THEOREM BurstsAreHeard ==
  ASSUME NEW least \in Nat, \A ms \in FrameMs : least <= ms, Window * UnitMs <= 2 * least
  PROVE  Spec => []BurstIsHeard
<1>1. ASSUME IInv, Waiting(least) PROVE BurstIsHeard
  <2> SUFFICES ASSUME ~(missed <= 1) PROVE FALSE
    BY DEF BurstIsHeard
  <2>1. missed \in Nat /\ missed * least < Window * UnitMs
    BY <1>1, WaitsShortly
  <2>2. PICK d \in Nat : missed = 2 + d
    <3>1. missed - 2 \in Nat /\ missed = 2 + (missed - 2)
      BY <2>1
    <3> QED BY <3>1
  <2>3. missed * least = 2 * least + d * least /\ d * least \in Nat /\ 2 * least \in Nat
    BY <2>2
  <2>4. Window * UnitMs \in Nat
    BY ConfigurationOK
  <2> QED BY <2>1, <2>3, <2>4
<1>2. Spec => []Waiting(least)
  BY AllWait
<1> QED BY <1>1, <1>2, Invariance, PTL

=============================================================================
