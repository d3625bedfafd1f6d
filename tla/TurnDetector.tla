---------------------------- MODULE TurnDetector ----------------------------
(***************************************************************************)
(* The turn detectors (adapters/turn): one state machine over voiced and   *)
(* unvoiced audio frames (energy.py), fed by the loudness of the frame or  *)
(* by a model that scores windows of it (silero.py), and wrapped by a      *)
(* scorer that ends a turn early or holds it open (smart_turn.py).         *)
(*                                                                         *)
(* Time is in milliseconds of audio.  What a frame sounds like, whether    *)
(* the assistant can be heard and what the scorer says are the             *)
(* environment's choice; a window is scored as speech when it holds any.   *)
(***************************************************************************)
EXTENDS Integers, SequencesExt

CONSTANTS
  FrameMs,              \* lengths a frame may have
  MinSpeech,            \* TurnDetectorConfig.min_speech_ms
  MinSilence,           \* .min_silence_ms
  BargeInMinSpeech,     \* .barge_in_min_speech_ms
  Extension,            \* SmartTurnDetector.extension_ms
  UnitMs, Window        \* silero: a window has so many units of audio

ASSUME TurnDetectorAssumption ==
  /\ UnitMs \in Nat \ {0} /\ Window \in Nat \ {0}
  /\ FrameMs \subseteq {n * UnitMs : n \in 1..(3 * Window)}
  /\ {MinSpeech, MinSilence, BargeInMinSpeech, Extension} \subseteq Nat \ {0}

VARIABLES
  kind,               \* the adapter: "energy", "silero", "smart_turn"
  in_speech,
  speech_ms,          \* speech in this turn, as far as it is compared (SpeechCap)
  silence_ms,
  candidate_emitted,
  barge_emitted,
  min_silence,        \* config.min_silence_ms of the detector, which a hold extends
  extended,           \* SmartTurnDetector._extended
  buffer,             \* SileroProbability._buf, as units: does each hold speech?
  last,               \* SileroProbability._last: was the last window speech?
  said,               \* events of the last frame
  quiet,              \* history: unvoiced audio since the last voiced frame
  committed,          \* history: did the scorer end a turn with the last frame?
  missed              \* history: loud frames whose speech no verdict has told of yet

detector == <<in_speech, speech_ms, silence_ms, candidate_emitted, barge_emitted>>
smart == <<min_silence, extended, committed>>
vars == <<kind, detector, smart, buffer, last, said, quiet, missed>>

\* Bound: speech is counted up to what it is compared with.
SpeechCap == IF MinSpeech > BargeInMinSpeech THEN MinSpeech ELSE BargeInMinSpeech

Capped(n) == IF n < SpeechCap THEN n ELSE SpeechCap

\* Bound on the silence the history counts.
QuietCap == MinSilence + Extension

When(c, events) == IF c THEN events ELSE <<>>

-----------------------------------------------------------------------------
\* The windows a frame completes, and what is left over.
Windows(units) == Len(units) \div Window

\* Fault seeded below: only the last window of a frame counts.
Verdict_LastWindow(units) ==
  IF Windows(units) = 0 THEN last
  ELSE \E i \in (Window * (Windows(units) - 1) + 1)..(Window * Windows(units)) : units[i]

\* SileroProbability: the best window of the frame, or else the last verdict.
Verdict(units) ==
  IF Windows(units) = 0 THEN last ELSE \E i \in 1..(Window * Windows(units)) : units[i]

Left(units) == SubSeq(units, Window * Windows(units) + 1, Len(units))

\* Is the frame voiced?
Hear(loud, ms, voiced) ==
  IF kind = "silero"
  THEN LET units == buffer \o [i \in 1..(ms \div UnitMs) |-> loud]
       IN /\ voiced = Verdict(units)
          /\ buffer' = Left(units) /\ last' = voiced
          /\ missed' = IF ~voiced /\ (loud \/ missed > 0) THEN missed + 1 ELSE 0
  ELSE voiced = loud /\ UNCHANGED <<buffer, last, missed>>

\* Fault seeded below: a barge-in is never told of again.
Reset_KeepsBarge ==
  /\ in_speech' = FALSE /\ speech_ms' = 0 /\ silence_ms' = 0
  /\ candidate_emitted' = FALSE /\ UNCHANGED barge_emitted

\* EnergyTurnDetector.reset
Reset ==
  /\ in_speech' = FALSE /\ speech_ms' = 0 /\ silence_ms' = 0
  /\ candidate_emitted' = FALSE /\ barge_emitted' = FALSE

\* Fault seeded below: a hold outlasts its turn.
Restore_KeepsHold == UNCHANGED min_silence /\ extended' = FALSE

\* SmartTurnDetector.reset restores the silence that ends a turn.
Restore == min_silence' = MinSilence /\ extended' = FALSE

\* What a voiced frame tells of
Spoken(ms, speaking) ==
  LET speech == Capped(speech_ms + ms)
      started == in_speech \/ speech >= MinSpeech
      barges == started /\ speaking /\ ~barge_emitted /\ speech >= BargeInMinSpeech
  IN /\ speech_ms' = speech
     /\ in_speech' = started
     /\ candidate_emitted' = (candidate_emitted /\ in_speech)
     /\ barge_emitted' = (barge_emitted \/ barges)
     /\ said' = When(started, <<IF in_speech THEN "speech_continuing" ELSE "speech_start">>)
                  \o When(barges, <<"barge_in">>)
     /\ committed' = FALSE
     /\ UNCHANGED <<min_silence, extended>>

\* Fault seeded below: the pauses of a turn add up.
Voiced_KeepsSilence(ms, speaking) == UNCHANGED silence_ms /\ Spoken(ms, speaking)

\* A voiced frame
Voiced(ms, speaking) == silence_ms' = 0 /\ Spoken(ms, speaking)

\* Unvoiced audio between turns ends what was too short to be speech.
Noise(ms) ==
  /\ ~in_speech
  /\ said' = When(speech_ms > 0, <<"noise_rejected">>)
  /\ speech_ms' = 0
  /\ committed' = FALSE
  /\ UNCHANGED <<in_speech, silence_ms, candidate_emitted, barge_emitted, min_silence, extended>>

\* Unvoiced audio within a turn: it ends ...
Silence(ms) == silence_ms + ms

TurnEnds(ms) ==
  /\ in_speech /\ Silence(ms) >= min_silence
  /\ said' = <<"end_of_turn">>
  /\ committed' = FALSE
  /\ Reset /\ Restore

\* ... or it may be about to end: the scorer commits, holds or leaves it ...
Candidate(ms) ==
  /\ in_speech /\ Silence(ms) < min_silence
  /\ Silence(ms) >= min_silence \div 2 /\ ~candidate_emitted
  /\ \/ /\ kind = "smart_turn"
        /\ said' = <<"end_of_turn_candidate", "end_of_turn">>
        /\ committed' = TRUE
        /\ Reset /\ Restore
     \/ /\ said' = <<"end_of_turn_candidate">>
        /\ silence_ms' = Silence(ms) /\ candidate_emitted' = TRUE
        /\ \/ /\ kind = "smart_turn" /\ ~extended
              /\ extended' = TRUE /\ min_silence' = min_silence + Extension
           \/ UNCHANGED <<extended, min_silence>>
        /\ committed' = FALSE
        /\ UNCHANGED <<in_speech, speech_ms, barge_emitted>>

\* ... or it goes on.
Pauses(ms) ==
  /\ in_speech /\ Silence(ms) < min_silence
  /\ Silence(ms) < min_silence \div 2 \/ candidate_emitted
  /\ said' = When(silence_ms = 0, <<"speech_pause">>)
  /\ silence_ms' = Silence(ms)
  /\ committed' = FALSE
  /\ UNCHANGED <<in_speech, speech_ms, candidate_emitted, barge_emitted, min_silence, extended>>

\* push
Push(ms, loud, speaking) ==
  \E voiced \in BOOLEAN :
    /\ Hear(loud, ms, voiced)
    /\ IF voiced THEN Voiced(ms, speaking) ELSE Noise(ms) \/ TurnEnds(ms) \/ Candidate(ms) \/ Pauses(ms)
    /\ quiet' = IF voiced THEN 0 ELSE IF quiet + ms < QuietCap THEN quiet + ms ELSE QuietCap
    /\ UNCHANGED kind

\* A detector that was just configured
Init ==
  /\ kind \in {"energy", "silero", "smart_turn"}
  /\ in_speech = FALSE /\ speech_ms = 0 /\ silence_ms = 0
  /\ candidate_emitted = FALSE /\ barge_emitted = FALSE
  /\ min_silence = MinSilence /\ extended = FALSE /\ committed = FALSE
  /\ buffer = <<>> /\ last = FALSE
  /\ said = <<>> /\ quiet = 0 /\ missed = 0

Next == \E ms \in FrameMs, loud, speaking \in BOOLEAN : Push(ms, loud, speaking)

Spec == Init /\ [][Next]_vars

-----------------------------------------------------------------------------
\* The detector never lets a window of audio wait, and never waits past its budget.
TypeOK ==
  /\ kind \in {"energy", "silero", "smart_turn"}
  /\ speech_ms \in 0..SpeechCap /\ silence_ms \in 0..(min_silence - 1)
  /\ {in_speech, candidate_emitted, barge_emitted, extended, last, committed} \subseteq BOOLEAN
  /\ min_silence \in {MinSilence, MinSilence + Extension}
  /\ Len(buffer) < Window /\ \A i \in DOMAIN buffer : buffer[i] \in BOOLEAN

Phase == IF ~in_speech THEN "quiet" ELSE IF barge_emitted THEN "barged" ELSE "speech"

Order == INSTANCE TurnOrder WITH phase <- Phase

\* Every detector tells of turns in the order the session relies on, whatever it is fed: this
\* detector implements TurnOrder.
KeepsOrder == Order!Spec

\* A user who went on speaking is not cut off: a turn ends only after the silence of the
\* configuration in one piece, or half of it when the scorer finds the turn complete.
NotCutOff ==
  [][("end_of_turn" \in ToSet(said')) =>
        \/ quiet' >= MinSilence
        \/ committed' /\ kind = "smart_turn" /\ quiet' >= MinSilence \div 2]_vars

\* A user who stopped is answered: no turn outlasts its silence, which only the hold of this very
\* turn extends, and that once.
NotLeftWaiting ==
  in_speech => quiet < MinSilence + (IF extended THEN Extension ELSE 0)

\* A loud frame is told of by the frame after it at the latest: no window hides it, and none is
\* skipped.  A frame is loud as a whole or not at all.
BurstIsHeard == missed <= 1

=============================================================================
