----------------------------- MODULE TurnOrder -----------------------------
(***************************************************************************)
(* What a session may rely on when it is handed the events of a turn       *)
(* detector (Session.handle_turn_event): they come in the order of turns.  *)
(* A turn starts, may go over the assistant once, and ends; noise is told  *)
(* of between turns only.                                                  *)
(***************************************************************************)
VARIABLES
  phase,   \* of the user's turn: "quiet", "speech", "barged"
  said     \* the events of the last audio frame, in their order

Init == phase = "quiet" /\ said = <<>>

Listens == phase = "quiet" /\ phase' = "quiet" /\ said' \in {<<>>, <<"noise_rejected">>}

Starts ==
  /\ phase = "quiet"
  /\ \/ phase' = "speech" /\ said' = <<"speech_start">>
     \/ phase' = "barged" /\ said' = <<"speech_start", "barge_in">>

Continues ==
  /\ phase # "quiet" /\ phase' = phase
  /\ said' \in {<<>>, <<"speech_continuing">>, <<"speech_pause">>, <<"end_of_turn_candidate">>}

BargesIn == phase = "speech" /\ phase' = "barged" /\ said' = <<"speech_continuing", "barge_in">>

Ends ==
  /\ phase # "quiet" /\ phase' = "quiet"
  /\ said' \in {<<"end_of_turn">>, <<"end_of_turn_candidate", "end_of_turn">>}

Next == Listens \/ Starts \/ Continues \/ BargesIn \/ Ends

Spec == Init /\ [][Next]_<<phase, said>>

=============================================================================
