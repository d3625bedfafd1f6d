---------------------------- MODULE MCSimulation ----------------------------
(***************************************************************************)
(* One required field, call-backs that want a confirmation, the default    *)
(* cases one by one, and a few suites: one that may pass, one without a    *)
(* required persona, and a case with two calls of the confirmed tool.      *)
(***************************************************************************)
EXTENDS Simulation, TLC

MCRequired == <<"name">>

CallBack == Calls("schedule_callback")

\* A turn that says nothing uses up a step of the script, so the calls come first.
TwoCalls ==
  [Case("demanding", <<CallBack, CallBack, Turn("confirm", "none", "none"), Turn("silence", "none", "none")>>)
     EXCEPT !.fields = {}]

Wavering ==
  [Case("skeptical", <<CallBack, CallBack, Turn("deny", "none", "none"), Turn("confirm", "none", "none"), Hangup>>)
     EXCEPT !.fields = {}]

\* A tool the activity does not permit
Refused == Case("confused", <<Calls("verify_field"), Hangup>>)

MCCases == PersonaCases @@ InjectedCases @@ [two_calls |-> TwoCalls, wavering |-> Wavering, refused |-> Refused]

MCSuites ==
  {<<>>, <<"two_calls">>, <<"wavering">>, <<"refused">>, <<"normal_complete", "callback_confirmed">>,
   <<"callback_confirmed", "opt_out_mid_call">>, <<"human_request", "tool_failure_first_write">>,
   <<"callback_confirmed", "human_request">>}
    \cup {<<name>> : name \in DefaultCases}

=============================================================================
