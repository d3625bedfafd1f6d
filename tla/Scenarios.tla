----------------------------- MODULE Scenarios -----------------------------
(***************************************************************************)
(* The cases a version is simulated with (simulation/cases.py): who calls, *)
(* what is injected, what the customer does turn by turn and what the      *)
(* scripted assistant does in reply.  What is said is left out, but for    *)
(* its meaning as an answer.                                               *)
(***************************************************************************)
EXTENDS Integers, SequencesExt

CONSTANTS
  Required,    \* names of the required fields, in their order
  Permitted,   \* tools the activity permits
  Primary      \* primary outcomes of its schema

Turn(kind, tool, field) == [kind |-> kind, tool |-> tool, field |-> field, means |-> "other"]

Talk == Turn("say", "none", "none")
Greet == Talk
StopTurn == [Talk EXCEPT !.means = "stop"]
Hangup == Turn("hangup", "none", "none")
Calls(tool) == Turn("say", tool, "none")

RecordTurn(name) == Turn("say", "record_field", name)

FieldTurns == [i \in DOMAIN Required |-> RecordTurn(Required[i])]

Submit == IF "submit_record" \in Permitted THEN <<Calls("submit_record")>> ELSE <<>>

\* add: what a case expects unless it says otherwise
Case(persona, turns) ==
  [persona |-> persona, injection |-> "none", turns |-> turns,
   fields |-> {Required[i] : i \in DOMAIN Required \cap 1..2}, handoff |-> FALSE, primary |-> "any"]

Injected(c, injection, fields) == [c EXCEPT !.injection = injection, !.fields = fields]

First == IF FieldTurns = <<>> THEN <<>> ELSE <<Head(FieldTurns)>>
Rest == SubSeq(FieldTurns, 2, Len(Required))

\* One case for each persona ...
PersonaCases ==
  LET asking == <<Greet, Talk>> \o FieldTurns \o Submit
      between == <<Greet>> \o First \o <<Talk>> \o Rest \o Submit
      corrected == IF Required = <<>> THEN <<>> ELSE <<RecordTurn(Required[1])>>
  IN  [normal_complete |-> Case("normal", <<Greet>> \o FieldTurns \o Submit),
       confused_needs_clarification |-> Case("confused", asking),
       skeptical_asks_purpose |-> Case("skeptical", asking),
       demanding_wants_speed |-> Case("demanding", <<Talk>> \o FieldTurns \o Submit),
       follow_up_asker |-> Case("follow_up_asker", between),
       comparison_asker |-> Case("comparison_asker", asking),
       corrector_changes_answer |->
         Case("corrector", <<Greet>> \o FieldTurns \o corrected \o Submit),
       topic_switcher |-> Case("topic_switcher", between),
       interrupter |-> Case("interrupter", asking),
       unsupported_question |->
         [Case("unsupported_question_asker", asking)
            EXCEPT !.injection = "unsupported_claim_request"]]

\* ... and one for each condition that is injected.
InjectedCases ==
  [tool_failure_first_write |->
     Injected(Case("normal", <<Greet>> \o FieldTurns \o Submit), "tool_failure", {}),
   incomplete_info_hangup |->
     Injected(Case("normal", <<Greet>> \o First \o <<Hangup>>), "incomplete_customer_info",
              {Required[i] : i \in DOMAIN Required \cap {1}}),
   human_request |->
     [Injected(Case("skeptical", <<Greet, Calls("request_handoff"), Hangup>>), "human_request", {})
        EXCEPT !.handoff = TRUE],
   callback_confirmed |->
     [Case("demanding",
           <<Greet, Calls("schedule_callback"), Turn("confirm", "none", "none"), Hangup>>)
        EXCEPT !.fields = {},
               !.primary = IF "callback_requested" \in Primary THEN "callback_requested" ELSE "any"],
   opt_out_mid_call |->
     Injected(Case("normal", <<Greet>> \o First \o <<StopTurn, Hangup>>), "opt_out", {})]

\* A case is left out when the activity cannot act it.
DefaultCases ==
  {name \in DOMAIN PersonaCases \cup DOMAIN InjectedCases :
     /\ name = "corrector_changes_answer" => Required # <<>>
     /\ name = "human_request" => "request_handoff" \in Permitted
     /\ name = "callback_confirmed" => "schedule_callback" \in Permitted}

\* _script_from_case: one step for each turn, whatever its kind, and a closing one.
Script(c) == [i \in DOMAIN c.turns |-> c.turns[i].tool] \o <<"none">>

\* The tool that is made to fail: the first the script calls
FailsFirst(c) ==
  IF c.injection # "tool_failure" THEN "none"
  ELSE LET calls == SelectSeq(Script(c), LAMBDA tool : tool # "none")
       IN  IF calls = <<>> THEN "none" ELSE Head(calls)

\* The turn the customer opts out with, as the runner finds it
OptOutTurn(c) ==
  IF c.injection # "opt_out" THEN 0
  ELSE SelectInSeq(c.turns, LAMBDA t : t.kind = "hangup" \/ t.means = "stop")

=============================================================================
