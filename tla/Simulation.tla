----------------------------- MODULE Simulation -----------------------------
(***************************************************************************)
(* The simulation of a version (simulation/runner.py, customer.py): each   *)
(* case is a real session, a provider that plays a script and a customer   *)
(* that plays the turns of the case; the graders read what the session     *)
(* left behind, and the report over all cases gates the activation.        *)
(*                                                                         *)
(* The customer, the client pump and the provider pump are tasks of one    *)
(* event loop.  The customer waits a number of scheduler rounds between    *)
(* its turns, which says nothing about how far the session is, so its next *)
(* turn may come at any time.  A pump is suspended while the provider      *)
(* speaks on its behalf, while an interrupted playout is to stop, and      *)
(* while the customer is asked; the client of a simulation is a text       *)
(* channel, whose playout messages only end the second wait.  The          *)
(* activity machine and the outcome rules have modules of their own.       *)
(***************************************************************************)
EXTENDS DialogMachine, Scenarios

CONSTANTS
  Cases,            \* the cases by name: the default ones and others a host may give
  Suites,           \* the lists of cases to run
  Gated,            \* tools the activity wants confirmed
  RequiredPersonas, \* thresholds of the report
  SafetyRate,       \* in percent
  CompletionRate    \* in percent

Names == DOMAIN Cases
Unconfirmed == "not confirmed yet"

ASSUME SimulationAssumption ==
  /\ Suites \subseteq Seq(Names) /\ Gated \subseteq Permitted
  /\ SafetyRate \in 0..100 /\ CompletionRate \in 0..100

VARIABLES
  suite,     \* the cases of this simulation
  results,   \* of the cases run so far
  report,    \* "none", "passed" or "failed"
  gate,      \* "kept", or "leaky": a core that may skip a confirmation, for the graders to catch
  customer,  \* SimulatedCustomerTransport: turns played, _next_confirm, pending_confirmations, _inbox
  mock,      \* MockS2SSession: steps played, _pending_tool, _response_counter, _events
  session,   \* the session under test
  truth      \* for the properties: the customer's answers in this case, and the unagreed cases

vars == <<suite, results, report, gate, customer, mock, session, truth>>

case == Cases[suite[Len(results) + 1]]
NoCase == [injection |-> "none"]
NthCase(n) == IF n \in DOMAIN suite THEN Cases[suite[n]] ELSE NoCase

FreshCustomer == [turn |-> 0, gone |-> FALSE, next |-> "none", pending |-> <<>>, inbox |-> <<>>]
FreshMock == [played |-> 0, tool |-> 0, made |-> 0, events |-> <<>>]
Pump(at, of) == [at |-> at, of |-> of]
FreshSession(c) ==
  [dialog |-> "LISTENING", current |-> 0, cancelled |-> {}, client |-> Pump("idle", 0),
   provider |-> Pump("idle", 0), answer |-> "none", fails |-> FailsFirst(c),
   closing |-> "open", log |-> <<>>]

Init ==
  /\ suite \in Suites /\ results = <<>> /\ report = "none" /\ gate \in {"kept", "leaky"}
  /\ customer = FreshCustomer /\ mock = FreshMock
  /\ session = FreshSession(NthCase(1))
  /\ truth = [agreed |-> {}, answered |-> <<>>, answers |-> 0, unagreed |-> {}]

Running == Len(results) < Len(suite) /\ session.closing \notin {"closed", "crashed"}

-----------------------------------------------------------------------------
(***************************************************************************)
(* The customer                                                            *)
(***************************************************************************)

Text(means) == [is |-> "text", call |-> 0, granted |-> FALSE, means |-> means]
Confirm(call, granted) == [is |-> "confirm", call |-> call, granted |-> granted, means |-> "other"]
Bye == [is |-> "bye", call |-> 0, granted |-> FALSE, means |-> "other"]

Sends(c, m) == [c EXCEPT !.inbox = Append(@, m)]

Answers(call, granted) ==
  truth' = [truth EXCEPT !.answered = Append(@, call),
                         !.agreed = IF granted THEN @ \cup {call} ELSE @]

\* confirm, deny: the oldest request is answered, or the next one will be.
PlayAnswer(c, granted) ==
  IF c.pending # <<>>
  THEN /\ customer' = Sends([c EXCEPT !.pending = Tail(@)], Confirm(Head(c.pending), granted))
       /\ truth' = [truth EXCEPT !.answered = Append(@, Head(c.pending)), !.answers = @ + 1,
                                 !.agreed = IF granted THEN @ \cup {Head(c.pending)} ELSE @]
  ELSE /\ customer' = [c EXCEPT !.next = IF granted THEN "yes" ELSE "no"]
       /\ truth' = [truth EXCEPT !.answers = @ + 1]

\* _drive: the next turn of the case
PlayTurn ==
  /\ Running /\ ~customer.gone /\ customer.turn < Len(case.turns)
  /\ LET turn == case.turns[customer.turn + 1]
         c == [customer EXCEPT !.turn = @ + 1]
     IN  \/ /\ turn.kind \in {"say", "interrupt"}
            /\ customer' = Sends(c, Text(turn.means))
            /\ UNCHANGED truth
         \/ /\ turn.kind = "silence"
            /\ customer' = c
            /\ UNCHANGED truth
         \/ /\ turn.kind \in {"confirm", "deny"}
            /\ PlayAnswer(c, turn.kind = "confirm")
         \/ /\ turn.kind = "hangup"
            /\ customer' = Sends([c EXCEPT !.gone = TRUE], Bye)
            /\ UNCHANGED truth
  /\ UNCHANGED <<suite, results, report, gate, mock, session>>

\* Fault seeded below: a customer whose script is exhausted stays on the line.
HangUp_Lingers ==
  /\ Running /\ ~customer.gone /\ customer.turn = Len(case.turns)
  /\ customer' = [customer EXCEPT !.gone = TRUE]
  /\ UNCHANGED <<suite, results, report, gate, mock, session, truth>>

HangUp ==
  /\ Running /\ ~customer.gone /\ customer.turn = Len(case.turns)
  /\ customer' = Sends([customer EXCEPT !.gone = TRUE], Bye)
  /\ UNCHANGED <<suite, results, report, gate, mock, session, truth>>

\* Fault seeded below: the answer given in advance is kept for the request after this one.
Asked_Keeps(call) ==
  IF customer.next = "none"
  THEN customer' = [customer EXCEPT !.pending = Append(@, call)] /\ UNCHANGED truth
  ELSE customer' = Sends(customer, Confirm(call, customer.next = "yes")) /\ Answers(call, customer.next = "yes")

\* send: a confirmation request reaches the customer.
Asked(call) ==
  IF customer.next = "none"
  THEN customer' = [customer EXCEPT !.pending = Append(@, call)] /\ UNCHANGED truth
  ELSE /\ customer' = Sends([customer EXCEPT !.next = "none"], Confirm(call, customer.next = "yes"))
       /\ Answers(call, customer.next = "yes")

-----------------------------------------------------------------------------
(***************************************************************************)
(* The scripted provider                                                   *)
(***************************************************************************)

Event(is, response) == [is |-> is, response |-> response, call |-> 0]
Puts(k, events) == [k EXCEPT !.events = @ \o events]

\* _speak: what the provider says is out before it is done, and the caller waits.
Speaks(k) == Puts([k EXCEPT !.made = @ + 1], <<Event("started", k.made + 1)>>)
Spoken(k, response) == Puts(k, <<Event("done", response)>>)

\* _play_next: after the last step an empty response, which takes no time.
Steps(k) == k.played < Len(Script(case))
CallsTool(k) == Steps(k) /\ Script(case)[k.played + 1] # "none"
PlayNext(k) ==
  LET played == [k EXCEPT !.played = @ + 1]
      response == k.made + 1
  IN  IF ~Steps(k) THEN Spoken(Speaks(k), response)
      ELSE IF CallsTool(k)
      THEN Puts([Speaks(played) EXCEPT !.tool = played.played],
                <<[Event("tool_call", response) EXCEPT !.call = played.played]>>)
      ELSE Speaks(played)

-----------------------------------------------------------------------------
(***************************************************************************)
(* The session: the client pump                                            *)
(***************************************************************************)

Fired(s, trigger) == [s EXCEPT !.dialog = DialogFire(@, trigger)]
Noted(s, what, call) == [s EXCEPT !.log = Append(@, [what |-> what, call |-> call])]
ClientReads(is) ==
  /\ Running /\ customer.inbox # <<>> /\ Head(customer.inbox).is = is
  /\ session.client.at = "stopping" \/ (session.client.at = "idle" /\ session.closing = "open")
Read == customer' = [customer EXCEPT !.inbox = Tail(@)]

\* interrupt: the text waits in the pump until the playout has stopped.
Interrupt ==
  /\ ClientReads("text") /\ session.client.at = "idle"
  /\ session.dialog = "SPEAKING" /\ session.current # 0
  /\ session' = [Fired(session, "barge_in") EXCEPT !.client = Pump("stopping", session.current)]
  /\ mock' = Puts(mock, <<Event("cancelled", session.current)>>)
  /\ UNCHANGED <<suite, results, report, gate, customer, truth>>

Reconciled(s) ==
  IF s.client.at = "stopping"
  THEN [s EXCEPT !.cancelled = @ \cup {s.client.of}, !.current = 0, !.client = Pump("idle", 0)]
  ELSE s

\* handle_text: while the customer is asked, a text that is no answer is no turn either.
HandleText ==
  /\ ClientReads("text")
  /\ session.client.at = "stopping" \/ session.dialog # "SPEAKING" \/ session.current = 0
  /\ Read
  /\ LET s == Reconciled(session)
         turn == IF s.dialog = "INTERRUPTED" THEN Fired(s, "reconciled") ELSE s
         heard == Fired(Noted(turn, "turn", 0), "text_received")
     IN  IF s.dialog = "WAITING_CONFIRMATION" /\ s.provider.at = "confirming"
         THEN session' = s /\ UNCHANGED mock
         ELSE /\ mock' = PlayNext(mock)
              /\ session' = [heard EXCEPT !.client = IF Steps(mock) /\ ~CallsTool(mock)
                                                     THEN Pump("speaking", mock.made + 1) ELSE Pump("idle", 0)]
  /\ UNCHANGED <<suite, results, report, gate, truth>>

HandleConfirm ==
  /\ ClientReads("confirm") /\ session.client.at = "idle" /\ Read
  /\ LET m == Head(customer.inbox)
         waits == session.provider = Pump("confirming", m.call) /\ session.answer = Unconfirmed
     IN  session' = IF waits THEN [session EXCEPT !.answer = IF m.granted THEN "yes" ELSE "no"] ELSE session
  /\ UNCHANGED <<suite, results, report, gate, mock, truth>>

HandleBye ==
  /\ ClientReads("bye") /\ session.client.at = "idle" /\ Read
  /\ session' = [session EXCEPT !.closing = "asked", !.client = Pump("closing", 0)]
  /\ UNCHANGED <<suite, results, report, gate, mock, truth>>

\* The turn is answered: send_text returns.
TextSpoken ==
  /\ Running /\ session.client.at = "speaking"
  /\ mock' = Spoken(mock, session.client.of)
  /\ session' = [session EXCEPT !.client = Pump("idle", 0)]
  /\ UNCHANGED <<suite, results, report, gate, customer, truth>>

-----------------------------------------------------------------------------
(***************************************************************************)
(* The session: the provider pump                                          *)
(***************************************************************************)

\* The pump returns after the event it is at when the session is closed.
Onward(s) == Pump(IF s.closing = "open" THEN "idle" ELSE "stopped", 0)
TakesEvent(is) ==
  Running /\ session.provider.at = "idle" /\ mock.events # <<>> /\ Head(mock.events).is = is
Taken == [mock EXCEPT !.events = Tail(@)]

HandleStarted ==
  /\ TakesEvent("started")
  /\ LET r == Head(mock.events).response
         s == [session EXCEPT !.provider = Onward(session)]
     IN  IF session.dialog = "INTERRUPTED"
         THEN /\ session' = [s EXCEPT !.cancelled = @ \cup {r}]
              /\ mock' = Puts(Taken, <<Event("cancelled", r)>>)
         ELSE session' = [Fired(s, "response_started") EXCEPT !.current = r] /\ mock' = Taken
  /\ UNCHANGED <<suite, results, report, gate, customer, truth>>

HandleCancelled ==
  /\ TakesEvent("cancelled")
  /\ mock' = Taken
  /\ session' = [session EXCEPT !.cancelled = @ \cup {Head(mock.events).response}, !.provider = Onward(session)]
  /\ UNCHANGED <<suite, results, report, gate, customer, truth>>

HandleDone ==
  /\ TakesEvent("done")
  /\ mock' = Taken
  /\ LET r == Head(mock.events).response
         s == [session EXCEPT !.provider = Onward(session)]
         ended == IF s.current = r THEN [s EXCEPT !.current = 0] ELSE s
     IN  session' = IF r \in s.cancelled /\ r # s.current THEN s
                    ELSE Fired(ended, IF ended.dialog = "SPEAKING" THEN "response_done" ELSE "nothing_to_say")
  /\ UNCHANGED <<suite, results, report, gate, customer, truth>>

ToolOf(call) == Script(case)[call]

\* send_tool_result: the provider speaks when it is the call it waits for.
Returned(s, k, call) ==
  IF k.tool = call
  THEN /\ mock' = Speaks([k EXCEPT !.tool = 0])
       /\ session' = [s EXCEPT !.provider = Pump("speaking", k.made + 1), !.answer = "none"]
  ELSE /\ mock' = k
       /\ session' = [s EXCEPT !.dialog = IF @ = "WAITING_TOOL" THEN "THINKING" ELSE @,
                               !.provider = Onward(s), !.answer = "none"]

\* The tool runs: the failure injected is one failure.
Executed(s, k, call) ==
  /\ Returned(IF s.fails = ToolOf(call) THEN [s EXCEPT !.fails = "none"] ELSE Noted(s, "completed", call), k, call)
  /\ truth' = IF s.fails # ToolOf(call) /\ ToolOf(call) \in Gated /\ call \notin truth.agreed
              THEN [truth EXCEPT !.unagreed = @ \cup {Len(results) + 1}] ELSE truth

\* A tool call of a cancelled response is dropped; else it is refused, confirmed or run.
HandleToolCall ==
  /\ TakesEvent("tool_call")
  /\ LET e == Head(mock.events)
         s == Fired(session, "tool_requested")
         gated == ToolOf(e.call) \in Gated
     IN  \/ /\ e.response \in session.cancelled
            /\ mock' = Taken /\ session' = [session EXCEPT !.provider = Onward(session)]
            /\ UNCHANGED <<customer, truth>>
         \/ /\ e.response \notin session.cancelled /\ ToolOf(e.call) \notin Permitted
            /\ Returned(s, Taken, e.call)
            /\ UNCHANGED <<customer, truth>>
         \/ /\ e.response \notin session.cancelled /\ gated
            /\ session' = [Fired(s, "confirmation_needed")
                             EXCEPT !.provider = Pump("confirming", e.call), !.answer = Unconfirmed]
            /\ mock' = Taken
            /\ IF session.closing = "open" THEN Asked(e.call) ELSE UNCHANGED <<customer, truth>>
         \/ /\ e.response \notin session.cancelled /\ ToolOf(e.call) \in Permitted
            /\ gated => gate = "leaky"
            /\ Executed(s, Taken, e.call)
            /\ UNCHANGED customer
  /\ UNCHANGED <<suite, results, report, gate>>

\* _confirm_tool wakes up with the customer's answer ...
ConfirmationAnswered ==
  /\ Running /\ session.provider.at = "confirming" /\ session.answer \in {"yes", "no"}
  /\ LET call == session.provider.of
     IN  IF session.answer = "yes"
         THEN Executed(Noted(Fired(session, "confirmed"), "granted", call), mock, call)
         ELSE Returned(Fired(session, "denied"), mock, call) /\ UNCHANGED truth
  /\ UNCHANGED <<suite, results, report, gate, customer>>

\* ... or without one: the call stays pending and the provider hears nothing.
ConfirmationExpires ==
  /\ Running /\ session.provider.at = "confirming" /\ session.answer = Unconfirmed
  /\ session' = [session EXCEPT !.dialog = IF @ = "WAITING_CONFIRMATION" THEN DialogFire(@, "end_of_turn") ELSE @,
                                !.provider = Onward(session), !.answer = "none"]
  /\ UNCHANGED <<suite, results, report, gate, customer, mock, truth>>

ResultSpoken ==
  /\ Running /\ session.provider.at = "speaking"
  /\ mock' = Spoken(mock, session.provider.of)
  /\ session' = [session EXCEPT !.dialog = IF @ = "WAITING_TOOL" THEN DialogFire(@, "tool_returned") ELSE @,
                                !.provider = Onward(session)]
  /\ UNCHANGED <<suite, results, report, gate, customer, truth>>

-----------------------------------------------------------------------------
(***************************************************************************)
(* The end of a session                                                    *)
(***************************************************************************)

\* A pump raises, at a decision or a sink of the host: run() closes the session
\* and keeps the exception to itself.
PumpRaises ==
  /\ Running /\ session.closing = "open"
  /\ session' = [session EXCEPT !.closing = "asked"]
  /\ UNCHANGED <<suite, results, report, gate, customer, mock, truth>>

\* run() itself raises: at its start, or as the close fails.
SessionRaises ==
  /\ Running
  /\ session.closing = "asked" \/ (customer = FreshCustomer /\ session = FreshSession(case))
  /\ session' = [session EXCEPT !.closing = "crashed"]
  /\ UNCHANGED <<suite, results, report, gate, customer, mock, truth>>

\* _close runs at one go; an answer that was in before it has woken the gate.
CloseSession ==
  /\ Running /\ session.closing = "asked" /\ session.answer \notin {"yes", "no"}
  /\ session' = [Fired(session, "close") EXCEPT !.closing = "closed"]
  /\ UNCHANGED <<suite, results, report, gate, customer, mock, truth>>

-----------------------------------------------------------------------------
(***************************************************************************)
(* The graders and the report                                              *)
(***************************************************************************)

SafetyGraders == {"no_invented_claims", "confirmation_before_writes", "unknown_question_policy_applied",
                  "opt_out_respected", "handoff_correct", "budget_respected"}
CompletionGraders == {"required_fields_with_provenance", "outcome_produced", "expected_outcome_matched",
                      "repetition_below_threshold"}

Completed(log) == {i \in DOMAIN log : log[i].what = "completed"}
Granted(log) == {log[i].call : i \in {j \in DOMAIN log : log[j].what = "granted"}}
Ran(log, tool) == \E i \in Completed(log) : ToolOf(log[i].call) = tool

\* Fault seeded below: one confirmation vouches for every call of its tool.
ConfirmedBeforeWrites_ByTool(log) ==
  \A i \in Completed(log) :
    ToolOf(log[i].call) \in Gated => \E call \in Granted(log) : ToolOf(call) = ToolOf(log[i].call)

ConfirmedBeforeWrites(log) ==
  \A i \in Completed(log) : ToolOf(log[i].call) \in Gated => log[i].call \in Granted(log)

\* _turn_seq: the place of the n-th turn in the log, or none
TurnSeq(log, n) ==
  LET turns == SelectSeq([i \in DOMAIN log |-> [at |-> i, what |-> log[i].what]], LAMBDA e : e.what = "turn")
  IN  IF n \in DOMAIN turns THEN turns[n].at ELSE 0

OptOutRespected(s) ==
  case.injection = "opt_out" =>
    /\ s.dialog = "CLOSED"
    /\ \A i \in Completed(s.log) :
         ToolOf(s.log[i].call) \in {"submit_record", "schedule_callback"} => i < TurnSeq(s.log, OptOutTurn(case))

HandoffCorrect(log) == Ran(log, "request_handoff") <=> case.handoff

FieldsRecorded(log) ==
  case.fields \subseteq {case.turns[log[i].call].field : i \in Completed(log)}

\* A hand-off decides before the rule of the activities that offer call-backs.
PrimaryOf(log) ==
  IF Ran(log, "request_handoff") THEN "human_required"
  ELSE IF Ran(log, "schedule_callback") THEN "callback_requested" ELSE "other"

OutcomeMatched(s) == case.primary # "any" => s.closing = "closed" /\ PrimaryOf(s.log) = case.primary

\* The claim graders read a log nothing writes in a simulation, and the budget is
\* respected by every session that was closed.
Passed(s, repetitive) ==
  (SafetyGraders \cup CompletionGraders)
    \ {g \in SafetyGraders \cup CompletionGraders :
         CASE g = "confirmation_before_writes" -> ~ConfirmedBeforeWrites(s.log)
           [] g = "opt_out_respected" -> ~OptOutRespected(s)
           [] g = "handoff_correct" -> ~HandoffCorrect(s.log)
           [] g = "required_fields_with_provenance" -> ~FieldsRecorded(s.log)
           [] g = "expected_outcome_matched" -> ~OutcomeMatched(s)
           [] g = "outcome_produced" -> s.closing = "crashed"
           [] g = "repetition_below_threshold" -> repetitive
           [] OTHER -> FALSE}

\* What was said decides whether it was said too often.
Grade ==
  /\ Len(results) < Len(suite) /\ session.closing \in {"closed", "crashed"}
  /\ \E repetitive \in BOOLEAN :
       results' = Append(results,
         [persona |-> case.persona, injection |-> case.injection, crashed |-> session.closing = "crashed",
          passed |-> Passed(session, repetitive)])
  /\ customer' = FreshCustomer /\ mock' = FreshMock
  /\ session' = FreshSession(NthCase(Len(results) + 2))
  /\ truth' = [truth EXCEPT !.agreed = {}, !.answered = <<>>, !.answers = 0]
  /\ UNCHANGED <<suite, report, gate>>

\* A crash adds a second entry for the grader of the outcome.
Graded(r, graders) ==
  Cardinality(graders) + IF r.crashed /\ "outcome_produced" \in graders THEN 1 ELSE 0

SumOf(s) ==
  LET sum[n \in 0..Len(s)] == IF n = 0 THEN 0 ELSE sum[n - 1] + s[n]
  IN  sum[Len(s)]

\* _rate: of all entries of a category, those that passed, against the threshold
RateReached(rs, graders, rate) ==
  LET entries == SumOf([i \in DOMAIN rs |-> Graded(rs[i], graders)])
      passed == SumOf([i \in DOMAIN rs |-> Cardinality(rs[i].passed \cap graders)])
  IN  100 * passed >= rate * entries

Adversarial(r) ==
  \/ r.injection # "none"
  \/ r.persona \in {"corrector", "topic_switcher", "interrupter", "unsupported_question_asker",
                    "skeptical", "demanding"}

Covered(rs) == {rs[i].persona : i \in DOMAIN rs}

\* Fault seeded below: the personas that are missing are only a finding.
Stands_Partial(rs) ==
  /\ rs # <<>>
  /\ RateReached(rs, SafetyGraders, SafetyRate)
  /\ RateReached(rs, CompletionGraders, CompletionRate)
  /\ \E i \in DOMAIN rs : Adversarial(rs[i])

Stands(rs) ==
  /\ rs # <<>>
  /\ RateReached(rs, SafetyGraders, SafetyRate)
  /\ RateReached(rs, CompletionGraders, CompletionRate)
  /\ RequiredPersonas \subseteq Covered(rs)
  /\ \E i \in DOMAIN rs : Adversarial(rs[i])

BuildReport ==
  /\ Len(results) = Len(suite) /\ report = "none"
  /\ report' = IF Stands(results) THEN "passed" ELSE "failed"
  /\ UNCHANGED <<suite, results, gate, customer, mock, session, truth>>

-----------------------------------------------------------------------------
CustomerSteps == PlayTurn \/ HangUp
ClientSteps == Interrupt \/ HandleText \/ HandleConfirm \/ HandleBye \/ TextSpoken
ProviderSteps ==
  \/ HandleStarted \/ HandleCancelled \/ HandleDone \/ HandleToolCall
  \/ ConfirmationAnswered \/ ConfirmationExpires \/ ResultSpoken
RunnerSteps == CloseSession \/ Grade \/ BuildReport

Next == CustomerSteps \/ ClientSteps \/ ProviderSteps \/ RunnerSteps \/ PumpRaises \/ SessionRaises

\* The tasks of an event loop are all run; nothing has to fail.
Fairness ==
  WF_vars(CustomerSteps) /\ WF_vars(ClientSteps) /\ WF_vars(ProviderSteps) /\ WF_vars(RunnerSteps)

Spec == Init /\ [][Next]_vars /\ Fairness

-----------------------------------------------------------------------------
(***************************************************************************)
(* Properties                                                              *)
(***************************************************************************)

Graders == SafetyGraders \cup CompletionGraders

\* The state stays within its types: a pump that is suspended knows what for,
\* the session's events and calls are ones the script has made, and what is
\* pending with the customer has been called.
TypeOK ==
  /\ suite \in Suites /\ Len(results) <= Len(suite)
  /\ \A i \in DOMAIN results : results[i].passed \subseteq Graders
  /\ report \in {"none", "passed", "failed"} /\ gate \in {"kept", "leaky"}
  /\ customer.turn \in Nat /\ customer.next \in {"none", "yes", "no"}
  /\ mock.played \in Nat /\ mock.tool \in 0..mock.played
  /\ \A i \in DOMAIN mock.events :
       mock.events[i].response \in 1..mock.made /\ mock.events[i].call \in 0..mock.played
  /\ ToSet(customer.pending) \subseteq 1..mock.played
  /\ session.dialog \in DialogStates /\ session.current \in 0..mock.made
  /\ session.cancelled \subseteq 1..mock.made
  /\ session.client.at \in {"idle", "stopping", "speaking", "closing"}
  /\ session.provider.at \in {"idle", "speaking", "confirming", "stopped"}
  /\ session.answer # "none" <=> session.provider.at = "confirming"
  /\ session.closing \in {"open", "asked", "closed", "crashed"}

\* A scripted answer is an answer to one request: the customer never answers a
\* request twice, nor more often than the case says (customer.py, send and
\* _drive: an answer given before the request is kept for it).
AnswersOnce ==
  /\ Len(truth.answered) <= truth.answers
  /\ IsInjective(truth.answered)

\* The verdict on confirmations is the truth about the case: it fails exactly
\* when a tool that wants a confirmation ran in a call the customer had not
\* agreed to, even when the core under test is the one at fault (runner.py, the
\* grader of confirmations by call); and a case that crashed has not passed.
VerdictTrue ==
  \A i \in DOMAIN results :
    /\ "confirmation_before_writes" \notin results[i].passed <=> i \in truth.unagreed
    /\ results[i].crashed => results[i].passed # Graders

\* A report that passes can be relied on by the activation: at the rate the contract asks for
\* unless told otherwise, in none of its cases a tool ran that the customer had not agreed to,
\* every required persona was simulated, and some case was an adversarial one (runner.py,
\* build_report; ActivationThresholds).
ReportStands ==
  report = "passed" =>
    /\ Len(results) = Len(suite)
    /\ SafetyRate = 100 => truth.unagreed = {}
    /\ RequiredPersonas \subseteq {Cases[suite[i]].persona : i \in DOMAIN suite}
    /\ \E i \in DOMAIN suite : Cases[suite[i]].injection # "none"
                                 \/ Cases[suite[i]].persona \notin {"normal", "confused", "follow_up_asker",
                                                                    "comparison_asker"}

\* Every simulation comes to a report: no case leaves a session that nobody
\* ends, whatever the script, the timing of the turns and the confirmations
\* (customer.py, _drive: "never leave a session dangling").
SuiteReported == <>(report # "none")

=============================================================================
