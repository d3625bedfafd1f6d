---------------------------- MODULE ActivityTools ----------------------------
(***************************************************************************)
(* The business task of a session: the tools the model asks for, the       *)
(* pipeline that lets them through, the fields they fill, the user's       *)
(* confirmation of a write, the activity machine, and the end of the       *)
(* session that finalizes it.                                              *)
(*                                                                         *)
(* The provider pump runs one tool call at a time.  It is suspended while  *)
(* it waits for a confirmation or for the backend, and wherever it emits   *)
(* an event of a type the runtime mirrors to the client; meanwhile the     *)
(* client pump handles the user's turns and answers, and either of them,   *)
(* or the end of another pump, may close the session.  The shipped         *)
(* decision adapters and sinks answer without suspending.  The backend is  *)
(* external: whether a call that times out or is cancelled had its effect  *)
(* is open.                                                                *)
(***************************************************************************)
EXTENDS ActivityMachine, FiniteSets, Sequences

CONSTANTS
  Fields,        \* the required fields of the activity
  Values,        \* what the user may state
  Valid,         \* the values validation accepts
  Required,      \* provenance each field requires before execution
  Permitted,     \* tools the activity and the tenant permit, with the declared impact
  Bound,         \* the tools a backend is bound to
  SuccessRules,  \* facts that together mean success
  FailureRules,  \* facts that together mean failure
  ExitRules,     \* the exit rules in order: a fact that ends the activity, and the rule's value
  Primaries,     \* outcome_schema.primary: the labels a record may carry, in order
  MaxCalls,      \* max_calls of the session's budget
  MaxWrites,     \* max_write_calls of the session's budget
  MaxRequests,   \* bound: tool calls the model makes
  MaxTurns       \* bound: turns the user takes

Tools == {"lookup_knowledge", "record_field", "verify_field", "submit_record", "clarify",
          "request_handoff", "schedule_callback"}
RuleFacts == {"accepted", "callback_scheduled", "recorded"}
Provenances == {"UNVERIFIED", "USER_STATED", "SYSTEM_DERIVED", "KNOWLEDGE_APPROVED", "TOOL_VERIFIED"}

ASSUME ConstantsOK ==
  /\ Valid \subseteq Values
  /\ Required \in [Fields -> Provenances]
  /\ Permitted \subseteq Tools /\ Bound \subseteq Tools
  /\ SuccessRules \subseteq RuleFacts /\ FailureRules \subseteq RuleFacts
  /\ ExitRules \in Seq([fact : RuleFacts, value : STRING])
  /\ Primaries \in Seq(STRING) /\ Primaries # <<>>
  /\ ValidTable(ActivityTable)
  /\ MaxCalls \in Nat /\ MaxWrites \in Nat /\ MaxRequests \in Nat /\ MaxTurns \in Nat

Strength(p) ==
  CASE p = "UNVERIFIED"         -> 1
    [] p = "USER_STATED"        -> 2
    [] p = "SYSTEM_DERIVED"     -> 3
    [] p = "KNOWLEDGE_APPROVED" -> 4
    [] p = "TOOL_VERIFIED"      -> 5

NoField == "no field"
NoValue == "no value"
NoOutcome == "no outcome"
Unset   == [value |-> NoValue, prov |-> "UNVERIFIED"]

\* A tool call: only the two field tools have arguments that matter here.
FieldCalls == [tool : {"record_field", "verify_field"}, field : Fields, value : Values]
OtherCalls == [tool : Tools \ {"record_field", "verify_field"}, field : {NoField}, value : {NoValue}]
Calls      == FieldCalls \cup OtherCalls
NoCall     == [tool |-> "none", field |-> NoField, value |-> NoValue]

\* The platform declarations of these tools.
Impact(c) == CASE c.tool \in {"record_field", "submit_record", "schedule_callback"} -> "write"
               [] c.tool = "request_handoff" -> "escalation"
               [] OTHER -> "read"
NeedsConfirmation(c) == c.tool = "submit_record"

\* idempotency_key: reads have none; the call stands for its own key.
HasKey(c) == Impact(c) # "read"

VARIABLES
  \* --- the session
  activity,    \* state of the activity machine
  values,      \* the field store: value and provenance of each field
  seen,        \* calls with a COMPLETED outcome under their key
  calls,       \* budget: calls counted
  writes,      \* budget: write calls counted
  reported,    \* keyed calls with a backend outcome in the history
  flags,       \* facts the completion rules read
  \* --- the provider pump
  toolPc,      \* where the provider pump is suspended, see ToolPcs
  call,        \* the call in progress
  callNo,      \* its number (the call id)
  future,      \* its confirmation: "none", "waiting", "granted", "denied", "dropped"
  \* --- the client pump
  turnPc,      \* "idle", "engaged", "answering", "stopped"
  answers,     \* the call the text being interpreted is an answer to
  turns,       \* user turns taken
  inbox,       \* confirm messages not processed yet
  \* --- the close sequence
  closed,      \* _closed
  closePc,     \* "open", "requested", "finalized", "recorded"
  outcome,     \* primary outcome of the record, once there is one
  inRecord,    \* the keyed calls the record reports
  \* --- the world, for the properties
  asked,       \* prompts on the user's screen
  granted,     \* calls the core took an agreement for
  confirmedRuns, \* calls with confirmation that reached the backend
  effects,     \* how often the backend carried out each keyed call
  completions, \* how often a keyed call came back COMPLETED
  taken,       \* the last call whose hand-off the sink accepted
  verified     \* field and value pairs the backend has verified

session == <<activity, values, seen, calls, writes, reported, flags>>
pump    == <<toolPc, call, callNo, future>>
client  == <<turnPc, answers, turns, inbox>>
closing == <<closed, closePc, outcome, inRecord>>
world   == <<asked, granted, confirmedRuns, effects, completions, taken, verified>>
vars    == <<session, pump, client, closing, world>>

Allowed == {Primaries[i] : i \in DOMAIN Primaries}

Keyed == {c \in Calls : HasKey(c)}

ToolPcs == {"idle", "asking", "confirming", "confirmed", "executing", "completing", "failing",
            "applying", "handing", "stopped"}

CallNos == 0..MaxRequests

TypeOK ==
  /\ activity \in ActivityStates
  /\ values \in [Fields -> [value : Valid \cup {NoValue}, prov : Provenances]]
  /\ seen \subseteq Keyed /\ reported \subseteq Keyed /\ inRecord \subseteq Keyed
  /\ calls \in Nat /\ writes \in Nat
  /\ flags \subseteq {"accepted", "callback_scheduled", "handoff"}
  /\ toolPc \in ToolPcs
  /\ call \in Calls \cup {NoCall} /\ (toolPc \notin {"idle", "stopped"} => call \in Calls)
  /\ callNo \in CallNos
  /\ future \in {"none", "waiting", "granted", "denied", "dropped"}
  /\ turnPc \in {"idle", "engaged", "answering", "stopped"}
  /\ answers \in CallNos
  /\ turns \in 0..MaxTurns
  /\ inbox \subseteq CallNos \X BOOLEAN
  /\ closed \in BOOLEAN
  /\ closePc \in {"open", "requested", "finalized", "recorded"}
  /\ outcome \in Allowed \cup {NoOutcome}
  /\ asked \subseteq CallNos
  /\ granted \subseteq CallNos /\ confirmedRuns \subseteq CallNos
  /\ effects \in [Keyed -> Nat] /\ completions \in [Keyed -> Nat]
  /\ taken \in CallNos
  /\ verified \subseteq Fields \X Values

\* start() has fired "opened".
Init ==
  /\ activity = "ENGAGED"
  /\ values = [f \in Fields |-> Unset]
  /\ seen = {} /\ calls = 0 /\ writes = 0 /\ reported = {} /\ flags = {}
  /\ toolPc = "idle" /\ call = NoCall /\ callNo = 0 /\ future = "none"
  /\ turnPc = "idle" /\ answers = 0 /\ turns = 0 /\ inbox = {}
  /\ closed = FALSE /\ closePc = "open"
  /\ outcome = NoOutcome /\ inRecord = {}
  /\ asked = {} /\ granted = {} /\ confirmedRuns = {} /\ taken = 0
  /\ effects = [c \in Keyed |-> 0] /\ completions = [c \in Keyed |-> 0]
  /\ verified = {}

-----------------------------------------------------------------------------
(***************************************************************************)
(* The field store                                                         *)
(***************************************************************************)

Recorded(vals) == {f \in Fields : vals[f].prov # "UNVERIFIED"}
MissingRequired(vals) == Fields \ Recorded(vals)
Satisfies(actual, required) == actual # "UNVERIFIED" /\ Strength(actual) >= Strength(required)
ReadyForExecution(vals) == \A f \in Fields : Satisfies(vals[f].prov, Required[f])

\* record(): a weaker provenance never overwrites a stronger one for the same
\* value; another value is a correction and takes its own provenance.
Record(vals, f, v, p) ==
  IF vals[f].value = v /\ Strength(p) < Strength(vals[f].prov)
  THEN vals
  ELSE [vals EXCEPT ![f] = [value |-> v, prov |-> p]]

\* The provenance tag of an outcome: never stronger than the declaration allows.
Weaker_Trusting(p, q) == p
Weaker(p, q) == IF Strength(p) <= Strength(q) THEN p ELSE q

-----------------------------------------------------------------------------
(***************************************************************************)
(* The tool pipeline and what its outcome does to the session              *)
(***************************************************************************)

\* The pump takes its next event, or returns when the session is closed.
Rest == IF closed THEN "stopped" ELSE "idle"
CallEnds == toolPc' = Rest /\ call' = NoCall /\ future' = "none"

Fires(trigger) == activity' = ActivityFire(activity, trigger)
FiresIf(condition, trigger) == activity' = IF condition THEN ActivityFire(activity, trigger) ELSE activity

Allow_OffByOne(c) == calls <= MaxCalls /\ ~(Impact(c) = "write" /\ writes > MaxWrites)
Allow(c) == calls < MaxCalls /\ ~(Impact(c) = "write" /\ writes >= MaxWrites)

\* What the failing outcomes (FAILED, TIMEOUT, UNKNOWN) do to the activity.
ExecutionFails == FiresIf(activity = "EXECUTING", "execution_failed")

\* Step 8: the budget is charged when the backend is called; a tool without a
\* backend fails.
Execute(c, n) ==
  /\ call' = c /\ future' = "none"
  /\ \/ /\ c.tool \notin Bound
        /\ toolPc' = "failing"
        /\ UNCHANGED <<calls, writes, confirmedRuns>>
     \/ /\ c.tool \in Bound
        /\ toolPc' = "executing"
        /\ calls' = calls + 1
        /\ writes' = IF Impact(c) = "write" THEN writes + 1 ELSE writes
        /\ confirmedRuns' = IF NeedsConfirmation(c) THEN confirmedRuns \cup {n} ELSE confirmedRuns

\* Step 6: the same keyed call has already come back COMPLETED.
Duplicate_Never(c) == FALSE
Duplicate(c) == HasKey(c) /\ c \in seen

\* The model asks for a tool: steps 2 to 6 of the pipeline, in order.
StartCall(c) ==
  /\ toolPc = "idle" /\ callNo < MaxRequests
  /\ callNo' = callNo + 1
  /\ \/ /\ c.tool \notin Permitted \/ ~Allow(c)                  \* steps 3 to 5: refused
        /\ CallEnds
        /\ UNCHANGED <<calls, writes, confirmedRuns>>
     \/ /\ c.tool \in Permitted /\ Allow(c) /\ Duplicate(c)          \* step 6: duplicate
        /\ CallEnds
        /\ UNCHANGED <<calls, writes, confirmedRuns>>
     \/ /\ c.tool \in Permitted /\ Allow(c) /\ ~Duplicate(c) /\ NeedsConfirmation(c)
        /\ toolPc' = "asking" /\ call' = c /\ future' = "none"
        /\ UNCHANGED <<calls, writes, confirmedRuns>>
     \/ /\ c.tool \in Permitted /\ Allow(c) /\ ~Duplicate(c) /\ ~NeedsConfirmation(c)
        /\ Execute(c, callNo')
  /\ UNCHANGED <<activity, values, seen, reported, flags, client, closing>>
  /\ UNCHANGED <<asked, granted, effects, completions, taken, verified>>

\* Step 7: the confirmation is pending only once its event is emitted; a close
\* in between finds nothing to drop.
ConfirmationAsked ==
  /\ toolPc = "asking"
  /\ toolPc' = "confirming" /\ future' = "waiting"
  /\ Fires("confirm_needed")
  /\ asked' = asked \cup {callNo}
  /\ UNCHANGED <<values, seen, calls, writes, reported, flags, call, callNo, client, closing>>
  /\ UNCHANGED <<granted, confirmedRuns, effects, completions, taken, verified>>

\* The confirmation gate wakes up: the user agreed, refused, or the session closed.
ConfirmationGranted ==
  /\ toolPc = "confirming" /\ future = "granted"
  /\ Fires("confirmed")
  /\ toolPc' = "confirmed"
  /\ UNCHANGED <<values, seen, calls, writes, reported, flags, call, callNo, future, client, closing, world>>

ExecuteConfirmed ==
  /\ toolPc = "confirmed"
  /\ Execute(call, callNo)
  /\ UNCHANGED <<activity, values, seen, reported, flags, callNo, client, closing>>
  /\ UNCHANGED <<asked, granted, effects, completions, taken, verified>>

ConfirmationRefused_Swapped ==
  /\ toolPc = "confirming" /\ future \in {"denied", "dropped"}
  /\ FiresIf(future = "denied", "confirmed")
  /\ CallEnds
  /\ UNCHANGED <<values, seen, calls, writes, reported, flags, callNo, client, closing, world>>

ConfirmationRefused ==
  /\ toolPc = "confirming" /\ future \in {"denied", "dropped"}
  /\ FiresIf(future = "denied", "denied")
  /\ CallEnds
  /\ UNCHANGED <<values, seen, calls, writes, reported, flags, callNo, client, closing, world>>

ConfirmationExpires_NoTimer == FALSE /\ UNCHANGED vars

ConfirmationExpires ==
  /\ toolPc = "confirming" /\ future = "waiting"
  /\ CallEnds
  /\ UNCHANGED <<session, callNo, client, closing, world>>

\* _record_field: an invalid value only asks again.
RecordField(c, prov) ==
  IF c.value \notin Valid
  THEN Fires("field_needed") /\ UNCHANGED values
  ELSE /\ values' = Record(values, c.field, c.value, prov)
       /\ FiresIf(MissingRequired(values') # {}, "field_needed")

\* verify(): the value held now is promoted, whatever value was sent to the backend.
VerifyField(c, ok) ==
  /\ values' = IF ok /\ values[c.field].value # NoValue
               THEN Record(values, c.field, values[c.field].value, "TOOL_VERIFIED") ELSE values
  /\ verified' = IF ok THEN verified \cup {<<c.field, c.value>>} ELSE verified

\* The backend answers COMPLETED: the work is done, the event is emitted first.
BackendCompletes ==
  /\ toolPc = "executing"
  /\ toolPc' = "completing"
  /\ effects' = IF HasKey(call) THEN [effects EXCEPT ![call] = @ + 1] ELSE effects
  /\ UNCHANGED <<session, call, callNo, future, client, closing>>
  /\ UNCHANGED <<asked, granted, confirmedRuns, completions, taken, verified>>

\* FAILED, TIMEOUT or UNKNOWN: a backend that was called may have done the work.
BackendFails ==
  /\ toolPc = "executing"
  /\ toolPc' = "failing"
  /\ effects' \in {effects, IF HasKey(call) THEN [effects EXCEPT ![call] = @ + 1] ELSE effects}
  /\ UNCHANGED <<session, call, callNo, future, client, closing>>
  /\ UNCHANGED <<asked, granted, confirmedRuns, completions, taken, verified>>

\* Steps 9 to 11 for COMPLETED, and _apply_tool_outcome for the tools whose
\* effect needs no further event.  What the backend answers (ok: accepted or
\* verified) and the provenance it claims are open.
ToolCompletes ==
  /\ toolPc = "completing"
  /\ seen' = IF HasKey(call) THEN seen \cup {call} ELSE seen
  /\ reported' = IF HasKey(call) THEN reported \cup {call} ELSE reported
  /\ completions' = IF HasKey(call) THEN [completions EXCEPT ![call] = @ + 1] ELSE completions
  /\ IF call.tool \in {"record_field", "request_handoff"}
     THEN /\ toolPc' = "applying"
          /\ UNCHANGED <<activity, values, flags, call, future, verified>>
     ELSE /\ \E ok \in BOOLEAN, claimed \in {"USER_STATED", "TOOL_VERIFIED"} :
               /\ flags' = flags \cup (CASE call.tool = "submit_record" /\ ok -> {"accepted"}
                                         [] call.tool = "schedule_callback"   -> {"callback_scheduled"}
                                         [] OTHER -> {})
               /\ CASE call.tool = "verify_field" -> VerifyField(call, ok) /\ UNCHANGED activity
                    [] call.tool = "clarify" -> Fires("ambiguity") /\ UNCHANGED <<values, verified>>
                    [] OTHER -> /\ FiresIf(/\ activity = "EXECUTING" /\ claimed = "TOOL_VERIFIED"
                                           /\ call.tool = "submit_record" /\ ok, "executed")
                                /\ UNCHANGED <<values, verified>>
          /\ CallEnds
  /\ UNCHANGED <<calls, writes, callNo, client, closing, asked, granted, confirmedRuns>>
  /\ UNCHANGED <<effects, taken>>

\* _record_field after the event of its decision.
FieldApplied ==
  /\ toolPc = "applying" /\ call.tool = "record_field"
  /\ \E claimed \in {"USER_STATED", "TOOL_VERIFIED"} : RecordField(call, Weaker(claimed, "USER_STATED"))
  /\ CallEnds
  /\ UNCHANGED <<seen, calls, writes, reported, flags, callNo, client, closing>>
  /\ UNCHANGED <<asked, granted, confirmedRuns, effects, completions, taken, verified>>

\* request_handoff after the event that tells of it: the sink takes it or not,
\* and what the session does about that follows another event.
HandoffSent ==
  /\ toolPc = "applying" /\ call.tool = "request_handoff"
  /\ toolPc' = "handing"
  /\ taken' \in {taken, callNo}
  /\ UNCHANGED <<session, call, callNo, future, client, closing>>
  /\ UNCHANGED <<asked, granted, confirmedRuns, effects, completions, verified>>

HandoffAcknowledged ==
  /\ toolPc = "handing"
  /\ flags' = IF taken = callNo THEN flags \cup {"handoff"} ELSE flags
  /\ FiresIf(taken = callNo, "handoff")
  /\ CallEnds
  /\ UNCHANGED <<values, seen, calls, writes, reported, callNo, client, closing, world>>

\* The failed outcome reaches the activity; only a backend's is in the record.
ToolFails ==
  /\ toolPc = "failing"
  /\ reported' = IF HasKey(call) /\ call.tool \in Bound THEN reported \cup {call} ELSE reported
  /\ ExecutionFails
  /\ CallEnds
  /\ UNCHANGED <<values, seen, calls, writes, flags, callNo, client, closing, world>>

-----------------------------------------------------------------------------
(***************************************************************************)
(* Completion, and what the user does meanwhile                            *)
(***************************************************************************)

Facts == flags \cup (IF MissingRequired(values) = {} THEN {"recorded"} ELSE {})
\* The exit rules are tried in order, up to the first that holds.
ExitHit    == {i \in DOMAIN ExitRules : /\ ExitRules[i].fact \in Facts
                                        /\ \A j \in 1..(i - 1) : ExitRules[j].fact \notin Facts}
ExitMet    == ExitHit # {}
ExitValue  == ExitRules[CHOOSE i \in ExitHit : TRUE].value
FailureMet == FailureRules # {} /\ FailureRules \subseteq Facts
SuccessMet_Any == SuccessRules \cap Facts # {}
SuccessMet == SuccessRules # {} /\ SuccessRules \subseteq Facts

\* The provider pump handles response_done.
EvaluateCompletion ==
  /\ toolPc = "idle" /\ ~closed /\ activity \notin TerminalActivityStates
  /\ \/ ExitMet /\ Fires("exit_rule_met")
     \/ ~ExitMet /\ FailureMet /\ Fires("failure_rule_met")
     \/ ~ExitMet /\ ~FailureMet /\ SuccessMet /\ Fires("success_rule_met")
     \/ /\ ~ExitMet /\ ~FailureMet /\ ~SuccessMet
        /\ ReadyForExecution(values) /\ activity \in {"COLLECTING", "ENGAGED"}
        /\ Fires("fields_complete")
  /\ UNCHANGED <<values, seen, calls, writes, reported, flags, pump, client, closing, world>>

\* The provider pump handles an error that is fatal and not retryable.
ProviderFails ==
  /\ toolPc = "idle"
  /\ Fires("blocked")
  /\ toolPc' = Rest
  /\ UNCHANGED <<values, seen, calls, writes, reported, flags, call, callNo, future, client, closing, world>>

\* _after_user_turn, in its two steps: the first one's state message suspends.
UserTurn ==
  /\ turnPc = "idle" /\ turns < MaxTurns
  /\ turns' = turns + 1
  /\ Fires("user_engaged")
  /\ turnPc' = "engaged"
  /\ UNCHANGED <<values, seen, calls, writes, reported, flags, pump, answers, inbox, closing, world>>

UserTurnNeeds ==
  /\ turnPc = "engaged"
  /\ FiresIf(MissingRequired(values) # {} /\ activity = "ENGAGED", "field_needed")
  /\ turnPc' = Rest
  /\ UNCHANGED <<values, seen, calls, writes, reported, flags, pump, answers, turns, inbox, closing, world>>

\* A text is an answer when a confirmation is pending, and no turn of the user's;
\* it is interpreted, and the event of the decision is emitted ...
AnswerInText ==
  /\ turnPc = "idle" /\ ~closed
  /\ toolPc = "confirming"
  /\ turnPc' = "answering" /\ answers' = callNo
  /\ UNCHANGED <<session, pump, turns, inbox, closing, world>>

\* ... before the confirmation it is for is looked up: the one pending by then.
\* Without one the lookup raises and the client pump is gone.
ApplyAnswer(answer) ==
  /\ turnPc = "answering"
  /\ answers' = 0
  /\ \/ /\ toolPc # "confirming"
        /\ turnPc' = "stopped"
        /\ UNCHANGED <<activity, future, granted>>
     \/ /\ toolPc = "confirming"
        /\ turnPc' = Rest
        /\ FiresIf(answer = "ambiguous", "ambiguity")
        /\ IF answer # "ambiguous" /\ future = "waiting"
           THEN /\ future' = IF answer = "yes" THEN "granted" ELSE "denied"
                /\ granted' = IF answer = "yes" THEN granted \cup {callNo} ELSE granted
           ELSE UNCHANGED <<future, granted>>
  /\ UNCHANGED <<values, seen, calls, writes, reported, flags, toolPc, call, callNo, turns, inbox, closing>>
  /\ UNCHANGED <<asked, confirmedRuns, effects, completions, taken, verified>>

\* The user presses a button of a prompt, once; the message may arrive late.
SendConfirm(n, agree) ==
  /\ n \in asked /\ turnPc # "stopped"
  /\ asked' = asked \ {n}
  /\ inbox' = inbox \cup {<<n, agree>>}
  /\ UNCHANGED <<session, pump, turnPc, answers, turns, closing>>
  /\ UNCHANGED <<granted, confirmedRuns, effects, completions, taken, verified>>

Resolve_AnyCall(n, agree) ==
  future' = IF toolPc = "confirming" /\ future = "waiting"
            THEN (IF agree THEN "granted" ELSE "denied") ELSE future

\* resolve_confirmation: bound to the call it names, and only while that one waits.
Resolve(n, agree) ==
  future' = IF toolPc = "confirming" /\ future = "waiting" /\ n = callNo
            THEN (IF agree THEN "granted" ELSE "denied") ELSE future

HandleConfirm ==
  /\ turnPc = "idle"
  /\ \E m \in inbox :
       /\ Resolve(m[1], m[2])
       /\ inbox' = inbox \ {m}
       /\ granted' = IF future' = "granted" /\ future # "granted" THEN granted \cup {m[1]} ELSE granted
  /\ turnPc' = Rest
  /\ UNCHANGED <<session, toolPc, call, callNo, answers, turns, closing>>
  /\ UNCHANGED <<asked, confirmedRuns, effects, completions, taken, verified>>

-----------------------------------------------------------------------------
(***************************************************************************)
(* The end of the session                                                  *)
(***************************************************************************)

\* close(): single flight, in a task of its own.  The pump that closes takes nothing more.
Close ==
  /\ ~closed
  /\ closed' = TRUE /\ closePc' = "requested"
  /\ \/ turnPc = "idle" /\ turnPc' = "stopped" /\ UNCHANGED toolPc     \* bye, end of the client's stream
     \/ toolPc = "idle" /\ toolPc' = "stopped" /\ UNCHANGED turnPc     \* the provider's session closed
     \/ UNCHANGED <<toolPc, turnPc>>                                     \* another pump ended
  /\ UNCHANGED <<session, call, callNo, future, answers, turns, inbox, outcome, inRecord, world>>

\* What the rules say when the session ends, and the two triggers fired for it.
FinalTrigger == CASE ExitMet -> "exit_rule_met"
                  [] ~ExitMet /\ FailureMet -> "failure_rule_met"
                  [] ~ExitMet /\ ~FailureMet /\ SuccessMet -> "success_rule_met"
                  [] OTHER -> "user_left"

Finalized ==
  IF activity \in TerminalActivityStates THEN activity
  ELSE LET first == ActivityFire(activity, FinalTrigger)
       IN  IF first \in TerminalActivityStates THEN first ELSE ActivityFire(first, "closed")

CloseFinalizes ==
  /\ closePc = "requested"
  /\ future' = IF future = "waiting" THEN "dropped" ELSE future
  /\ activity' = Finalized
  /\ closePc' = "finalized"
  /\ UNCHANGED <<values, seen, calls, writes, reported, flags, toolPc, call, callNo, client, closed, outcome, inRecord, world>>

\* _pick: the first candidate the schema allows, else the schema's first label,
\* whatever it says.
Prefer(label, otherwise) == IF label \in Allowed THEN label ELSE otherwise
Pick(first, second) == Prefer(first, Prefer(second, Primaries[1]))

\* primary_for: technical failure, hand-off, exit, failure, success, then the state.
PrimaryFor ==
  IF activity = "BLOCKED" THEN Prefer("technical_failure", Primaries[1])
  ELSE IF activity = "ESCALATED" \/ "handoff" \in flags THEN Prefer("human_required", Primaries[1])
  ELSE IF ExitMet THEN Prefer(ExitValue, Pick("rejected", "abandoned"))
  ELSE IF FailureMet THEN Pick("rejected", "not_eligible")
  ELSE IF SuccessMet THEN Pick("completed", "accepted")
  ELSE IF activity = "ABANDONED" THEN Prefer("abandoned", Primaries[1])
  ELSE IF turns = 0 THEN Pick("no_answer", "abandoned")
  ELSE IF Recorded(values) # {} THEN Pick("partially_completed", "abandoned")
  ELSE Pick("abandoned", "partially_completed")

RecordBuilt ==
  /\ closePc = "finalized"
  /\ closePc' = "recorded"
  /\ outcome' = PrimaryFor /\ inRecord' = reported
  /\ UNCHANGED <<session, pump, client, closed, world>>

\* As before the close sequence had a task of its own: the teardown cancels it.
Teardown_CancelsClose ==
  /\ closed /\ (toolPc # "stopped" \/ turnPc # "stopped")
  /\ toolPc' = "stopped" /\ turnPc' = "stopped"
  /\ call' = NoCall /\ future' = "none" /\ answers' = 0
  /\ closePc' = IF closePc = "recorded" THEN closePc ELSE "cancelled"
  /\ UNCHANGED <<session, callNo, turns, inbox, closed, outcome, inRecord, world>>

\* run(): once closed and a task ended (the browser may leave at any time), the
\* pumps are cancelled; the backend call a cancelled pump waited for may have had its effect.
Teardown ==
  /\ closed /\ (toolPc # "stopped" \/ turnPc # "stopped")
  /\ toolPc' = "stopped" /\ turnPc' = "stopped"
  /\ call' = NoCall /\ future' = "none" /\ answers' = 0
  /\ effects' \in {effects, IF toolPc = "executing" /\ HasKey(call) THEN [effects EXCEPT ![call] = @ + 1] ELSE effects}
  /\ UNCHANGED <<session, callNo, turns, inbox, closing>>
  /\ UNCHANGED <<asked, granted, confirmedRuns, completions, taken, verified>>

\* What resumes the provider pump in the middle of a call.
CallResumes ==
  \/ ConfirmationAsked \/ ConfirmationGranted \/ ExecuteConfirmed \/ ConfirmationRefused
  \/ ConfirmationExpires \/ BackendCompletes \/ BackendFails \/ ToolCompletes \/ ToolFails
  \/ FieldApplied \/ HandoffSent \/ HandoffAcknowledged

Next ==
  \/ \E c \in Calls : StartCall(c)
  \/ CallResumes
  \/ EvaluateCompletion \/ ProviderFails
  \/ UserTurn \/ UserTurnNeeds
  \/ AnswerInText
  \/ \E answer \in {"yes", "no", "ambiguous"} : ApplyAnswer(answer)
  \/ \E n \in 1..MaxRequests, agree \in BOOLEAN : SendConfirm(n, agree)
  \/ HandleConfirm
  \/ Close \/ CloseFinalizes \/ RecordBuilt \/ Teardown

Spec == Init /\ [][Next]_vars

\* The close task and the teardown run on their own; a call that waits is woken
\* by its timer or by the backend's deadline.
FairSpec ==
  /\ Spec
  /\ WF_vars(CloseFinalizes) /\ WF_vars(RecordBuilt) /\ WF_vars(Teardown)
  /\ WF_vars(CallResumes)

-----------------------------------------------------------------------------
(***************************************************************************)
(* Properties                                                              *)
(***************************************************************************)

\* The budget is checked before a confirmation that may take half a minute and
\* charged after it, and still no session exceeds it (BudgetGuard).
WithinBudget == calls <= MaxCalls /\ writes <= MaxWrites

\* A write that the platform knows to be done is never done again: its key is remembered.
CompletedOnce == \A c \in Keyed : completions[c] <= 1

\* A call that needs confirmation reaches the backend only on an agreement taken for
\* that very call: a button of an earlier prompt, pressed late, never grants it.
GrantBinds == confirmedRuns \subseteq granted

\* A field is TOOL_VERIFIED only after a backend verified that field (QV-FLD-002):
\* no other tool's answer raises a provenance above what its declaration allows.
VerifiedByBackend ==
  \A f \in Fields : values[f].prov = "TOOL_VERIFIED" => \E v \in Values : <<f, v>> \in verified

\* The schema tells a success from every other end: no exit rule maps to "completed",
\* and a label that is missing does not fall back to it.
TellsSuccess ==
  /\ \A i \in DOMAIN ExitRules : ExitRules[i].value # "completed"
  /\ \/ Primaries[1] # "completed"
     \/ {"technical_failure", "human_required", "rejected", "abandoned"} \subseteq Allowed

\* Under a schema that tells success from the other ends, a record that says "completed"
\* stands on an accepted write the user agreed to and on every required field, though
\* tools, turns, failures and the close interleave.  Under any other schema "completed"
\* says nothing: _pick falls back to the first label.
CompletedWasAgreed ==
  TellsSuccess /\ outcome = "completed" =>
    /\ confirmedRuns \cap granted # {}
    /\ \E c \in inRecord : c.tool = "submit_record" /\ effects[c] > 0
    /\ MissingRequired(values) = {}

\* The activity is EXECUTING only for a call the user agreed to (QV-RT-004).
ExecutingWasAgreed ==
  [][activity # "EXECUTING" /\ activity' = "EXECUTING" => callNo \in granted]_vars

\* A call always comes back, at whichever of its suspensions the session closes: no
\* confirmation and no backend holds the provider pump for ever.
CallReturns == (toolPc \notin {"idle", "stopped"}) ~> (toolPc \in {"idle", "stopped"})

\* A session that is closed produces its record, whichever pump closed it and
\* although run() cancels the pumps meanwhile (the close sequence has its own task).
ClosedIsRecorded == closed ~> (closePc = "recorded" /\ toolPc = "stopped" /\ turnPc = "stopped")

=============================================================================
