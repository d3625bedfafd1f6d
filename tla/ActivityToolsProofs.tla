------------------------ MODULE ActivityToolsProofs ------------------------
(***************************************************************************)
(* Proofs about the business task of a session, for every set of fields,   *)
(* values and rules, every budget and every number of calls and turns.     *)
(***************************************************************************)
EXTENDS ActivityTools, TLAPS

\* Firing a trigger, legal or not, gives an activity state.
LEMMA ActivityFireType ==
  ASSUME NEW s \in ActivityStates, NEW t
  PROVE  ActivityFire(s, t) \in ActivityStates
<1>1. \A u \in DOMAIN ActivityTable[s] : ActivityTable[s][u] \in ActivityStates
  BY DEF ActivityStates, ActivityTable, WithCommonExits, CommonExits
<1> QED BY <1>1 DEF ActivityFire, ActivityCan

\* The end of a session leaves an activity state as well.
LEMMA FinalizedType == activity \in ActivityStates => Finalized \in ActivityStates
BY ActivityFireType DEF Finalized

\* A call with a key is one of those the pipeline remembers.
LEMMA KeyedCall ==
  ASSUME NEW c \in Calls \cup {NoCall}, HasKey(c)
  PROVE  c \in Keyed
BY DEF Keyed, HasKey, Impact, NoCall

\* The two field tools name a field and a value.
LEMMA FieldCall ==
  ASSUME NEW c \in Calls, c.tool \in {"record_field", "verify_field"}
  PROVE  c.field \in Fields /\ c.value \in Values
BY DEF Calls, FieldCalls, OtherCalls

\* A provenance tag is one of the two it is chosen from.
LEMMA WeakerType ==
  ASSUME NEW p \in Provenances
  PROVE  Weaker(p, "USER_STATED") \in Provenances
BY DEF Weaker, Provenances

\* What the field store holds after a record() is one value with its provenance.
LEMMA RecordType ==
  ASSUME values \in [Fields -> [value : Valid \cup {NoValue}, prov : Provenances]],
         NEW f \in Fields, NEW v \in Valid, NEW p \in Provenances
  PROVE  Record(values, f, v, p) \in [Fields -> [value : Valid \cup {NoValue}, prov : Provenances]]
BY DEF Record

-----------------------------------------------------------------------------
\* A session starts engaged, with nothing recorded.
LEMMA InitTypes == Init => TypeOK
<1> SUFFICES ASSUME Init PROVE TypeOK
  OBVIOUS
<1> USE ConstantsOK DEF Init
<1>1. values \in [Fields -> [value : Valid \cup {NoValue}, prov : Provenances]]
  BY DEF Unset, Provenances
<1>2. effects \in [Keyed -> Nat] /\ completions \in [Keyed -> Nat]
  OBVIOUS
<1>4. callNo \in CallNos /\ answers \in CallNos /\ taken \in CallNos /\ turns \in 0..MaxTurns
  BY DEF CallNos
<1>5. activity \in ActivityStates /\ toolPc \in ToolPcs /\ outcome \in Allowed \cup {NoOutcome}
  BY DEF ActivityStates, ToolPcs
<1> QED BY <1>1, <1>2, <1>4, <1>5 DEF TypeOK

\* Step 8 calls a backend, or fails for want of one.
LEMMA ExecuteType ==
  ASSUME TypeOK, NEW c \in Calls, NEW n \in CallNos, Execute(c, n)
  PROVE  /\ toolPc' \in {"failing", "executing"} /\ call' = c /\ future' = "none"
         /\ calls' \in Nat /\ writes' \in Nat /\ confirmedRuns' \subseteq CallNos
<1> USE DEF TypeOK
<1>1. CASE c.tool \notin Bound
  BY <1>1 DEF Execute
<1>2. CASE c.tool \in Bound
  <2>1. calls' \in Nat /\ toolPc' = "executing" /\ call' = c /\ future' = "none"
    BY <1>2 DEF Execute
  <2>2. writes' \in {writes, writes + 1}
    BY <1>2 DEF Execute
  <2>3. confirmedRuns' \subseteq confirmedRuns \cup {n}
    BY <1>2 DEF Execute
  <2> QED BY <2>1, <2>2, <2>3
<1> QED BY <1>1, <1>2

\* Whatever a session comes to, its label is one the schema allows.
LEMMA PickedIsAllowed == PrimaryFor \in Allowed
<1>1. Primaries[1] \in Allowed
  BY ConstantsOK DEF Allowed
<1>2. \A label, otherwise : otherwise \in Allowed => Prefer(label, otherwise) \in Allowed
  BY DEF Prefer
<1>3. \A first, second : Pick(first, second) \in Allowed
  BY <1>1, <1>2 DEF Pick
<1> QED BY <1>1, <1>2, <1>3 DEF PrimaryFor

\* Every step keeps the types, one case per action.
LEMMA NextTypes == TypeOK /\ [Next]_vars => TypeOK'
<1> SUFFICES ASSUME TypeOK, [Next]_vars PROVE TypeOK'
  OBVIOUS
<1> USE ConstantsOK, ActivityFireType, KeyedCall
    DEF TypeOK, ToolPcs, CallNos, session, pump, client, closing, world
<1>1. CASE \E c \in Calls : StartCall(c)
  <2> SUFFICES ASSUME NEW c \in Calls, StartCall(c) PROVE TypeOK'
    BY <1>1
  <2> USE DEF StartCall, CallEnds, Rest
  <2>1. callNo' \in CallNos
    OBVIOUS
  <2>2. CASE c.tool \notin Permitted \/ ~Allow(c)
    BY <2>1, <2>2
  <2>3. CASE CallEnds /\ UNCHANGED <<calls, writes, confirmedRuns>>
    BY <2>1, <2>3
  <2>4. CASE toolPc' = "asking" /\ call' = c /\ future' = "none"
              /\ UNCHANGED <<calls, writes, confirmedRuns>>
    BY <2>1, <2>4
  <2>5. CASE Execute(c, callNo')
    <3>1. /\ toolPc' \in {"failing", "executing"} /\ call' = c /\ future' = "none"
          /\ calls' \in Nat /\ writes' \in Nat /\ confirmedRuns' \subseteq CallNos
      BY <2>1, <2>5, ExecuteType
    <3> QED BY <2>1, <2>5, <3>1
  <2> QED BY <2>2, <2>3, <2>4, <2>5
<1>2. CASE ConfirmationAsked
  BY <1>2 DEF ConfirmationAsked, Fires
<1>3. CASE ConfirmationGranted
  BY <1>3 DEF ConfirmationGranted, Fires
<1>4. CASE ExecuteConfirmed
  <2>1. call \in Calls /\ Execute(call, callNo)
    BY <1>4 DEF ExecuteConfirmed
  <2>2. /\ toolPc' \in {"failing", "executing"} /\ call' = call /\ future' = "none"
        /\ calls' \in Nat /\ writes' \in Nat /\ confirmedRuns' \subseteq CallNos
    BY <2>1, ExecuteType
  <2> QED BY <1>4, <2>1, <2>2 DEF ExecuteConfirmed
<1>5. CASE ConfirmationRefused
  BY <1>5 DEF ConfirmationRefused, FiresIf, CallEnds, Rest
<1>6. CASE ConfirmationExpires
  BY <1>6 DEF ConfirmationExpires, CallEnds, Rest
<1>7. CASE BackendCompletes
  BY <1>7 DEF BackendCompletes
<1>8. CASE BackendFails
  BY <1>8 DEF BackendFails
<1>9. CASE ToolCompletes
  <2> USE <1>9 DEF ToolCompletes
  <2>1. seen' \subseteq Keyed /\ reported' \subseteq Keyed /\ completions' \in [Keyed -> Nat]
    OBVIOUS
  <2>2. CASE call.tool \in {"record_field", "request_handoff"}
    BY <2>1, <2>2
  <2>3. CASE call.tool \notin {"record_field", "request_handoff"}
    <3>1. flags' \subseteq {"accepted", "callback_scheduled", "handoff"}
      BY <2>3
    <3>2. activity' \in ActivityStates
      BY <2>3 DEF Fires, FiresIf
    <3>3. verified' \subseteq Fields \X Values
      <4>1. CASE call.tool = "verify_field"
        <5>1. call.field \in Fields /\ call.value \in Values
          BY <4>1, FieldCall
        <5>2. verified' \in {verified, verified \cup {<<call.field, call.value>>}}
          BY <2>3, <4>1 DEF VerifyField
        <5> QED BY <5>1, <5>2
      <4>2. CASE call.tool # "verify_field"
        BY <2>3, <4>2
      <4> QED BY <4>1, <4>2
    <3>4. values' \in [Fields -> [value : Valid \cup {NoValue}, prov : Provenances]]
      <4>1. CASE values' = values
        BY <4>1
      <4>2. CASE values' # values
        <5>1. call.tool = "verify_field" /\ call.field \in Fields
          BY <2>3, <4>2, FieldCall
        <5>2. /\ values[call.field].value \in Valid
              /\ values' = Record(values, call.field, values[call.field].value, "TOOL_VERIFIED")
          BY <2>3, <4>2, <5>1 DEF VerifyField
        <5> QED BY <5>1, <5>2, RecordType DEF Provenances
      <4> QED BY <4>1, <4>2
    <3>5. call' = NoCall /\ toolPc' \in {"idle", "stopped"} /\ future' = "none"
      BY <2>3 DEF CallEnds, Rest
    <3> QED BY <2>1, <3>1, <3>2, <3>3, <3>4, <3>5
  <2> QED BY <2>2, <2>3
<1>10. CASE FieldApplied
  <2> USE <1>10 DEF FieldApplied
  <2>1. call.field \in Fields /\ call.value \in Values
    BY FieldCall
  <2>2. PICK claimed \in {"USER_STATED", "TOOL_VERIFIED"} :
          RecordField(call, Weaker(claimed, "USER_STATED"))
    OBVIOUS
  <2>3. Weaker(claimed, "USER_STATED") \in Provenances
    BY WeakerType DEF Provenances
  <2>4. values' \in [Fields -> [value : Valid \cup {NoValue}, prov : Provenances]]
    BY <2>1, <2>2, <2>3, RecordType DEF RecordField
  <2>5. activity' \in ActivityStates
    BY <2>2 DEF RecordField, Fires, FiresIf
  <2> QED BY <2>4, <2>5 DEF CallEnds, Rest
<1>11. CASE HandoffSent
  BY <1>11 DEF HandoffSent
<1>12. CASE HandoffAcknowledged
  BY <1>12 DEF HandoffAcknowledged, CallEnds, Rest, FiresIf
<1>13. CASE ToolFails
  BY <1>13 DEF ToolFails, CallEnds, Rest, ExecutionFails, FiresIf
<1>14. CASE EvaluateCompletion
  BY <1>14 DEF EvaluateCompletion, Fires
<1>15. CASE ProviderFails
  BY <1>15 DEF ProviderFails, Fires, Rest
<1>16. CASE UserTurn
  BY <1>16 DEF UserTurn, Fires
<1>17. CASE UserTurnNeeds
  BY <1>17 DEF UserTurnNeeds, FiresIf, Rest
<1>18. CASE AnswerInText
  BY <1>18 DEF AnswerInText
<1>19. CASE \E answer \in {"yes", "no", "ambiguous"} : ApplyAnswer(answer)
  <2> SUFFICES ASSUME NEW answer \in {"yes", "no", "ambiguous"}, ApplyAnswer(answer) PROVE TypeOK'
    BY <1>19
  <2> USE DEF ApplyAnswer
  <2>1. answers' \in CallNos
    OBVIOUS
  <2>2. granted' \subseteq CallNos
    <3>1. granted' \in {granted, granted \cup {callNo}}
      OBVIOUS
    <3> QED BY <3>1
  <2>3. future' \in {"none", "waiting", "granted", "denied", "dropped"}
    OBVIOUS
  <2>4. activity' \in ActivityStates
    BY DEF FiresIf
  <2>5. turnPc' \in {"idle", "engaged", "answering", "stopped"}
    BY DEF Rest
  <2> QED BY <2>1, <2>2, <2>3, <2>4, <2>5
<1>20. CASE \E n \in 1..MaxRequests, agree \in BOOLEAN : SendConfirm(n, agree)
  BY <1>20 DEF SendConfirm
<1>21. CASE HandleConfirm
  <2>1. PICK m \in inbox :
          /\ Resolve(m[1], m[2])
          /\ inbox' = inbox \ {m}
          /\ granted' = IF future' = "granted" /\ future # "granted" THEN granted \cup {m[1]} ELSE granted
    BY <1>21 DEF HandleConfirm
  <2>2. m[1] \in CallNos
    OBVIOUS
  <2>3. granted' \subseteq CallNos /\ inbox' \subseteq CallNos \X BOOLEAN
    BY <2>1, <2>2
  <2>4. future' \in {"none", "waiting", "granted", "denied", "dropped"}
    BY <2>1 DEF Resolve
  <2>5. turnPc' \in {"idle", "engaged", "answering", "stopped"}
    BY <1>21 DEF HandleConfirm, Rest
  <2> QED BY <1>21, <2>3, <2>4, <2>5 DEF HandleConfirm
<1>22. CASE Close
  BY <1>22 DEF Close
<1>23. CASE CloseFinalizes
  BY <1>23 DEF CloseFinalizes, Finalized
<1>24. CASE RecordBuilt
  <2>1. PrimaryFor \in Allowed
    BY PickedIsAllowed
  <2> QED BY <1>24, <2>1 DEF RecordBuilt
<1>25. CASE Teardown
  <2>1. effects' \in {effects, IF toolPc = "executing" /\ HasKey(call) THEN [effects EXCEPT ![call] = @ + 1] ELSE effects}
    BY <1>25 DEF Teardown
  <2>2. [effects EXCEPT ![call] = @ + 1] \in [Keyed -> Nat]
    <3>1. \A k \in Keyed : effects[k] \in Nat /\ effects[k] + 1 \in Nat
      OBVIOUS
    <3> QED BY <3>1
  <2>3. effects' \in [Keyed -> Nat]
    BY <2>1, <2>2
  <2> QED BY <1>25, <2>3 DEF Teardown
<1>26. CASE UNCHANGED vars
  BY <1>26 DEF vars
<1> QED BY <1>1, <1>2, <1>3, <1>4, <1>5, <1>6, <1>7, <1>8, <1>9, <1>10, <1>11, <1>12, <1>13,
     <1>14, <1>15, <1>16, <1>17, <1>18, <1>19, <1>20, <1>21, <1>22, <1>23, <1>24, <1>25,
     <1>26
  DEF Next, CallResumes

\* Every variable has its type in every state a session reaches, and a call in
\* progress is one the model can make.
THEOREM TypeCorrect == Spec => []TypeOK
<1>1. TypeOK /\ [Next]_vars => TypeOK'
  BY NextTypes
<1> QED BY <1>1, InitTypes, PTL DEF Spec

-----------------------------------------------------------------------------
(***************************************************************************)
(* The budget.  It is checked in step 5 and charged in step 8; nothing but *)
(* the call in between may charge it.                                      *)
(***************************************************************************)
Budget ==
  /\ WithinBudget
  /\ toolPc \in {"asking", "confirming", "confirmed"} => Allow(call)

\* Nothing is charged at the start.
LEMMA InitBudget == Init => Budget
BY ConstantsOK DEF Init, Budget, WithinBudget

\* Charging a call that was allowed stays within the budget.
LEMMA ExecuteBudget ==
  ASSUME TypeOK, WithinBudget, NEW c, NEW n, Allow(c), Execute(c, n)
  PROVE  WithinBudget' /\ toolPc' \in {"failing", "executing"}
<1>1. CASE c.tool \notin Bound
  BY <1>1 DEF Execute, WithinBudget
<1>2. CASE c.tool \in Bound
  <2>1. calls' = calls + 1 /\ writes' = IF Impact(c) = "write" THEN writes + 1 ELSE writes
    BY <1>2 DEF Execute
  <2>2. toolPc' = "executing"
    BY <1>2 DEF Execute
  <2> QED BY <2>1, <2>2, ConstantsOK DEF TypeOK, WithinBudget, Allow
<1> QED BY <1>1, <1>2

\* A step that charges nothing keeps it, unless it brings in a call not checked.
LEMMA OthersKeepBudget ==
  ASSUME Budget, UNCHANGED <<calls, writes>>,
         toolPc' \in {"asking", "confirming", "confirmed"} =>
           \/ toolPc \in {"asking", "confirming", "confirmed"} /\ call' = call
           \/ Allow(call')
  PROVE  Budget'
BY DEF Budget, WithinBudget, Allow

\* Every step keeps it, one case per action.
LEMMA NextBudget == TypeOK /\ Budget /\ [Next]_vars => Budget'
<1> SUFFICES ASSUME TypeOK, Budget, [Next]_vars PROVE Budget'
  OBVIOUS
<1> USE DEF session, pump, client, closing, world
<1>1. CASE \E c \in Calls : StartCall(c)
  <2> SUFFICES ASSUME NEW c \in Calls, StartCall(c) PROVE Budget'
    BY <1>1
  <2>1. CASE Execute(c, callNo') /\ Allow(c)
    BY <2>1, ExecuteBudget DEF Budget
  <2>2. CASE UNCHANGED <<calls, writes>> /\ (toolPc' \in {"idle", "stopped"} \/ (Allow(c) /\ call' = c))
    BY <2>2, OthersKeepBudget
  <2>3. CASE c \notin Calls \/ c.tool \notin Permitted \/ ~Allow(c)
    <3>1. UNCHANGED <<calls, writes>> /\ toolPc' \in {"idle", "stopped"}
      BY <2>3 DEF StartCall, CallEnds, Rest
    <3> QED BY <3>1, OthersKeepBudget
  <2>4. CASE c.tool \in Permitted /\ Allow(c)
    <3>1. CASE Duplicate(c)
      <4>1. UNCHANGED <<calls, writes>> /\ toolPc' \in {"idle", "stopped"}
        BY <2>4, <3>1 DEF StartCall, CallEnds, Rest
      <4> QED BY <4>1, OthersKeepBudget
    <3>2. CASE ~Duplicate(c)
      BY <2>1, <2>2, <2>4, <3>2 DEF StartCall
    <3> QED BY <3>1, <3>2
  <2> QED BY <2>3, <2>4
<1>2. CASE ConfirmationAsked
  BY <1>2, OthersKeepBudget DEF ConfirmationAsked
<1>3. CASE ConfirmationGranted
  BY <1>3, OthersKeepBudget DEF ConfirmationGranted
<1>4. CASE ExecuteConfirmed
  BY <1>4, ExecuteBudget DEF ExecuteConfirmed, Budget
<1>5. CASE ConfirmationRefused
  BY <1>5, OthersKeepBudget DEF ConfirmationRefused, CallEnds, Rest
<1>6. CASE ConfirmationExpires
  BY <1>6, OthersKeepBudget DEF ConfirmationExpires, CallEnds, Rest
<1>7. CASE BackendCompletes
  BY <1>7, OthersKeepBudget DEF BackendCompletes
<1>8. CASE BackendFails
  BY <1>8, OthersKeepBudget DEF BackendFails
<1>9. CASE ToolCompletes
  BY <1>9, OthersKeepBudget DEF ToolCompletes, CallEnds, Rest
<1>10. CASE FieldApplied
  BY <1>10, OthersKeepBudget DEF FieldApplied, CallEnds, Rest
<1>11. CASE HandoffSent
  BY <1>11, OthersKeepBudget DEF HandoffSent
<1>12. CASE HandoffAcknowledged
  BY <1>12, OthersKeepBudget DEF HandoffAcknowledged, CallEnds, Rest
<1>13. CASE ToolFails
  BY <1>13, OthersKeepBudget DEF ToolFails, CallEnds, Rest
<1>14. CASE EvaluateCompletion
  BY <1>14, OthersKeepBudget DEF EvaluateCompletion
<1>15. CASE ProviderFails
  BY <1>15, OthersKeepBudget DEF ProviderFails, Rest
<1>16. CASE UserTurn
  BY <1>16, OthersKeepBudget DEF UserTurn
<1>17. CASE UserTurnNeeds
  BY <1>17, OthersKeepBudget DEF UserTurnNeeds
<1>18. CASE AnswerInText
  BY <1>18, OthersKeepBudget DEF AnswerInText
<1>19. CASE \E answer \in {"yes", "no", "ambiguous"} : ApplyAnswer(answer)
  BY <1>19, OthersKeepBudget DEF ApplyAnswer
<1>20. CASE \E n \in 1..MaxRequests, agree \in BOOLEAN : SendConfirm(n, agree)
  BY <1>20, OthersKeepBudget DEF SendConfirm
<1>21. CASE HandleConfirm
  BY <1>21, OthersKeepBudget DEF HandleConfirm
<1>22. CASE Close
  BY <1>22, OthersKeepBudget DEF Close
<1>23. CASE CloseFinalizes
  BY <1>23, OthersKeepBudget DEF CloseFinalizes
<1>24. CASE RecordBuilt
  BY <1>24, OthersKeepBudget DEF RecordBuilt
<1>25. CASE Teardown
  BY <1>25, OthersKeepBudget DEF Teardown
<1>26. CASE UNCHANGED vars
  BY <1>26, OthersKeepBudget DEF vars
<1> QED BY <1>1, <1>2, <1>3, <1>4, <1>5, <1>6, <1>7, <1>8, <1>9, <1>10, <1>11, <1>12, <1>13,
     <1>14, <1>15, <1>16, <1>17, <1>18, <1>19, <1>20, <1>21, <1>22, <1>23, <1>24, <1>25,
     <1>26
  DEF Next, CallResumes

\* However long a confirmation takes and whatever happens meanwhile, the calls
\* charged never exceed max_calls, nor the write calls max_write_calls.
THEOREM BudgetHolds == Spec => []WithinBudget
<1>1. TypeOK /\ Budget /\ [Next]_vars => Budget'
  BY NextBudget
<1>2. Budget => WithinBudget
  BY DEF Budget
<1> QED BY <1>1, <1>2, InitBudget, TypeCorrect, PTL DEF Spec

-----------------------------------------------------------------------------
(***************************************************************************)
(* No write is completed twice under one key.                              *)
(***************************************************************************)
\* A completed call is remembered, and a call in progress is not a remembered one.
Once ==
  /\ \A c \in Keyed : completions[c] = 0 \/ (completions[c] = 1 /\ c \in seen)
  /\ toolPc \in {"asking", "confirming", "confirmed", "executing", "completing"} => ~Duplicate(call)

\* Nothing is completed at the start.
LEMMA InitOnce == Init => Once
BY DEF Init, Once

\* Calling the backend changes neither.
LEMMA ExecuteCall ==
  ASSUME NEW c, NEW n, Execute(c, n)
  PROVE  toolPc' \in {"failing", "executing"} /\ call' = c
BY DEF Execute

\* A step that completes nothing keeps it, unless it brings in a remembered call.
LEMMA OthersKeepOnce ==
  ASSUME Once, UNCHANGED <<completions, seen>>,
         toolPc' \in {"asking", "confirming", "confirmed", "executing", "completing"} =>
           \/ /\ toolPc \in {"asking", "confirming", "confirmed", "executing", "completing"}
              /\ call' = call
           \/ ~Duplicate(call')
  PROVE  Once'
BY DEF Once, Duplicate

\* Every step keeps it, one case per action.
LEMMA NextOnce == TypeOK /\ Once /\ [Next]_vars => Once'
<1> SUFFICES ASSUME TypeOK, Once, [Next]_vars PROVE Once'
  OBVIOUS
<1> USE DEF session, pump, client, closing, world
<1>1. CASE \E c \in Calls : StartCall(c)
  <2> SUFFICES ASSUME NEW c \in Calls, StartCall(c) PROVE Once'
    BY <1>1
  <2>1. UNCHANGED <<completions, seen>>
    BY DEF StartCall
  <2>2. toolPc' \in {"idle", "stopped"} \/ (~Duplicate(c) /\ call' = c)
    BY ExecuteCall DEF StartCall, CallEnds, Rest
  <2> QED BY <2>1, <2>2, OthersKeepOnce
<1>2. CASE ConfirmationAsked
  BY <1>2, OthersKeepOnce DEF ConfirmationAsked
<1>3. CASE ConfirmationGranted
  BY <1>3, OthersKeepOnce DEF ConfirmationGranted
<1>4. CASE ExecuteConfirmed
  BY <1>4, ExecuteCall, OthersKeepOnce DEF ExecuteConfirmed
<1>5. CASE ConfirmationRefused
  BY <1>5, OthersKeepOnce DEF ConfirmationRefused, CallEnds, Rest
<1>6. CASE ConfirmationExpires
  BY <1>6, OthersKeepOnce DEF ConfirmationExpires, CallEnds, Rest
<1>7. CASE BackendCompletes
  BY <1>7, OthersKeepOnce DEF BackendCompletes
<1>8. CASE BackendFails
  BY <1>8, OthersKeepOnce DEF BackendFails
<1>9. CASE ToolCompletes
  <2>1. toolPc' \in {"idle", "stopped", "applying"}
    BY <1>9 DEF ToolCompletes, CallEnds, Rest
  <2>2. CASE HasKey(call)
    <3>1. call \in Keyed /\ call \notin seen
      BY <1>9, <2>2, KeyedCall DEF ToolCompletes, TypeOK, Once, Duplicate
    <3>2. seen' = seen \cup {call} /\ completions' = [completions EXCEPT ![call] = @ + 1]
      BY <1>9, <2>2 DEF ToolCompletes
    <3> QED BY <2>1, <3>1, <3>2 DEF Once, TypeOK
  <2>3. CASE ~HasKey(call)
    BY <1>9, <2>1, <2>3 DEF ToolCompletes, Once
  <2> QED BY <2>2, <2>3
<1>10. CASE FieldApplied
  BY <1>10, OthersKeepOnce DEF FieldApplied, CallEnds, Rest
<1>11. CASE HandoffSent
  BY <1>11, OthersKeepOnce DEF HandoffSent
<1>12. CASE HandoffAcknowledged
  BY <1>12, OthersKeepOnce DEF HandoffAcknowledged, CallEnds, Rest
<1>13. CASE ToolFails
  BY <1>13, OthersKeepOnce DEF ToolFails, CallEnds, Rest
<1>14. CASE EvaluateCompletion
  BY <1>14, OthersKeepOnce DEF EvaluateCompletion
<1>15. CASE ProviderFails
  BY <1>15, OthersKeepOnce DEF ProviderFails, Rest
<1>16. CASE UserTurn
  BY <1>16, OthersKeepOnce DEF UserTurn
<1>17. CASE UserTurnNeeds
  BY <1>17, OthersKeepOnce DEF UserTurnNeeds
<1>18. CASE AnswerInText
  BY <1>18, OthersKeepOnce DEF AnswerInText
<1>19. CASE \E answer \in {"yes", "no", "ambiguous"} : ApplyAnswer(answer)
  BY <1>19, OthersKeepOnce DEF ApplyAnswer
<1>20. CASE \E n \in 1..MaxRequests, agree \in BOOLEAN : SendConfirm(n, agree)
  BY <1>20, OthersKeepOnce DEF SendConfirm
<1>21. CASE HandleConfirm
  BY <1>21, OthersKeepOnce DEF HandleConfirm
<1>22. CASE Close
  BY <1>22, OthersKeepOnce DEF Close
<1>23. CASE CloseFinalizes
  BY <1>23, OthersKeepOnce DEF CloseFinalizes
<1>24. CASE RecordBuilt
  BY <1>24, OthersKeepOnce DEF RecordBuilt
<1>25. CASE Teardown
  BY <1>25, OthersKeepOnce DEF Teardown
<1>26. CASE UNCHANGED vars
  BY <1>26, OthersKeepOnce DEF vars
<1> QED BY <1>1, <1>2, <1>3, <1>4, <1>5, <1>6, <1>7, <1>8, <1>9, <1>10, <1>11, <1>12, <1>13,
     <1>14, <1>15, <1>16, <1>17, <1>18, <1>19, <1>20, <1>21, <1>22, <1>23, <1>24, <1>25,
     <1>26
  DEF Next, CallResumes

\* A keyed call that came back COMPLETED is answered from memory ever after, so
\* it completes at most once.
THEOREM CompletesOnce == Spec => []CompletedOnce
<1>1. TypeOK /\ Once /\ [Next]_vars => Once'
  BY NextOnce
<1>2. TypeOK /\ Once => CompletedOnce
  BY DEF TypeOK, Once, CompletedOnce
<1> QED BY <1>1, <1>2, InitOnce, TypeCorrect, PTL DEF Spec

-----------------------------------------------------------------------------
(***************************************************************************)
(* Confirmation.                                                           *)
(***************************************************************************)
\* A confirmation that was granted was granted for the call that waits.
Grant ==
  /\ confirmedRuns \subseteq granted
  /\ toolPc = "confirmed" => future = "granted"
  /\ toolPc \in {"confirming", "confirmed"} /\ future = "granted" => callNo \in granted

\* No call waits at the start.
LEMMA InitGrant == Init => Grant
BY DEF Init, Grant

\* A call that needs no confirmation leaves the confirmed ones alone.
LEMMA ExecuteGrant ==
  ASSUME NEW c, NEW n, Execute(c, n)
  PROVE  /\ toolPc' \in {"failing", "executing"}
         /\ confirmedRuns' # confirmedRuns =>
              confirmedRuns' = confirmedRuns \cup {n} /\ NeedsConfirmation(c)
<1>1. CASE c.tool \notin Bound
  BY <1>1 DEF Execute
<1>2. CASE c.tool \in Bound
  BY <1>2 DEF Execute
<1> QED BY <1>1, <1>2

\* A step keeps it that runs no confirmed call and grants nothing.
LEMMA OthersKeepGrant ==
  ASSUME Grant, UNCHANGED confirmedRuns, granted \subseteq granted',
         toolPc' = "confirmed" => toolPc = "confirmed" /\ future' = future,
         toolPc' \in {"confirming", "confirmed"} /\ future' = "granted" =>
           toolPc = toolPc' /\ future = "granted" /\ callNo' = callNo
  PROVE  Grant'
BY DEF Grant

\* Every step keeps it, one case per action.
LEMMA NextGrant == TypeOK /\ Grant /\ [Next]_vars => Grant'
<1> SUFFICES ASSUME TypeOK, Grant, [Next]_vars PROVE Grant'
  OBVIOUS
<1> USE DEF session, pump, client, closing, world
<1>1. CASE \E c \in Calls : StartCall(c)
  <2> SUFFICES ASSUME NEW c \in Calls, StartCall(c) PROVE Grant'
    BY <1>1
  <2>1. toolPc' \notin {"confirming", "confirmed"} /\ UNCHANGED granted
    BY ExecuteGrant DEF StartCall, CallEnds, Rest
  <2>2. UNCHANGED confirmedRuns
    BY ExecuteGrant DEF StartCall
  <2> QED BY <2>1, <2>2, OthersKeepGrant
<1>2. CASE ConfirmationAsked
  BY <1>2, OthersKeepGrant DEF ConfirmationAsked
<1>3. CASE ConfirmationGranted
  BY <1>3 DEF ConfirmationGranted, Grant
<1>4. CASE ExecuteConfirmed
  BY <1>4, ExecuteGrant DEF ExecuteConfirmed, Grant
<1>5. CASE ConfirmationRefused
  BY <1>5, OthersKeepGrant DEF ConfirmationRefused, CallEnds, Rest
<1>6. CASE ConfirmationExpires
  BY <1>6, OthersKeepGrant DEF ConfirmationExpires, CallEnds, Rest
<1>7. CASE BackendCompletes
  BY <1>7, OthersKeepGrant DEF BackendCompletes
<1>8. CASE BackendFails
  BY <1>8, OthersKeepGrant DEF BackendFails
<1>9. CASE ToolCompletes
  BY <1>9, OthersKeepGrant DEF ToolCompletes, CallEnds, Rest
<1>10. CASE FieldApplied
  BY <1>10, OthersKeepGrant DEF FieldApplied, CallEnds, Rest
<1>11. CASE HandoffSent
  BY <1>11, OthersKeepGrant DEF HandoffSent
<1>12. CASE HandoffAcknowledged
  BY <1>12, OthersKeepGrant DEF HandoffAcknowledged, CallEnds, Rest
<1>13. CASE ToolFails
  BY <1>13, OthersKeepGrant DEF ToolFails, CallEnds, Rest
<1>14. CASE EvaluateCompletion
  BY <1>14, OthersKeepGrant DEF EvaluateCompletion
<1>15. CASE ProviderFails
  BY <1>15, OthersKeepGrant DEF ProviderFails, Rest
<1>16. CASE UserTurn
  BY <1>16, OthersKeepGrant DEF UserTurn
<1>17. CASE UserTurnNeeds
  BY <1>17, OthersKeepGrant DEF UserTurnNeeds
<1>18. CASE AnswerInText
  BY <1>18, OthersKeepGrant DEF AnswerInText
<1>19. CASE \E answer \in {"yes", "no", "ambiguous"} : ApplyAnswer(answer)
  <2> SUFFICES ASSUME NEW answer \in {"yes", "no", "ambiguous"}, ApplyAnswer(answer) PROVE Grant'
    BY <1>19
  <2>1. UNCHANGED <<confirmedRuns, toolPc, callNo>> /\ granted \subseteq granted'
    BY DEF ApplyAnswer
  <2>2. CASE future' = future
    BY <2>1, <2>2, OthersKeepGrant
  <2>3. CASE future' # future
    <3>1. toolPc = "confirming" /\ (future' = "granted" => callNo \in granted')
      BY <2>3 DEF ApplyAnswer
    <3> QED BY <2>1, <3>1 DEF Grant
  <2> QED BY <2>2, <2>3
<1>20. CASE \E n \in 1..MaxRequests, agree \in BOOLEAN : SendConfirm(n, agree)
  BY <1>20, OthersKeepGrant DEF SendConfirm
<1>21. CASE HandleConfirm
  <2>1. PICK m \in inbox :
          /\ Resolve(m[1], m[2])
          /\ granted' = IF future' = "granted" /\ future # "granted" THEN granted \cup {m[1]} ELSE granted
    BY <1>21 DEF HandleConfirm
  <2>2. UNCHANGED <<confirmedRuns, toolPc, callNo>> /\ granted \subseteq granted'
    BY <1>21, <2>1 DEF HandleConfirm
  <2>3. CASE future' = future
    BY <2>2, <2>3, OthersKeepGrant
  <2>4. CASE future' # future
    <3>1. toolPc = "confirming" /\ (future' = "granted" => callNo \in granted')
      BY <2>1, <2>4 DEF Resolve
    <3> QED BY <2>2, <3>1 DEF Grant
  <2> QED BY <2>3, <2>4
<1>22. CASE Close
  BY <1>22, OthersKeepGrant DEF Close
<1>23. CASE CloseFinalizes
  BY <1>23 DEF CloseFinalizes, Grant
<1>24. CASE RecordBuilt
  BY <1>24, OthersKeepGrant DEF RecordBuilt
<1>25. CASE Teardown
  BY <1>25, OthersKeepGrant DEF Teardown
<1>26. CASE UNCHANGED vars
  BY <1>26, OthersKeepGrant DEF vars
<1> QED BY <1>1, <1>2, <1>3, <1>4, <1>5, <1>6, <1>7, <1>8, <1>9, <1>10, <1>11, <1>12, <1>13,
     <1>14, <1>15, <1>16, <1>17, <1>18, <1>19, <1>20, <1>21, <1>22, <1>23, <1>24, <1>25,
     <1>26
  DEF Next, CallResumes

\* A call that needs confirmation reaches its backend only on an agreement taken
\* for that very call.
THEOREM GrantHolds == Spec => []GrantBinds
<1>1. TypeOK /\ Grant /\ [Next]_vars => Grant'
  BY NextGrant
<1>2. Grant => GrantBinds
  BY DEF Grant, GrantBinds
<1> QED BY <1>1, <1>2, InitGrant, TypeCorrect, PTL DEF Spec

\* Only a confirmation leads into EXECUTING.
LEMMA OnlyConfirmedExecutes ==
  ASSUME NEW s \in ActivityStates, NEW t, ActivityFire(s, t) = "EXECUTING"
  PROVE  s = "EXECUTING" \/ t = "confirmed"
<1>1. \A u \in DOMAIN ActivityTable[s] : ActivityTable[s][u] = "EXECUTING" => u = "confirmed"
  BY DEF ActivityStates, ActivityTable, WithCommonExits, CommonExits
<1> QED BY <1>1 DEF ActivityFire, ActivityCan

\* Every step that enters EXECUTING does so for a call the user agreed to.
LEMMA ExecutingStep ==
  ASSUME TypeOK, Grant, [Next]_vars, activity # "EXECUTING", activity' = "EXECUTING"
  PROVE  callNo \in granted
<1> USE DEF session, pump, client, closing, world, TypeOK
<1>1. CASE \E c \in Calls : StartCall(c)
  BY <1>1 DEF StartCall
<1>2. CASE ConfirmationAsked
  BY <1>2, OnlyConfirmedExecutes DEF ConfirmationAsked, Fires, FiresIf
<1>3. CASE ConfirmationGranted
  BY <1>3 DEF ConfirmationGranted, Grant
<1>4. CASE ExecuteConfirmed
  BY <1>4 DEF ExecuteConfirmed
<1>5. CASE ConfirmationRefused
  BY <1>5, OnlyConfirmedExecutes DEF ConfirmationRefused, Fires, FiresIf
<1>6. CASE ConfirmationExpires
  BY <1>6 DEF ConfirmationExpires
<1>7. CASE BackendCompletes
  BY <1>7 DEF BackendCompletes
<1>8. CASE BackendFails
  BY <1>8 DEF BackendFails
<1>9. CASE ToolCompletes
  BY <1>9, OnlyConfirmedExecutes DEF ToolCompletes, Fires, FiresIf
<1>10. CASE FieldApplied
  BY <1>10, OnlyConfirmedExecutes DEF FieldApplied, Fires, FiresIf, RecordField
<1>11. CASE HandoffSent
  BY <1>11 DEF HandoffSent
<1>12. CASE HandoffAcknowledged
  BY <1>12, OnlyConfirmedExecutes DEF HandoffAcknowledged, Fires, FiresIf
<1>13. CASE ToolFails
  BY <1>13, OnlyConfirmedExecutes DEF ToolFails, Fires, FiresIf, ExecutionFails
<1>14. CASE EvaluateCompletion
  BY <1>14, OnlyConfirmedExecutes DEF EvaluateCompletion, Fires, FiresIf
<1>15. CASE ProviderFails
  BY <1>15, OnlyConfirmedExecutes DEF ProviderFails, Fires, FiresIf
<1>16. CASE UserTurn
  BY <1>16, OnlyConfirmedExecutes DEF UserTurn, Fires, FiresIf
<1>17. CASE UserTurnNeeds
  BY <1>17, OnlyConfirmedExecutes DEF UserTurnNeeds, Fires, FiresIf
<1>18. CASE AnswerInText
  BY <1>18 DEF AnswerInText
<1>19. CASE \E answer \in {"yes", "no", "ambiguous"} : ApplyAnswer(answer)
  BY <1>19, OnlyConfirmedExecutes DEF ApplyAnswer, Fires, FiresIf
<1>20. CASE \E n \in 1..MaxRequests, agree \in BOOLEAN : SendConfirm(n, agree)
  BY <1>20 DEF SendConfirm
<1>21. CASE HandleConfirm
  BY <1>21 DEF HandleConfirm
<1>22. CASE Close
  BY <1>22 DEF Close
<1>23. CASE CloseFinalizes
  <2>1. FinalTrigger # "confirmed"
    BY DEF FinalTrigger
  <2>2. ActivityFire(activity, FinalTrigger) # "EXECUTING" \/ activity = "EXECUTING"
    BY <2>1, OnlyConfirmedExecutes DEF TypeOK
  <2>3. ActivityFire(activity, FinalTrigger) \in ActivityStates
    BY ActivityFireType DEF TypeOK
  <2>4. Finalized = "EXECUTING" => activity = "EXECUTING"
    BY <2>2, <2>3, OnlyConfirmedExecutes DEF Finalized
  <2> QED BY <1>23, <2>4 DEF CloseFinalizes
<1>24. CASE RecordBuilt
  BY <1>24 DEF RecordBuilt
<1>25. CASE Teardown
  BY <1>25 DEF Teardown
<1>26. CASE UNCHANGED vars
  BY <1>26 DEF vars
<1> QED BY <1>1, <1>2, <1>3, <1>4, <1>5, <1>6, <1>7, <1>8, <1>9, <1>10, <1>11, <1>12, <1>13,
     <1>14, <1>15, <1>16, <1>17, <1>18, <1>19, <1>20, <1>21, <1>22, <1>23, <1>24, <1>25,
     <1>26
  DEF Next, CallResumes

\* The activity enters EXECUTING only for a call the user agreed to.
THEOREM ExecutesAgreed == Spec => ExecutingWasAgreed
<1>1. TypeOK /\ Grant /\ [Next]_vars => Grant'
  BY NextGrant
<1>2. TypeOK /\ Grant /\ [Next]_vars =>
        [activity # "EXECUTING" /\ activity' = "EXECUTING" => callNo \in granted]_vars
  BY ExecutingStep
<1> QED BY <1>1, <1>2, InitGrant, TypeCorrect, PTL DEF Spec, ExecutingWasAgreed

-----------------------------------------------------------------------------
(***************************************************************************)
(* Provenance: what a tool claims is capped by its declaration.            *)
(***************************************************************************)
\* The declared cap of record_field: never TOOL_VERIFIED, and never less than stated.
LEMMA WeakerIsStated ==
  ASSUME NEW p \in {"USER_STATED", "TOOL_VERIFIED"}
  PROVE  Weaker(p, "USER_STATED") = "USER_STATED"
BY DEF Weaker, Strength

\* A field keeps its provenance, or takes the one it is recorded with.
LEMMA RecordProvenance ==
  ASSUME NEW vals \in [Fields -> [value : Valid \cup {NoValue}, prov : Provenances]],
         NEW f \in Fields, NEW v, NEW p, NEW g \in Fields
  PROVE  /\ g # f => Record(vals, f, v, p)[g] = vals[g]
         /\ Record(vals, f, v, p)[f].prov \in {p, vals[f].prov}
BY DEF Record

\* A step that changes no field keeps it.
LEMMA OthersKeepVerified ==
  ASSUME VerifiedByBackend, UNCHANGED values, verified \subseteq verified'
  PROVE  VerifiedByBackend'
BY DEF VerifiedByBackend

\* Every step keeps it, one case per action.
LEMMA NextVerifiedByBackend == TypeOK /\ VerifiedByBackend /\ [Next]_vars => VerifiedByBackend'
<1> SUFFICES ASSUME TypeOK, VerifiedByBackend, [Next]_vars PROVE VerifiedByBackend'
  OBVIOUS
<1> USE DEF session, pump, client, closing, world
<1>1. CASE \E c \in Calls : StartCall(c)
  BY <1>1, OthersKeepVerified DEF StartCall, CallEnds, Rest
<1>2. CASE ConfirmationAsked
  BY <1>2, OthersKeepVerified DEF ConfirmationAsked
<1>3. CASE ConfirmationGranted
  BY <1>3, OthersKeepVerified DEF ConfirmationGranted
<1>4. CASE ExecuteConfirmed
  BY <1>4, OthersKeepVerified DEF ExecuteConfirmed
<1>5. CASE ConfirmationRefused
  BY <1>5, OthersKeepVerified DEF ConfirmationRefused, CallEnds, Rest
<1>6. CASE ConfirmationExpires
  BY <1>6, OthersKeepVerified DEF ConfirmationExpires, CallEnds, Rest
<1>7. CASE BackendCompletes
  BY <1>7, OthersKeepVerified DEF BackendCompletes
<1>8. CASE BackendFails
  BY <1>8, OthersKeepVerified DEF BackendFails
<1>9. CASE ToolCompletes
  <2>1. CASE UNCHANGED <<values, verified>>
    BY <2>1, OthersKeepVerified
  <2>2. CASE ~UNCHANGED <<values, verified>>
    <3>1. PICK ok \in BOOLEAN : VerifyField(call, ok)
      BY <1>9, <2>2 DEF ToolCompletes
    <3>2. CASE ~ok
      BY <3>1, <3>2, OthersKeepVerified DEF VerifyField
    <3>3. CASE ok
      <4>1. call.tool = "verify_field" /\ call \in Calls
        BY <1>9, <2>2 DEF ToolCompletes, TypeOK
      <4>2. call.field \in Fields /\ call.value \in Values
        BY <4>1, FieldCall
      <4>3. verified' = verified \cup {<<call.field, call.value>>}
        BY <3>1, <3>3 DEF VerifyField
      <4>4. \A g \in Fields : g # call.field => values'[g] = values[g]
        BY <3>1, <3>3, <4>2, RecordProvenance DEF VerifyField, TypeOK
      <4> QED BY <4>2, <4>3, <4>4 DEF VerifiedByBackend
    <3> QED BY <3>2, <3>3
  <2> QED BY <2>1, <2>2
<1>10. CASE FieldApplied
  <2>1. PICK claimed \in {"USER_STATED", "TOOL_VERIFIED"} : RecordField(call, Weaker(claimed, "USER_STATED"))
    BY <1>10 DEF FieldApplied
  <2>2. values' = values \/ values' = Record(values, call.field, call.value, "USER_STATED")
    BY <2>1, WeakerIsStated DEF RecordField
  <2>3. call.field \in Fields
    BY <1>10, FieldCall DEF FieldApplied, TypeOK
  <2>4. \A g \in Fields : values'[g].prov = "TOOL_VERIFIED" => values[g].prov = "TOOL_VERIFIED"
    BY <2>2, <2>3, RecordProvenance DEF TypeOK
  <2> QED BY <1>10, <2>4 DEF FieldApplied, VerifiedByBackend
<1>11. CASE HandoffSent
  BY <1>11, OthersKeepVerified DEF HandoffSent
<1>12. CASE HandoffAcknowledged
  BY <1>12, OthersKeepVerified DEF HandoffAcknowledged, CallEnds, Rest
<1>13. CASE ToolFails
  BY <1>13, OthersKeepVerified DEF ToolFails, CallEnds, Rest
<1>14. CASE EvaluateCompletion
  BY <1>14, OthersKeepVerified DEF EvaluateCompletion
<1>15. CASE ProviderFails
  BY <1>15, OthersKeepVerified DEF ProviderFails, Rest
<1>16. CASE UserTurn
  BY <1>16, OthersKeepVerified DEF UserTurn
<1>17. CASE UserTurnNeeds
  BY <1>17, OthersKeepVerified DEF UserTurnNeeds
<1>18. CASE AnswerInText
  BY <1>18, OthersKeepVerified DEF AnswerInText
<1>19. CASE \E answer \in {"yes", "no", "ambiguous"} : ApplyAnswer(answer)
  BY <1>19, OthersKeepVerified DEF ApplyAnswer
<1>20. CASE \E n \in 1..MaxRequests, agree \in BOOLEAN : SendConfirm(n, agree)
  BY <1>20, OthersKeepVerified DEF SendConfirm
<1>21. CASE HandleConfirm
  BY <1>21, OthersKeepVerified DEF HandleConfirm
<1>22. CASE Close
  BY <1>22, OthersKeepVerified DEF Close
<1>23. CASE CloseFinalizes
  BY <1>23, OthersKeepVerified DEF CloseFinalizes
<1>24. CASE RecordBuilt
  BY <1>24, OthersKeepVerified DEF RecordBuilt
<1>25. CASE Teardown
  BY <1>25, OthersKeepVerified DEF Teardown
<1>26. CASE UNCHANGED vars
  BY <1>26, OthersKeepVerified DEF vars
<1> QED BY <1>1, <1>2, <1>3, <1>4, <1>5, <1>6, <1>7, <1>8, <1>9, <1>10, <1>11, <1>12, <1>13,
     <1>14, <1>15, <1>16, <1>17, <1>18, <1>19, <1>20, <1>21, <1>22, <1>23, <1>24, <1>25,
     <1>26
  DEF Next, CallResumes

\* No field is TOOL_VERIFIED that no backend has verified.
THEOREM VerifiedHolds == Spec => []VerifiedByBackend
<1>1. TypeOK /\ VerifiedByBackend /\ [Next]_vars => VerifiedByBackend'
  BY NextVerifiedByBackend
<1>2. Init => VerifiedByBackend
  BY DEF Init, VerifiedByBackend, Unset
<1> QED BY <1>1, <1>2, TypeCorrect, PTL DEF Spec

-----------------------------------------------------------------------------
(***************************************************************************)
(* What a record that says "completed" stands on, for an activity whose    *)
(* success rules ask for an accepted submission and every required field.  *)
(***************************************************************************)
\* An accepted submission was run under a confirmation, had its effect and is
\* in the history; a call on its way there has done as much of this as it can.
Accepted ==
  /\ "accepted" \in flags =>
       /\ confirmedRuns # {}
       /\ \E c \in reported : c.tool = "submit_record" /\ effects[c] > 0
  /\ toolPc \in {"executing", "completing"} /\ NeedsConfirmation(call) => callNo \in confirmedRuns
  /\ toolPc = "completing" /\ HasKey(call) => effects[call] > 0
  /\ TellsSuccess /\ outcome = "completed" =>
       /\ confirmedRuns # {}
       /\ \E c \in inRecord : c.tool = "submit_record" /\ effects[c] > 0
       /\ MissingRequired(values) = {}

\* Nothing has happened at the start.
LEMMA InitAccepted == Init => Accepted
BY DEF Init, Accepted, NoOutcome

\* A recorded field stays recorded.
RecordedStays == \A f \in Fields : values[f].prov # "UNVERIFIED" => values'[f].prov # "UNVERIFIED"

\* No step takes back a confirmation, an effect, or a field; the parts below say
\* what a step may not do on top of that.
Grows ==
  /\ confirmedRuns \subseteq confirmedRuns'
  /\ reported \subseteq reported'
  /\ \A c \in Keyed : effects[c] > 0 => effects'[c] > 0
  /\ RecordedStays

\* Running a call records its confirmation and nothing else.
LEMMA ExecuteAccepted ==
  ASSUME NEW c, NEW n, Execute(c, n)
  PROVE  /\ confirmedRuns \subseteq confirmedRuns'
         /\ toolPc' \in {"failing", "executing"} /\ call' = c
         /\ toolPc' = "executing" /\ NeedsConfirmation(c) => n \in confirmedRuns'
<1>1. CASE c.tool \notin Bound
  BY <1>1 DEF Execute
<1>2. CASE c.tool \in Bound
  BY <1>2 DEF Execute
<1> QED BY <1>1, <1>2

\* A step that only adds keeps what was accepted and what was completed.
LEMMA GrowingKeepsAccepted ==
  ASSUME TypeOK, Accepted, Grows, UNCHANGED <<flags, outcome, inRecord>>,
         toolPc' = "executing" /\ NeedsConfirmation(call') => callNo' \in confirmedRuns',
         toolPc' = "completing" =>
           /\ NeedsConfirmation(call') => callNo' \in confirmedRuns'
           /\ HasKey(call') => effects'[call'] > 0
  PROVE  Accepted'
<1>1. reported \subseteq Keyed /\ inRecord \subseteq Keyed
  BY DEF TypeOK
<1>2. MissingRequired(values) = {} => MissingRequired(values') = {}
  BY DEF Grows, RecordedStays, MissingRequired, Recorded
<1>3. "accepted" \in flags' =>
        /\ confirmedRuns' # {}
        /\ \E c \in reported' : c.tool = "submit_record" /\ effects'[c] > 0
  BY <1>1 DEF Accepted, Grows
<1>4. TellsSuccess /\ outcome' = "completed" =>
        /\ confirmedRuns' # {}
        /\ \E c \in inRecord' : c.tool = "submit_record" /\ effects'[c] > 0
        /\ MissingRequired(values') = {}
  BY <1>1, <1>2 DEF Accepted, Grows
<1> QED BY <1>3, <1>4 DEF Accepted

\* A step that leaves the call and the fields alone, and takes nothing back.
LEMMA OthersKeepAccepted ==
  ASSUME TypeOK, Accepted, UNCHANGED <<flags, outcome, inRecord, values, confirmedRuns, effects>>,
         reported \subseteq reported',
         toolPc' \in {"executing", "completing"} => UNCHANGED <<toolPc, call, callNo>>
  PROVE  Accepted'
<1>1. Grows
  BY DEF Grows, RecordedStays
<1> QED BY <1>1, GrowingKeepsAccepted DEF Accepted

\* One more effect of a keyed call takes none back.
LEMMA EffectsGrow ==
  ASSUME TypeOK, NEW c,
         effects' \in {effects, IF HasKey(c) THEN [effects EXCEPT ![c] = @ + 1] ELSE effects}
  PROVE  \A k \in Keyed : effects[k] > 0 => effects'[k] > 0
<1> SUFFICES ASSUME NEW k \in Keyed, effects[k] > 0 PROVE effects'[k] > 0
  OBVIOUS
<1>1. effects[k] \in Nat /\ effects \in [Keyed -> Nat]
  BY DEF TypeOK
<1>2. CASE effects' = effects
  BY <1>2
<1>3. CASE effects' = [effects EXCEPT ![c] = @ + 1]
  BY <1>1, <1>3
<1> QED BY <1>2, <1>3

\* Under a schema that tells success from the other ends, every other branch of
\* primary_for picks another label: its own, one of its fallbacks, or the first.
LEMMA OnlySuccessSaysCompleted ==
  ASSUME TellsSuccess, PrimaryFor = "completed"
  PROVE  SuccessMet
<1> SUFFICES ASSUME ~SuccessMet PROVE FALSE
  OBVIOUS
<1>1. Primaries[1] = "completed" =>
        {"technical_failure", "human_required", "rejected", "abandoned"} \subseteq Allowed
  BY DEF TellsSuccess
<1>2. ExitMet => ExitValue # "completed"
  <2> SUFFICES ASSUME ExitMet PROVE ExitValue # "completed"
    OBVIOUS
  <2>1. (CHOOSE i \in ExitHit : TRUE) \in ExitHit
    BY DEF ExitMet
  <2>2. (CHOOSE i \in ExitHit : TRUE) \in DOMAIN ExitRules
    BY <2>1 DEF ExitHit
  <2> QED BY <2>2 DEF ExitValue, TellsSuccess
<1>3. Pick("rejected", "abandoned") # "completed"
  BY <1>1 DEF Pick, Prefer
<1>4. activity # "BLOCKED" /\ ~(activity = "ESCALATED" \/ "handoff" \in flags)
  BY <1>1 DEF PrimaryFor, Prefer
<1>5. ~ExitMet
  BY <1>2, <1>3, <1>4 DEF PrimaryFor, Prefer
<1>6. ~FailureMet /\ activity # "ABANDONED"
  BY <1>1, <1>4, <1>5 DEF PrimaryFor, Pick, Prefer
<1> QED BY <1>1, <1>4, <1>5, <1>6 DEF PrimaryFor, Pick, Prefer

\* Every step keeps it, one case per action.
LEMMA NextAccepted == TypeOK /\ {"accepted", "recorded"} \subseteq SuccessRules /\ Accepted /\ [Next]_vars => Accepted'
<1> SUFFICES ASSUME TypeOK, {"accepted", "recorded"} \subseteq SuccessRules /\ Accepted, [Next]_vars PROVE Accepted'
  OBVIOUS
<1> USE DEF session, pump, client, closing, world
<1>1. CASE \E c \in Calls : StartCall(c)
  <2> SUFFICES ASSUME NEW c \in Calls, StartCall(c) PROVE Accepted'
    BY <1>1
  <2>1. UNCHANGED <<flags, outcome, inRecord, values, effects, reported>>
    BY DEF StartCall
  <2>2. CASE Execute(c, callNo')
    <3>1. Grows
      BY <2>1, <2>2, ExecuteAccepted DEF Grows, RecordedStays
    <3> QED BY <2>1, <2>2, <3>1, ExecuteAccepted, GrowingKeepsAccepted
  <2>3. CASE ~Execute(c, callNo')
    <3>1. toolPc' \in {"idle", "stopped", "asking"} /\ UNCHANGED confirmedRuns
      BY <2>3 DEF StartCall, CallEnds, Rest
    <3> QED BY <2>1, <3>1, OthersKeepAccepted
  <2> QED BY <2>2, <2>3
<1>2. CASE ConfirmationAsked
  BY <1>2, OthersKeepAccepted DEF ConfirmationAsked
<1>3. CASE ConfirmationGranted
  BY <1>3, OthersKeepAccepted DEF ConfirmationGranted
<1>4. CASE ExecuteConfirmed
  <2>1. Execute(call, callNo) /\ UNCHANGED <<flags, outcome, inRecord, values, effects, reported, callNo>>
    BY <1>4 DEF ExecuteConfirmed
  <2>2. Grows
    BY <2>1, ExecuteAccepted DEF Grows, RecordedStays
  <2> QED BY <2>1, <2>2, ExecuteAccepted, GrowingKeepsAccepted
<1>5. CASE ConfirmationRefused
  BY <1>5, OthersKeepAccepted DEF ConfirmationRefused, CallEnds, Rest
<1>6. CASE ConfirmationExpires
  BY <1>6, OthersKeepAccepted DEF ConfirmationExpires, CallEnds, Rest
<1>7. CASE BackendCompletes
  <2>1. Grows
    BY <1>7, EffectsGrow DEF BackendCompletes, Grows, RecordedStays
  <2>2. HasKey(call) => effects'[call] > 0
    <3>1. SUFFICES ASSUME HasKey(call) PROVE effects'[call] > 0
      OBVIOUS
    <3>2. call \in Keyed
      BY <3>1, KeyedCall DEF TypeOK
    <3> QED BY <1>7, <3>1, <3>2 DEF BackendCompletes, TypeOK
  <2> QED BY <1>7, <2>1, <2>2, GrowingKeepsAccepted DEF BackendCompletes, Accepted
<1>8. CASE BackendFails
  <2>1. Grows
    BY <1>8, EffectsGrow DEF BackendFails, Grows, RecordedStays
  <2> QED BY <1>8, <2>1, GrowingKeepsAccepted DEF BackendFails
<1>9. CASE ToolCompletes
  <2>1. UNCHANGED <<outcome, inRecord, confirmedRuns, effects, callNo>> /\ reported \subseteq reported'
    BY <1>9 DEF ToolCompletes
  <2>2. toolPc' \notin {"executing", "completing"}
    BY <1>9 DEF ToolCompletes, CallEnds, Rest
  <2>3. RecordedStays
    <3>1. CASE UNCHANGED values
      BY <3>1 DEF RecordedStays
    <3>2. CASE ~UNCHANGED values
      <4>1. PICK ok \in BOOLEAN : VerifyField(call, ok)
        BY <1>9, <3>2 DEF ToolCompletes
      <4>2. call.tool = "verify_field" /\ call \in Calls
        BY <1>9, <3>2 DEF ToolCompletes, TypeOK
      <4>3. values' = Record(values, call.field, values[call.field].value, "TOOL_VERIFIED")
        BY <3>2, <4>1 DEF VerifyField
      <4> QED BY <4>2, <4>3, FieldCall, RecordProvenance DEF RecordedStays, TypeOK
    <3> QED BY <3>1, <3>2
  <2>4. Grows
    BY <2>1, <2>3 DEF Grows
  <2>5. CASE "accepted" \in flags' => "accepted" \in flags
    <3>1. reported \subseteq Keyed /\ inRecord \subseteq Keyed
      BY DEF TypeOK
    <3>2. MissingRequired(values) = {} => MissingRequired(values') = {}
      BY <2>3 DEF RecordedStays, MissingRequired, Recorded
    <3> QED BY <2>1, <2>2, <2>5, <3>1, <3>2 DEF Accepted
  <2>6. CASE "accepted" \in flags' /\ "accepted" \notin flags
    <3>1. call.tool = "submit_record"
      <4>1. call.tool \notin {"record_field", "request_handoff"}
        BY <1>9, <2>6 DEF ToolCompletes
      <4>2. PICK ok \in BOOLEAN :
              flags' = flags \cup (CASE call.tool = "submit_record" /\ ok -> {"accepted"}
                                     [] call.tool = "schedule_callback"   -> {"callback_scheduled"}
                                     [] OTHER -> {})
        BY <1>9, <4>1 DEF ToolCompletes
      <4> QED BY <2>6, <4>2
    <3>2. call.tool = "submit_record" /\ UNCHANGED values
      BY <1>9, <3>1 DEF ToolCompletes
    <3>3. NeedsConfirmation(call) /\ HasKey(call)
      BY <3>2 DEF NeedsConfirmation, HasKey, Impact
    <3>4. call \in reported' /\ effects[call] > 0 /\ callNo \in confirmedRuns
      BY <1>9, <3>3 DEF ToolCompletes, Accepted
    <3> QED BY <2>1, <2>2, <3>2, <3>4 DEF Accepted
  <2> QED BY <2>5, <2>6
<1>10. CASE FieldApplied
  <2>1. PICK claimed \in {"USER_STATED", "TOOL_VERIFIED"} : RecordField(call, Weaker(claimed, "USER_STATED"))
    BY <1>10 DEF FieldApplied
  <2>2. values' = values \/ values' = Record(values, call.field, call.value, "USER_STATED")
    BY <2>1, WeakerIsStated DEF RecordField
  <2>3. RecordedStays
    BY <1>10, <2>2, FieldCall, RecordProvenance DEF RecordedStays, TypeOK, FieldApplied
  <2>4. Grows
    BY <1>10, <2>3 DEF FieldApplied, Grows
  <2> QED BY <1>10, <2>4, GrowingKeepsAccepted DEF FieldApplied, CallEnds, Rest
<1>11. CASE HandoffSent
  BY <1>11, OthersKeepAccepted DEF HandoffSent
<1>12. CASE HandoffAcknowledged
  <2>1. Grows
    BY <1>12 DEF HandoffAcknowledged, Grows, RecordedStays
  <2>2. "accepted" \in flags' => "accepted" \in flags
    BY <1>12 DEF HandoffAcknowledged
  <2> QED BY <1>12, <2>1, <2>2 DEF HandoffAcknowledged, Accepted, CallEnds, Rest
<1>13. CASE ToolFails
  BY <1>13, OthersKeepAccepted DEF ToolFails, CallEnds, Rest
<1>14. CASE EvaluateCompletion
  BY <1>14, OthersKeepAccepted DEF EvaluateCompletion
<1>15. CASE ProviderFails
  BY <1>15, OthersKeepAccepted DEF ProviderFails, Rest
<1>16. CASE UserTurn
  BY <1>16, OthersKeepAccepted DEF UserTurn
<1>17. CASE UserTurnNeeds
  BY <1>17, OthersKeepAccepted DEF UserTurnNeeds
<1>18. CASE AnswerInText
  BY <1>18, OthersKeepAccepted DEF AnswerInText
<1>19. CASE \E answer \in {"yes", "no", "ambiguous"} : ApplyAnswer(answer)
  BY <1>19, OthersKeepAccepted DEF ApplyAnswer
<1>20. CASE \E n \in 1..MaxRequests, agree \in BOOLEAN : SendConfirm(n, agree)
  BY <1>20, OthersKeepAccepted DEF SendConfirm
<1>21. CASE HandleConfirm
  BY <1>21, OthersKeepAccepted DEF HandleConfirm
<1>22. CASE Close
  BY <1>22, OthersKeepAccepted DEF Close
<1>23. CASE CloseFinalizes
  BY <1>23, OthersKeepAccepted DEF CloseFinalizes
<1>24. CASE RecordBuilt
  <2>1. UNCHANGED <<flags, toolPc, call, callNo, values, confirmedRuns, effects, reported>>
    BY <1>24 DEF RecordBuilt
  <2>2. inRecord' = reported /\ outcome' = PrimaryFor
    BY <1>24 DEF RecordBuilt
  <2>3. TellsSuccess /\ outcome' = "completed" => "accepted" \in flags /\ MissingRequired(values) = {}
    <3>1. TellsSuccess /\ outcome' = "completed" => SuccessRules \subseteq Facts
      BY <2>2, OnlySuccessSaysCompleted DEF SuccessMet
    <3>2. "recorded" \notin flags
      BY DEF TypeOK
    <3> QED BY <3>1, <3>2 DEF Facts
  <2> QED BY <2>1, <2>2, <2>3 DEF Accepted
<1>25. CASE Teardown
  <2>1. effects' \in {effects, IF HasKey(call) THEN [effects EXCEPT ![call] = @ + 1] ELSE effects}
    BY <1>25 DEF Teardown
  <2>2. Grows
    BY <1>25, <2>1, EffectsGrow DEF Teardown, Grows, RecordedStays
  <2> QED BY <1>25, <2>2, GrowingKeepsAccepted DEF Teardown
<1>26. CASE UNCHANGED vars
  BY <1>26, OthersKeepAccepted DEF vars
<1> QED BY <1>1, <1>2, <1>3, <1>4, <1>5, <1>6, <1>7, <1>8, <1>9, <1>10, <1>11, <1>12, <1>13,
     <1>14, <1>15, <1>16, <1>17, <1>18, <1>19, <1>20, <1>21, <1>22, <1>23, <1>24, <1>25,
     <1>26
  DEF Next, CallResumes

\* Where success means an accepted submission and every required field, a record
\* that says "completed" has them, and the submission was agreed to.
THEOREM CompletedAgreed ==
  ASSUME {"accepted", "recorded"} \subseteq SuccessRules
  PROVE  Spec => []CompletedWasAgreed
<1>1. TypeOK /\ Accepted /\ [Next]_vars => Accepted'
  BY NextAccepted
<1>2. TypeOK /\ Grant /\ [Next]_vars => Grant'
  BY NextGrant
<1>3. Grant /\ Accepted => CompletedWasAgreed
  BY DEF Grant, Accepted, CompletedWasAgreed
<1> QED BY <1>1, <1>2, <1>3, InitAccepted, InitGrant, TypeCorrect, PTL DEF Spec

=============================================================================
