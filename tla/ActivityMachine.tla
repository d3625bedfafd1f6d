-------------------------- MODULE ActivityMachine --------------------------
(***************************************************************************)
(* The activity state machine: how far the business task of a session has  *)
(* come.  The table is the platform's default; a blueprint may bring its   *)
(* own, which is used only when ValidTable holds of it.                    *)
(***************************************************************************)
EXTENDS Integers

ActivityStates == {"OPENING", "ENGAGED", "COLLECTING", "RESOLVING", "CLARIFYING",
                   "CONFIRMING", "EXECUTING", "CLOSING",
                   "ENDED", "ESCALATED", "ABANDONED", "BLOCKED"}

TerminalActivityStates == {"ENDED", "ESCALATED", "ABANDONED", "BLOCKED"}

ActivityTriggers ==
  {"opened", "user_engaged", "field_needed", "fields_complete", "question_asked",
   "question_resolved", "ambiguity", "clarified", "confirm_needed", "confirmed",
   "denied", "executed", "execution_failed", "success_rule_met",
   "failure_rule_met", "exit_rule_met", "handoff", "user_left", "blocked", "closed"}

CommonExits ==
  [ handoff       |-> "ESCALATED",
    user_left     |-> "ABANDONED",
    blocked       |-> "BLOCKED",
    exit_rule_met |-> "CLOSING" ]

WithCommonExits(own) ==
  [ t \in DOMAIN own \cup DOMAIN CommonExits |->
      IF t \in DOMAIN CommonExits THEN CommonExits[t] ELSE own[t] ]

ActivityTable ==
  [ OPENING    |-> WithCommonExits([ opened |-> "ENGAGED" ]),
    ENGAGED    |-> WithCommonExits(
                     [ field_needed      |-> "COLLECTING",
                       question_asked    |-> "RESOLVING",
                       ambiguity         |-> "CLARIFYING",
                       fields_complete   |-> "CONFIRMING",
                       success_rule_met  |-> "CLOSING",
                       failure_rule_met  |-> "CLOSING" ]),
    COLLECTING |-> WithCommonExits(
                     [ fields_complete   |-> "CONFIRMING",
                       field_needed      |-> "COLLECTING",
                       question_asked    |-> "RESOLVING",
                       ambiguity         |-> "CLARIFYING",
                       user_engaged      |-> "ENGAGED",
                       failure_rule_met  |-> "CLOSING" ]),
    RESOLVING  |-> WithCommonExits(
                     [ question_resolved |-> "ENGAGED",
                       field_needed      |-> "COLLECTING",
                       ambiguity         |-> "CLARIFYING" ]),
    CLARIFYING |-> WithCommonExits(
                     [ clarified         |-> "ENGAGED",
                       field_needed      |-> "COLLECTING" ]),
    CONFIRMING |-> WithCommonExits(
                     [ confirmed         |-> "EXECUTING",
                       denied            |-> "COLLECTING",
                       ambiguity         |-> "CLARIFYING",
                       field_needed      |-> "COLLECTING" ]),
    EXECUTING  |-> [ executed          |-> "CLOSING",
                     success_rule_met  |-> "CLOSING",
                     execution_failed  |-> "ENGAGED",
                     handoff           |-> "ESCALATED",
                     blocked           |-> "BLOCKED" ],
    CLOSING    |-> [ closed            |-> "ENDED",
                     user_engaged      |-> "ENGAGED",
                     handoff           |-> "ESCALATED",
                     user_left         |-> "ENDED" ],
    ENDED      |-> <<>>,
    ESCALATED  |-> <<>>,
    ABANDONED  |-> <<>>,
    BLOCKED    |-> <<>> ]

\* validate_table: the structural conditions a blueprint's own table must meet.
ValidTable(table) ==
  /\ "OPENING" \in DOMAIN table
  /\ DOMAIN table \subseteq ActivityStates
  /\ \A s \in DOMAIN table : \A t \in DOMAIN table[s] :
       t \in ActivityTriggers /\ table[s][t] \in ActivityStates
  /\ \A s \in DOMAIN table \cap TerminalActivityStates : DOMAIN table[s] = {}
  /\ \E s \in DOMAIN table : \E t \in DOMAIN table[s] :
       table[s][t] \in TerminalActivityStates

ActivityCan(state, trigger) == trigger \in DOMAIN ActivityTable[state]

\* fire_if_possible: an activity trigger that has no row is dropped silently.
ActivityFire(state, trigger) ==
  IF ActivityCan(state, trigger) THEN ActivityTable[state][trigger] ELSE state

=============================================================================
