--------------------------- MODULE DialogMachine ---------------------------
(***************************************************************************)
(* The dialog state machine of a voice session (who is speaking, who is    *)
(* being waited for): its transition table and the two ways the core uses  *)
(* it.  A table row maps the triggers that are legal in a state to the     *)
(* state they lead to; a trigger without an entry is illegal there.        *)
(***************************************************************************)
EXTENDS Integers

DialogStates == {"IDLE", "LISTENING", "THINKING", "SPEAKING", "INTERRUPTED",
                 "WAITING_TOOL", "WAITING_CONFIRMATION", "CLOSED"}

DialogTable ==
  [ IDLE        |-> [ session_started     |-> "LISTENING",
                      assistant_opens     |-> "SPEAKING",
                      close               |-> "CLOSED" ],
    LISTENING   |-> [ end_of_turn         |-> "THINKING",
                      text_received       |-> "THINKING",
                      timeout             |-> "THINKING",
                      response_started    |-> "SPEAKING",
                      tool_requested      |-> "WAITING_TOOL",
                      close               |-> "CLOSED" ],
    THINKING    |-> [ response_started    |-> "SPEAKING",
                      tool_requested      |-> "WAITING_TOOL",
                      confirmation_needed |-> "WAITING_CONFIRMATION",
                      nothing_to_say      |-> "LISTENING",
                      close               |-> "CLOSED" ],
    SPEAKING    |-> [ barge_in            |-> "INTERRUPTED",
                      response_done       |-> "LISTENING",
                      tool_requested      |-> "WAITING_TOOL",
                      close               |-> "CLOSED" ],
    INTERRUPTED |-> [ reconciled          |-> "LISTENING",
                      close               |-> "CLOSED" ],
    WAITING_TOOL |->
                    [ tool_returned       |-> "THINKING",
                      tool_failed         |-> "THINKING",
                      confirmation_needed |-> "WAITING_CONFIRMATION",
                      barge_in            |-> "INTERRUPTED",
                      close               |-> "CLOSED" ],
    WAITING_CONFIRMATION |->
                    [ confirmed           |-> "THINKING",
                      denied              |-> "THINKING",
                      end_of_turn         |-> "THINKING",
                      barge_in            |-> "INTERRUPTED",
                      close               |-> "CLOSED" ],
    CLOSED      |-> <<>> ]

DialogCan(state, trigger) == trigger \in DOMAIN DialogTable[state]

\* dialog_fire: an illegal trigger is reported as an event and changes nothing.
DialogFire(state, trigger) ==
  IF DialogCan(state, trigger) THEN DialogTable[state][trigger] ELSE state

=============================================================================
