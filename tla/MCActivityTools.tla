--------------------------- MODULE MCActivityTools ---------------------------
(* Instances of ActivityTools: what each field must be before execution, the *)
(* exit rules, and two outcome schemas.                                      *)
EXTENDS ActivityTools

FieldsStated == [f \in Fields |-> "USER_STATED"]

\* "callback_scheduled => postponed"
ExitPostponed == <<[fact |-> "callback_scheduled", value |-> "postponed"]>>

\* A schema with a label for every end, "completed" first.
SchemaTold == <<"completed", "postponed", "rejected", "human_required", "technical_failure",
                "no_answer", "partially_completed", "abandoned">>

\* The schema the Copilot proposes.
SchemaProposed == <<"completed", "not_completed", "opted_out", "handed_off">>

=============================================================================
