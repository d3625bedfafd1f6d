----------------------------- MODULE Blueprint -----------------------------
(***************************************************************************)
(* The blueprint of an activity while it is put together                   *)
(* (contracts/activity.py, contracts/policy.py): a draft may leave         *)
(* anything out, and the schema says which drafts are blueprints.          *)
(*                                                                         *)
(* A path is where an element stands: its section, and an index or a name  *)
(* when the section holds several.                                         *)
(***************************************************************************)
EXTENDS Rules, Integers

CONSTANTS
  Locales, Packs, Voices,   \* languages, locale packs and voice profiles
  Sources,                  \* documents the activity may rely on
  Domains,                  \* knowledge an activity may require
  Claims                    \* claim types

Unset == "unset"

Channels == {"browser_voice", "text", "telephony"}
Directions == {"inbound", "outbound", "bidirectional"}
Behaviors == {"STATE_LIMITATION", "OFFER_HUMAN_HANDOFF", "CLOSE_GRACEFULLY"}
Statuses == {"COVERED", "ASK_OWNER", "DECLINED"}

FieldSpecs ==
  [name : FieldNames, type : {"string", "number", "boolean", "list", "enum", "enum_without_values"}, hint : BOOLEAN,
   provenance : {"USER_STATED", "KNOWLEDGE_APPROVED", "TOOL_VERIFIED"},
   sensitive : BOOLEAN]

Permissions ==
  [tool : ToolNames, impact : {"read", "write", "escalation"},
   confirmation : {"none", "confirm_before_execute"}]

Hooks == [consent : BOOLEAN, window : BOOLEAN]

\* A section is as the schema has it, or has a key the schema does not know, or is a mere text.
Shapes == {"fine", "extra", "text"}

Drafts ==
  [direction : Directions \cup {Unset}, channels : SUBSET Channels,
   language : Locales \cup {Unset}, pack : Packs \cup {Unset}, voice : Voices \cup {Unset},
   objective : {Unset, "neutral", "persuasive"},
   required : Seq(FieldSpecs), optional : Seq(FieldSpecs), flow : Seq(FieldNames),
   sources : SUBSET Sources, pinned : SUBSET Sources,
   requirements : Seq([domain : Domains, status : {"SATISFIED", "PARTIAL", "MISSING"}]),
   needs : Seq(ToolNames), extras : Seq(ToolNames), permissions : SUBSET Permissions,
   default : Behaviors \cup {Unset}, uncertainty : Behaviors \cup {Unset},
   overrides : Seq([topic : BOOLEAN, behavior : Behaviors]),
   allowed : SUBSET Claims, prohibited : SUBSET Claims,
   opt_out : BOOLEAN, respect : BOOLEAN, opening : BOOLEAN, hooks : SUBSET Hooks,
   escalation : Seq({"request_handoff", "other"}),
   handoffs : Seq([destination : BOOLEAN, context : SUBSET FieldNames]),
   questions : Seq([handling : {"KNOWLEDGE", "TOOL", "HANDOFF"}, status : Statuses,
                    answer : SUBSET ToolNames]),
   objections : Seq(Statuses),
   success : Seq(CompletionRules), failure : Seq(CompletionRules), exit : Seq(CompletionRules),
   outcomes : SUBSET OutcomeLabels,
   fields : Seq([tool : SUBSET ToolNames, name : SUBSET FieldNames]),
   completion : Shapes, unknown : Shapes,   \* the completion and the policy for unknown questions
   spoiled : BOOLEAN]   \* something stands elsewhere that the schema does not allow

\* What a session starts from when nothing is uploaded.
EmptyDraft ==
  [direction |-> Unset, channels |-> {}, language |-> Unset, pack |-> Unset, voice |-> Unset,
   objective |-> Unset, required |-> <<>>, optional |-> <<>>, flow |-> <<>>, sources |-> {},
   pinned |-> {}, requirements |-> <<>>, needs |-> <<>>, extras |-> <<>>, permissions |-> {},
   default |-> Unset, uncertainty |-> Unset, overrides |-> <<>>, allowed |-> {},
   prohibited |-> {}, opt_out |-> FALSE, respect |-> TRUE, opening |-> FALSE, hooks |-> {},
   escalation |-> <<>>, handoffs |-> <<>>, questions |-> <<>>, objections |-> <<>>,
   success |-> <<>>, failure |-> <<>>, exit |-> <<>>, outcomes |-> {}, fields |-> <<>>,
   completion |-> "fine", unknown |-> "fine", spoiled |-> FALSE]

-----------------------------------------------------------------------------
NamesOf(bp) == {bp.required[i].name : i \in DOMAIN bp.required}
                 \cup {bp.optional[i].name : i \in DOMAIN bp.optional}

Permitted(bp) == {p.tool : p \in bp.permissions}

\* What the value of a field is, by its declared type.
KindOf(type) == IF type \in {"number", "boolean", "list"} THEN type ELSE "text"

Declared(bp, n) ==
  {bp.required[i] : i \in {i \in DOMAIN bp.required : bp.required[i].name = n}}
    \cup {bp.optional[i] : i \in {i \in DOMAIN bp.optional : bp.optional[i].name = n}}

KindIn(bp, n) ==
  IF n \in NamesOf(bp) THEN KindOf((CHOOSE spec \in Declared(bp, n) : TRUE).type) ELSE "text"

UsesTools(bp) == bp.needs # <<>> \/ bp.extras # <<>>

IsVoice(bp) == bp.channels \cap {"browser_voice", "telephony"} # {}

\* An activity that calls people, or may.
CallsOut(bp) == bp.direction \in {"outbound", "bidirectional"}

\* ActivityBlueprint: what the schema and its two validators ask for.
Valid(bp) ==
  /\ ~bp.spoiled /\ bp.completion = "fine" /\ bp.unknown = "fine"
  /\ Unset \notin {bp.direction, bp.language, bp.objective, bp.default, bp.uncertainty}
  /\ bp.channels # {} /\ bp.outcomes # {}
  /\ ToSet(bp.needs) \cup ToSet(bp.extras) \subseteq Permitted(bp)
  /\ bp.direction = "outbound" => bp.hooks # {}

=============================================================================
