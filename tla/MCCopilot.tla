----------------------------- MODULE MCCopilot -----------------------------
(***************************************************************************)
(* Drafts with one thing wrong each, besides an empty and a clean one, on  *)
(* the compositions of the mocks, in one piece and in three, and of the    *)
(* realtime provider, as their adapters declare them.                      *)
(***************************************************************************)
EXTENDS Copilot

MCFamily == [n \in FieldNames |-> IF n = "name" THEN "name" ELSE "q"]
MCGapClass ==
  [g \in Gaps |-> IF g = "price" THEN "REQUIRED_FOR_EXECUTION" ELSE "IMPORTANT_FOR_QUALITY"]

Field(n) == [name |-> n, type |-> "string", hint |-> TRUE, provenance |-> "USER_STATED",
             sensitive |-> FALSE]
Atom(form, names) ==
  [form |-> form, names |-> names, literal |-> IF form = "compare" THEN "text" ELSE "none"]
RuleOf(form, names) == [atoms |-> <<Atom(form, names)>>, target |-> {}]
Recorded1 == RuleOf("recorded", {"name"})
Permit(t, impact, confirmation) == [tool |-> t, impact |-> impact, confirmation |-> confirmation]
Safe == Permit("submit_record", "write", "confirm_before_execute")

MCToolDecls ==
  {Safe, Permit("verify_field", "read", "none"), Permit("request_handoff", "escalation", "none")}

Clean ==
  [EmptyDraft EXCEPT
     !.direction = "inbound", !.channels = {"text"}, !.language = "en", !.pack = "en_pack",
     !.objective = "neutral", !.required = <<Field("name"), Field("q1")>>, !.sources = {"menu"},
     !.default = "STATE_LIMITATION", !.uncertainty = "STATE_LIMITATION", !.opt_out = TRUE,
     !.success = <<Recorded1>>, !.outcomes = {"done"}, !.permissions = {Safe},
     !.needs = <<"submit_record">>]

AnyHooks == [consent |-> TRUE, window |-> TRUE]
Asked(handling, status) == [handling |-> handling, status |-> status, answer |-> {"booking"}]

FieldSeeds ==
  {[Clean EXCEPT !.required = <<Field("name"), Field("name")>>],
   [Clean EXCEPT !.optional = <<[Field("q2") EXCEPT !.type = "enum_without_values", !.hint = FALSE]>>],
   [Clean EXCEPT !.flow = <<"q2">>],
   [Clean EXCEPT !.required = <<[Field("name") EXCEPT !.provenance = "TOOL_VERIFIED"]>>],
   [Clean EXCEPT !.required = <<[Field("name") EXCEPT !.provenance = "KNOWLEDGE_APPROVED"]>>,
                 !.sources = {}, !.pinned = {"menu"}],
   [Clean EXCEPT !.fields = <<[tool |-> {"booking"}, name |-> {}], [tool |-> {}, name |-> {"q2"}]>>]}

RuleSeeds ==
  {[Clean EXCEPT !.success = <<RuleOf("recorded", {"q2"})>>],
   [Clean EXCEPT !.success = <<RuleOf("accepted", {"booking"})>>],
   [Clean EXCEPT !.success = <<RuleOf("range", {"q1", "q2"})>>],
   [Clean EXCEPT !.success = <<RuleOf("garbled", {})>>],
   [Clean EXCEPT !.success = <<[atoms |-> <<Atom("compare", {"q1"}), Atom("accepted", {"submit_record"}),
                                            Atom("flag", {"opt_out"})>>, target |-> {}]>>],
   [Clean EXCEPT !.success = <<[atoms |-> <<[Atom("compare", {"q1"}) EXCEPT !.literal = "boolean"]>>,
                                target |-> {}]>>],
   [Clean EXCEPT !.required = <<[Field("q1") EXCEPT !.type = "number"]>>,
                 !.success = <<[atoms |-> <<[Atom("compare", {"q1"}) EXCEPT !.literal = "number"]>>,
                                target |-> {}]>>],
   [Clean EXCEPT !.success = <<[Recorded1 EXCEPT !.target = {"done"}]>>],
   [Clean EXCEPT !.success = <<>>, !.exit = <<[Recorded1 EXCEPT !.target = {"done"}]>>],
   [Clean EXCEPT !.success = <<>>, !.exit = <<[Recorded1 EXCEPT !.target = {"lost"}]>>],
   [Clean EXCEPT !.failure = <<Recorded1>>]}

ToolSeeds ==
  {[Clean EXCEPT !.permissions = {Permit("submit_record", "write", "none")}],
   [Clean EXCEPT !.permissions = {Safe, Permit("verify_field", "write", "confirm_before_execute")}],
   [Clean EXCEPT !.permissions = {Safe, Permit("verify_field", "read", "confirm_before_execute")}],
   [Clean EXCEPT !.permissions = {Safe, Permit("booking", "write", "none")},
                 !.needs = <<"booking">>, !.extras = <<"submit_record">>],
   [Clean EXCEPT !.needs = <<"booking">>]}

PolicySeeds ==
  {[Clean EXCEPT !.allowed = {"price"}, !.prohibited = {"price"}],
   [Clean EXCEPT !.overrides = <<[topic |-> FALSE, behavior |-> "OFFER_HUMAN_HANDOFF"]>>],
   [Clean EXCEPT !.default = "OFFER_HUMAN_HANDOFF"],
   [Clean EXCEPT !.default = "OFFER_HUMAN_HANDOFF",
                 !.permissions = @ \cup {Permit("request_handoff", "escalation", "none")}],
   [Clean EXCEPT !.opt_out = FALSE, !.objective = "persuasive"],
   [Clean EXCEPT !.escalation = <<"request_handoff">>],
   [Clean EXCEPT !.handoffs = <<[destination |-> TRUE, context |-> {}]>>],
   [Clean EXCEPT !.handoffs = <<[destination |-> FALSE, context |-> {"q2"}]>>],
   [Clean EXCEPT !.questions = <<Asked("TOOL", "ASK_OWNER"), Asked("HANDOFF", "COVERED")>>],
   [Clean EXCEPT !.objections = <<"ASK_OWNER">>],
   [Clean EXCEPT !.requirements = <<[domain |-> "menu", status |-> "MISSING"]>>],
   [Clean EXCEPT !.requirements = <<[domain |-> "menu", status |-> "PARTIAL"]>>]}

ChannelSeeds ==
  {[Clean EXCEPT !.direction = "outbound"], [Clean EXCEPT !.direction = "bidirectional"],
   [Clean EXCEPT !.direction = "outbound", !.hooks = {AnyHooks}],
   [Clean EXCEPT !.direction = "outbound", !.opening = TRUE, !.hooks = {[AnyHooks EXCEPT !.window = FALSE]}],
   [Clean EXCEPT !.channels = {"browser_voice", "telephony"}],
   [Clean EXCEPT !.channels = {"browser_voice"}, !.voice = "warm", !.pack = "ar_pack"],
   [Clean EXCEPT !.language = "fr", !.pack = Unset], [Clean EXCEPT !.pack = "lost_pack"]}

MCSeeds ==
  {EmptyDraft, Clean, [Clean EXCEPT !.required = <<>>, !.sources = {}, !.success = <<>>]}
    \cup FieldSeeds \cup RuleSeeds \cup ToolSeeds \cup PolicySeeds \cup ChannelSeeds

-----------------------------------------------------------------------------
MCPackOf == [en_pack |-> "en", ar_pack |-> "ar"]
MCVoiceOf == [warm |-> {"mock_s2s", "openai"}]

Declares(role, adapter, caps, state) == {Entry(role, adapter, cap, state) : cap \in caps}
Spoken == {<<"language", "en">>, <<"language", "ar">>, <<"audio", "pcm16_24k">>}
Calls == <<"feature", "tool_calls">>
BargeIn == <<"feature", "barge_in">>

Energy ==
  Declares("turn", "energy", {BargeIn, <<"language", "any">>}, "SUPPORTED")
    \cup Declares("turn", "energy", {<<"feature", "end_of_turn">>}, "PARTIAL")

Deploy(mode, adapter, adapters) ==
  [composition |-> [mode |-> mode, adapter |-> adapter],
   registry |-> build_registry(adapters \cup Energy, {d.tool : d \in MCToolDecls},
                               DOMAIN MCPackOf, DOMAIN MCVoiceOf)]

Piece ==
  Deploy("s2s", [s2s |-> "mock_s2s", turn |-> "energy"],
         Declares("s2s", "mock_s2s", Spoken \cup {Calls, BargeIn}, "SUPPORTED"))

Realtime ==
  Deploy("s2s", [s2s |-> "openai", turn |-> "energy"],
         Declares("s2s", "openai", {<<"audio", "pcm16_24k">>, Calls, BargeIn}, "SUPPORTED"))

Pieces ==
  Deploy("cascade", [asr |-> "mock_asr", llm |-> "mock_llm", tts |-> "mock_tts", turn |-> "energy"],
         Declares("asr", "mock_asr", Spoken, "SUPPORTED")
           \cup Declares("llm", "mock_llm", Spoken, "SUPPORTED")
           \cup Declares("tts", "mock_tts", Spoken, "SUPPORTED"))

\* Every draft meets the mock; what depends on the adapters meets the others too.
MCStarts ==
  {[draft |-> d, deployment |-> Piece] : d \in MCSeeds}
    \cup {[draft |-> d, deployment |-> p] :
            d \in {EmptyDraft, Clean} \cup ChannelSeeds \cup ToolSeeds, p \in {Realtime, Pieces}}

MCReplies(path) ==
  CASE path = <<"objective.primary">> -> {"neutral", "persuasive"}
    [] path = <<"direction">> -> {"inbound", "outbound"}
    [] path = <<"channels">> -> {{"browser_voice"}}
    [] path = <<"locale">> -> {"en"}
    [] path = <<"locale.locale_pack_ref">> -> {"en_pack"}
    [] path = <<"locale.voice_profile_ref">> -> {"warm"}
    [] path = <<"data.required">> -> {<<Field("name")>>, <<>>}
    [] path = <<"knowledge.sources">> -> {{"menu"}}
    [] path = <<"policies.unknown_question_policy.default">> -> {"OFFER_HUMAN_HANDOFF"}
    [] path = <<"outcome_schema.primary">> -> {{"done"}}
    [] path = <<"completion.success_rules">> -> {<<Recorded1>>}
    [] OTHER -> {"in words"}

MCSuggestion(path) ==
  CASE path = <<"channels">> -> {"browser_voice", "text"}
    [] path = <<"locale">> -> "ar"
    [] path = <<"policies.unknown_question_policy.default">> -> "STATE_LIMITATION"
    [] path = <<"outcome_schema.primary">> -> {"done", "lost"}
    [] OTHER -> "in words"

=============================================================================
