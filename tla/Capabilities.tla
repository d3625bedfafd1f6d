---------------------------- MODULE Capabilities ----------------------------
(***************************************************************************)
(* The capability registry and the mapping of requirements                 *)
(* (control/capabilities.py): adapters say what they support, the platform *)
(* adds its tools, packs, voices, channels and behaviours, and what nobody *)
(* declared is unverified.                                                 *)
(*                                                                         *)
(* A capability is a pair of its class and its name.                       *)
(***************************************************************************)
EXTENDS Blueprint

\* CapabilityRegistry.adapters, one entry for each capability declared.
Entry(role, adapter, cap, state) ==
  [role |-> role, adapter |-> adapter, cap |-> cap, state |-> state]

Platform(cap, state) == Entry("decision", "platform", cap, state)

\* The registry is the adapters' own entries with the facts of the platform.
build_registry(adapters, tools, packs, voices) ==
  adapters
    \cup {Platform(<<"tool", t>>, "SUPPORTED") : t \in tools}
    \cup {Platform(<<"locale_pack", p>>, "SUPPORTED") : p \in packs}
    \cup {Platform(<<"voice_profile", v>>, "SUPPORTED") : v \in voices}
    \cup {Platform(<<"channel", c>>, "SUPPORTED") : c \in {"text", "browser_voice"}}
    \cup {Platform(<<"channel", "telephony">>, "PARTIAL")}
    \cup {Platform(<<"behavior", b>>, "SUPPORTED") : b \in Behaviors}

\* AdapterCapabilities.state_of of the adapter found: no entry is UNVERIFIED.
StateOf(registry, role, adapter, cap) ==
  LET entries == {e \in registry : e.role = role /\ e.adapter = adapter /\ e.cap = cap}
  IN IF entries = {} THEN "UNVERIFIED" ELSE (CHOOSE e \in entries : TRUE).state

_platform_state(registry, cap) == StateOf(registry, "decision", "platform", cap)

\* The state of what a role is bound to; a language falls back on an adapter of any language.
_provider_state(registry, composition, role, cap) ==
  LET adapter == composition.adapter[role]
      state == StateOf(registry, role, adapter, cap)
  IN IF role \notin DOMAIN composition.adapter THEN "UNVERIFIED"
     ELSE IF state = "UNVERIFIED" /\ cap[1] = "language"
     THEN StateOf(registry, role, adapter, <<"language", "any">>)
     ELSE state

-----------------------------------------------------------------------------
\* _result_for
Result(state, partialOk) ==
  CASE state = "SUPPORTED" -> "SUPPORTED"
    [] state = "PARTIAL" -> IF partialOk THEN "SUPPORTED_WITH_CONFIGURATION" ELSE "UNSUPPORTED"
    [] state = "UNSUPPORTED" -> "UNSUPPORTED"
    [] OTHER -> "UNVERIFIED"

Row(cap, state, action, optional) ==
  [cap |-> cap, state |-> state, action |-> action, optional |-> optional]

Plain(cap, state) == Row(cap, state, Result(state, TRUE), FALSE)

\* A tool the platform does not have has to be provided.
_tool_row(registry, tool, optional) ==
  LET state == _platform_state(registry, <<"tool", tool>>)
  IN Row(<<"tool", tool>>, state,
         IF state = "UNVERIFIED" THEN "REQUIRES_TOOL" ELSE Result(state, TRUE), optional)

KnowledgeState == [SATISFIED |-> "SUPPORTED", PARTIAL |-> "PARTIAL", MISSING |-> "UNSUPPORTED"]

KnowledgeRow(r) ==
  Row(<<"knowledge", r.domain>>, KnowledgeState[r.status],
      IF r.status = "SATISFIED" THEN "SUPPORTED" ELSE "REQUIRES_KNOWLEDGE", FALSE)

\* The behaviours the policies name.
BehaviorsOf(bp) ==
  {bp.default, bp.uncertainty, "STATE_LIMITATION"}
    \cup {bp.overrides[i].behavior : i \in DOMAIN bp.overrides}

HandoffRow(bp) ==
  IF bp.handoffs # <<>> /\ "request_handoff" \in Permitted(bp)
  THEN Row(<<"handoff", "destination">>, "SUPPORTED", "SUPPORTED", FALSE)
  ELSE Row(<<"handoff", "destination">>, "UNSUPPORTED", "REQUIRES_HUMAN", FALSE)

\* map_requirements, in the order of its rows
map_requirements(registry, composition, bp) ==
  LET s2s == composition.mode = "s2s"
      speak == IF s2s THEN "s2s" ELSE "tts"
      hear == IF s2s THEN "s2s" ELSE "asr"
      think == IF s2s THEN "s2s" ELSE "llm"
      provided(role, cap) == Plain(cap, _provider_state(registry, composition, role, cap))
      platform(cap) == Plain(cap, _platform_state(registry, cap))
      when(c, rows) == IF c THEN rows ELSE <<>>
      language == <<"language", bp.language>>
      bargeIn == <<"feature", "barge_in">>
      toolCalls == _provider_state(registry, composition, think, <<"feature", "tool_calls">>)
  IN [i \in 1..Cardinality(bp.channels) |-> platform(<<"channel", SetToSeq(bp.channels)[i]>>)]
     \o <<provided(hear, language)>> \o when(~s2s, <<provided(speak, language)>>)
     \o when(IsVoice(bp), <<provided(speak, <<"audio", "pcm16_24k">>), provided(speak, bargeIn),
                            provided("turn", bargeIn),
                            provided("turn", <<"feature", "end_of_turn">>)>>)
     \o when(UsesTools(bp), <<Row(<<"feature", "tool_calls">>, toolCalls,
                                  Result(toolCalls, FALSE), FALSE)>>)
     \o [i \in DOMAIN bp.needs |-> _tool_row(registry, bp.needs[i], FALSE)]
     \o [i \in DOMAIN bp.extras |-> _tool_row(registry, bp.extras[i], TRUE)]
     \o [i \in DOMAIN bp.requirements |-> KnowledgeRow(bp.requirements[i])]
     \o SetToSeq({platform(<<"behavior", b>>) : b \in BehaviorsOf(bp)})
     \o when("OFFER_HUMAN_HANDOFF" \in BehaviorsOf(bp) \/ bp.handoffs # <<>>, <<HandoffRow(bp)>>)
     \o when(bp.pack # Unset, <<platform(<<"locale_pack", bp.pack>>)>>)
     \o when(IsVoice(bp) /\ bp.voice # Unset, <<platform(<<"voice_profile", bp.voice>>)>>)

\* CapabilityMapper.blocking
Blocks(row) ==
  /\ row.action \in {"UNSUPPORTED", "UNVERIFIED", "REQUIRES_TOOL", "REQUIRES_KNOWLEDGE",
                     "REQUIRES_HUMAN"}
  /\ ~row.optional

=============================================================================
