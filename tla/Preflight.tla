----------------------------- MODULE Preflight -----------------------------
(***************************************************************************)
(* The preflight of a blueprint (control/preflight.py): thirteen checks,   *)
(* each a sequence of findings with the path they are about.               *)
(*                                                                         *)
(* What the checks may consult besides the blueprint is the context:       *)
(*   composition  the adapters bound to the roles, and the mode            *)
(*   registry     the capability registry                                  *)
(*   tenants      {} when no tenant is given, else the set of its adapters *)
(*   decls        declarations of tools, as permissions                    *)
(*   packs        the language of each locale pack                         *)
(*   voices       the adapters that have each voice                        *)
(*   conflicts    contradictions nobody resolved                           *)
(*   rejected     adapters the license registry rejects                    *)
(*   strict       does an unverified capability block?                     *)
(* The tools a tenant is restricted to are left out: nobody gives them.    *)
(***************************************************************************)
EXTENDS Capabilities

Finding(reason, path, severity) == [reason |-> reason, path |-> path, severity |-> severity]

Block(reason, path) == <<Finding(reason, path, "BLOCK")>>
Warn(reason, path) == <<Finding(reason, path, "WARN")>>

When(c, findings) == IF c THEN findings ELSE <<>>

-----------------------------------------------------------------------------
_fields(bp) ==
  LET specs == bp.required \o bp.optional
      at(i) == IF i <= Len(bp.required) THEN <<"data.required", i>>
               ELSE <<"data.optional", i - Len(bp.required)>>
      incomplete(i) ==
        When(\E j \in 1..(i - 1) : specs[j].name = specs[i].name,
             Block("INCOMPLETE_FIELD_DEFINITION", at(i)))
        \o When(specs[i].type = "enum_without_values",
                Block("INCOMPLETE_FIELD_DEFINITION", at(i)))
        \o When(~specs[i].hint, Warn("INCOMPLETE_FIELD_DEFINITION", at(i)))
      step(i) == When(bp.flow[i] \notin NamesOf(bp),
                      Block("INVALID_CONFIG", <<"constrained_flow.steps", i>>))
  IN FlattenSeq([i \in DOMAIN specs |-> incomplete(i)])
     \o FlattenSeq([i \in DOMAIN bp.flow |-> step(i)])

_outcome_schema(bp) ==
  LET sourced(i) ==
        When(~(bp.fields[i].tool \subseteq Permitted(bp)) \/ ~(bp.fields[i].name \subseteq NamesOf(bp)),
             Block("MISSING_OUTCOME_SCHEMA", <<"outcome_schema.fields", i>>))
  IN When(bp.outcomes = {}, Block("MISSING_OUTCOME_SCHEMA", <<"outcome_schema.primary">>))
     \o FlattenSeq([i \in DOMAIN bp.fields |-> sourced(i)])

\* Fault seeded below: a tool that a rule waits for need not be permitted.
X_Refers(bp, a) ==
  CASE a.form \in {"recorded", "compare"} -> a.names \subseteq NamesOf(bp)
    [] a.form = "range" -> \E n \in NamesOf(bp), m \in a.names : Family[n] = Family[m]
    [] a.form = "accepted" -> a.names \subseteq ToolNames
    [] a.form = "flag" -> TRUE
    [] OTHER -> FALSE

\* What an atom of a rule refers to has to be declared; a range asks for one field of its family.
Refers(bp, a) ==
  CASE a.form \in {"recorded", "compare"} -> a.names \subseteq NamesOf(bp)
    [] a.form = "range" -> \E n \in NamesOf(bp), m \in a.names : Family[n] = Family[m]
    [] a.form = "accepted" -> a.names \subseteq Permitted(bp)
    [] a.form = "flag" -> TRUE
    [] OTHER -> FALSE

_completion(bp) ==
  LET impossible(path) == Block("IMPOSSIBLE_COMPLETION_CRITERIA", path)
      rules(kind, section) ==
        FlattenSeq([i \in DOMAIN section |->
          When(~(section[i].target \subseteq bp.outcomes), impossible(<<kind, i>>))
          \o When(\E a \in ToSet(section[i].atoms) : ~Refers(bp, a), impossible(<<kind, i>>))])
  IN When(bp.success = <<>> /\ bp.exit = <<>>, impossible(<<"completion">>))
     \o rules("completion.success_rules", bp.success)
     \o rules("completion.failure_rules", bp.failure)
     \o rules("completion.exit_rules", bp.exit)
     \o When(ToSet(bp.success) \cap ToSet(bp.failure) # {},
             Block("CONTRADICTORY_POLICIES", <<"completion">>))

\* A permission is compared with the declaration of its tool; an approved decision may waive a
\* confirmation.
_tools(bp, ctx, waived) ==
  LET declared == {d.tool : d \in ctx.decls}
      missing(i) == When(ctx.decls # {} /\ bp.needs[i] \notin declared,
                         Block("MISSING_REQUIRED_TOOL", <<"tools.required", i>>))
      permissions == SetToSeq(bp.permissions)
      permission(i) ==
        LET p == permissions[i]
            path == <<"tools.permissions", p.tool>>
            decls == {d \in ctx.decls : d.tool = p.tool}
        IN When(\E d \in decls : d.impact # p.impact, Block("INVALID_CONFIG", path))
           \o When(/\ p.impact = "write" /\ p.confirmation = "none"
                   /\ \E d \in decls : d.confirmation # "none"
                   /\ p.tool \notin waived,
                   Block("INCOMPATIBLE_CONFIRMATION_RULE", path))
           \o When(p.impact = "read" /\ p.confirmation # "none",
                   Warn("INCOMPATIBLE_CONFIRMATION_RULE", path))
  IN FlattenSeq([i \in DOMAIN bp.needs |-> missing(i)])
     \o FlattenSeq([i \in DOMAIN permissions |-> permission(i)])
     \o When(/\ \E i \in DOMAIN bp.required : bp.required[i].provenance = "TOOL_VERIFIED"
             /\ "verify_field" \notin Permitted(bp),
             Block("MISSING_REQUIRED_TOOL", <<"tools.required">>))

_policies(bp) ==
  LET behaviors == {bp.default} \cup {bp.overrides[i].behavior : i \in DOMAIN bp.overrides}
      topic(i) == When(~bp.overrides[i].topic,
                       Block("INVALID_CONFIG", <<"policies.unknown_question_policy.overrides", i>>))
  IN When(bp.allowed \cap bp.prohibited # {},
          Block("CONTRADICTORY_POLICIES", <<"policies.allowed_claims">>))
     \o FlattenSeq([i \in DOMAIN bp.overrides |-> topic(i)])
     \o When(/\ "OFFER_HUMAN_HANDOFF" \in behaviors
             /\ "request_handoff" \notin Permitted(bp) /\ bp.handoffs = <<>>,
             Block("UNDEFINED_ESCALATION", <<"policies.unknown_question_policy">>))
     \o When(bp.respect /\ ~bp.opt_out, Warn("INVALID_CONFIG", <<"policies.opt_out">>))

_escalation(bp) ==
  LET rule(i) == When(bp.escalation[i] = "request_handoff" /\ bp.handoffs = <<>>,
                      Block("UNDEFINED_ESCALATION", <<"policies.escalation", i>>))
      handoff(i) == When(~bp.handoffs[i].destination \/ ~(bp.handoffs[i].context \subseteq NamesOf(bp)),
                         Block("UNDEFINED_ESCALATION", <<"handoff_rules", i>>))
  IN FlattenSeq([i \in DOMAIN bp.escalation |-> rule(i)])
     \o FlattenSeq([i \in DOMAIN bp.handoffs |-> handoff(i)])

_knowledge(bp, ctx) ==
  LET path(i) == <<"knowledge.requirements", i>>
      requirement(i) ==
        When(bp.requirements[i].status = "MISSING", Block("MISSING_REQUIRED_KNOWLEDGE", path(i)))
        \o When(bp.requirements[i].status = "PARTIAL", Warn("MISSING_REQUIRED_KNOWLEDGE", path(i)))
  IN FlattenSeq([i \in DOMAIN bp.requirements |-> requirement(i)])
     \o When(/\ \E i \in DOMAIN bp.required : bp.required[i].provenance = "KNOWLEDGE_APPROVED"
             /\ bp.sources = {},
             Block("MISSING_REQUIRED_KNOWLEDGE", <<"knowledge.sources">>))
     \o When(ctx.conflicts # {}, Block("UNRESOLVED_KNOWLEDGE_CONFLICT", <<"knowledge">>))
     \o When(~(bp.pinned \subseteq bp.sources),
             Warn("INVALID_CONFIG", <<"version_metadata.pinned.knowledge_versions">>))

\* The decisions nobody approved; the order they were recorded in is left out.
_decisions(unapproved) ==
  When(unapproved # {}, Block("UNAPPROVED_BUSINESS_DECISION", <<"version_metadata.decisions", 1>>))

_coverage(bp) ==
  LET question(i) ==
        LET q == bp.questions[i]
            path == <<"coverage.questions", i>>
        IN When(q.status = "ASK_OWNER",
                IF q.handling \in {"TOOL", "HANDOFF"} THEN Block("UNAPPROVED_BUSINESS_DECISION", path)
                ELSE Warn("UNAPPROVED_BUSINESS_DECISION", path))
           \o When(q.handling = "TOOL" /\ ~(q.answer \subseteq Permitted(bp)),
                   Block("MISSING_REQUIRED_TOOL", path))
           \o When(q.handling = "HANDOFF" /\ bp.handoffs = <<>>
                     /\ "request_handoff" \notin Permitted(bp),
                   Block("UNDEFINED_ESCALATION", path))
      objection(i) == When(bp.objections[i] = "ASK_OWNER",
                           Warn("UNAPPROVED_BUSINESS_DECISION", <<"coverage.objections", i>>))
  IN FlattenSeq([i \in DOMAIN bp.questions |-> question(i)])
     \o FlattenSeq([i \in DOMAIN bp.objections |-> objection(i)])

\* Only an outbound activity: one of both directions is not looked at.
_outbound(bp) ==
  LET hooks == <<"policies.contact_policy_hooks">>
      missing(path) == Block("CONTACT_POLICY_MISSING_FOR_OUTBOUND", path)
  IN When(bp.direction = "outbound",
       IF bp.hooks = {} THEN missing(hooks)
       ELSE When((\E h \in bp.hooks : h.consent) /\ ~bp.opening, missing(<<"policies.disclosures">>))
            \o When(\A h \in bp.hooks : ~h.window, Warn("CONTACT_POLICY_MISSING_FOR_OUTBOUND", hooks)))

-----------------------------------------------------------------------------
\* The capabilities the composition has to have: the role, the capability, the reason if it has not.
Wanted(bp, composition) ==
  LET language == <<"language", bp.language>>
      want(role, cap, reason) == [role |-> role, cap |-> cap, reason |-> reason]
      feature(role, cap) == want(role, cap, "UNSUPPORTED_CAPABILITY")
      speaks(role) == want(role, language, "UNSUPPORTED_LOCALE_COMBINATION")
      calls(role) == When(UsesTools(bp), <<feature(role, <<"feature", "tool_calls">>)>>)
      bargeIn(role) == feature(role, <<"feature", "barge_in">>)
  IN (IF composition.mode = "s2s"
      THEN <<speaks("s2s")>> \o calls("s2s")
           \o When(IsVoice(bp), <<feature("s2s", <<"audio", "pcm16_24k">>), bargeIn("s2s")>>)
      ELSE <<speaks("asr"), speaks("tts")>> \o calls("llm"))
     \o When(IsVoice(bp), <<bargeIn("turn")>>)

\* A finding about each of these bindings.
OfRoles(roles, reason) ==
  LET bindings == SetToSeq(roles)
  IN FlattenSeq([i \in DOMAIN bindings |-> Block(reason, <<"composition.bindings", bindings[i]>>)])

_channels_and_composition(bp, ctx) ==
  LET bound == ctx.composition.adapter
      disabled == {role \in DOMAIN bound \ {"turn"} : \E t \in ctx.tenants : bound[role] \notin t}
      wanted == Wanted(bp, ctx.composition)
      capability(i) ==
        LET w == wanted[i]
            path == <<"composition.bindings=", w.role>>
            state == _provider_state(ctx.registry, ctx.composition, w.role, w.cap)
        IN CASE w.role \notin DOMAIN bound -> Block("INVALID_CONFIG", <<"composition.bindings">>)
             [] state = "UNSUPPORTED" -> Block(w.reason, path)
             [] state = "PARTIAL" -> Warn(w.reason, path)
             [] state = "UNVERIFIED" ->
                  IF ctx.strict THEN Block("PROVIDER_CAPABILITY_UNAVAILABLE", path)
                  ELSE Warn("PROVIDER_CAPABILITY_UNAVAILABLE", path)
             [] OTHER -> <<>>
  IN OfRoles(disabled, "PROVIDER_CAPABILITY_UNAVAILABLE")
     \o FlattenSeq([i \in DOMAIN wanted |-> capability(i)])

_locale_and_voice(bp, ctx) ==
  LET speaking == IF ctx.composition.mode = "s2s" THEN "s2s" ELSE "tts"
      pack == <<"locale.locale_pack_ref">>
      noPack == "UNSUPPORTED_LOCALE_COMBINATION"
      hasVoice == /\ bp.voice \in DOMAIN ctx.voices
                  /\ ctx.composition.adapter[speaking] \in ctx.voices[bp.voice]
  IN When(bp.pack # Unset,
          When(bp.pack \notin DOMAIN ctx.packs, Block(noPack, pack))
          \o When(bp.pack \in DOMAIN ctx.packs /\ ctx.packs[bp.pack] # bp.language,
                  Block(noPack, pack)))
     \o When(bp.pack = Unset /\ DOMAIN ctx.packs # {}, Warn(noPack, pack))
     \o When(IsVoice(bp) /\ ~hasVoice, Block("VOICE_UNAVAILABLE", <<"locale.voice_profile_ref">>))

_licenses(ctx) ==
  LET bound == ctx.composition.adapter
  IN OfRoles({role \in DOMAIN bound : bound[role] \in ctx.rejected}, "LICENSE_BLOCKED_COMPONENT")

\* run: the findings of every check, in their order
Findings(bp, ctx, unapproved, waived) ==
  _fields(bp) \o _outcome_schema(bp) \o _completion(bp) \o _tools(bp, ctx, waived)
    \o _policies(bp) \o _escalation(bp) \o _knowledge(bp, ctx) \o _decisions(unapproved)
    \o _coverage(bp) \o _outbound(bp) \o _channels_and_composition(bp, ctx)
    \o _locale_and_voice(bp, ctx) \o _licenses(ctx)

Blocked(findings) == \E i \in DOMAIN findings : findings[i].severity = "BLOCK"

=============================================================================
