----------------------------- MODULE Discovery -----------------------------
(***************************************************************************)
(* The questions of the configuration Copilot (copilot/discovery.py): they *)
(* are derived from the draft, the knowledge, the preflight and the        *)
(* mapping, one for each path, the first source first.                     *)
(***************************************************************************)
EXTENDS Preflight

CONSTANTS
  Gaps,        \* knowledge gaps
  GapClass,    \* what each of them is
  Conflicts    \* contradictions between the sources

GapClasses == {"REQUIRED_FOR_EXECUTION", "POLICY_RISK", "DATA_CONFLICT", "IMPORTANT_FOR_QUALITY",
               "OPTIONAL_IMPROVEMENT", "UNKNOWN"}

ASSUME DiscoveryAssumption == GapClass \in [Gaps -> GapClasses]

\* A question is told by its path and its text; a proposal is what the operator may just accept.
Question(kind, path, text, blocking, proposal) ==
  <<[kind |-> kind, path |-> path, text |-> text, blocking |-> blocking, proposal |-> proposal]>>

Ask(kind, path, blocking) == Question(kind, path, "structure", blocking, FALSE)
Suggest(kind, path, blocking) == Question(kind, path, "structure", blocking, TRUE)

-----------------------------------------------------------------------------
\* The holes of a draft
_structural(d) ==
  When(d.objective = Unset, Ask("business_decision", <<"objective.primary">>, TRUE))
  \o When(d.direction = Unset, Ask("business_decision", <<"direction">>, TRUE))
  \o When(d.channels = {}, Suggest("blocking_gap", <<"channels">>, TRUE))
  \o When(d.language = Unset, Suggest("quality", <<"locale">>, FALSE))
  \o When(CallsOut(d) /\ d.hooks = {}, Ask("policy_risk", <<"policies.contact_policy_hooks">>, TRUE))
  \o When(d.required = <<>>, Ask("business_decision", <<"data.required">>, TRUE))
  \o When(d.sources = {}, Ask("blocking_gap", <<"knowledge.sources">>, TRUE))
  \o When(d.default = Unset,
          Suggest("policy_risk", <<"policies.unknown_question_policy.default">>, TRUE))
  \o When(~d.opt_out, Suggest("policy_risk", <<"policies.opt_out">>, FALSE))
  \o When(d.outcomes = {}, Suggest("business_decision", <<"outcome_schema.primary">>, TRUE))
  \o When(d.success = <<>>, Ask("business_decision", <<"completion.success_rules">>, TRUE))
  \o When(d.default = "OFFER_HUMAN_HANDOFF" /\ d.handoffs = <<>>,
          Ask("business_decision", <<"handoff_rules">>, TRUE))
  \o When(d.objective = "persuasive" /\ d.objections = <<>>,
          Ask("business_decision", <<"coverage.objections">>, FALSE))

GapKind ==
  [REQUIRED_FOR_EXECUTION |-> "blocking_gap", POLICY_RISK |-> "policy_risk",
   DATA_CONFLICT |-> "data_conflict", IMPORTANT_FOR_QUALITY |-> "quality",
   OPTIONAL_IMPROVEMENT |-> "optional", UNKNOWN |-> "quality"]

BlockingGap(g) == GapClass[g] \in {"REQUIRED_FOR_EXECUTION", "POLICY_RISK", "DATA_CONFLICT"}

_from_gaps(gaps) ==
  LET g == SetToSeq(gaps)
  IN FlattenSeq([i \in DOMAIN g |->
       Question(GapKind[GapClass[g[i]]], <<"knowledge.gaps", g[i]>>, "gap", BlockingGap(g[i]), FALSE)])

_from_contradictions(conflicts) ==
  LET c == SetToSeq(conflicts)
  IN FlattenSeq([i \in DOMAIN c |->
       Question("data_conflict", <<"knowledge.contradictions", c[i]>>, "conflict", TRUE, FALSE)])

BusinessReasons ==
  {"UNAPPROVED_BUSINESS_DECISION", "CONTRADICTORY_POLICIES", "UNDEFINED_ESCALATION",
   "CONTACT_POLICY_MISSING_FOR_OUTBOUND", "IMPOSSIBLE_COMPLETION_CRITERIA",
   "MISSING_OUTCOME_SCHEMA"}

CapabilityReasons ==
  {"UNSUPPORTED_CAPABILITY", "UNSUPPORTED_LOCALE_COMBINATION", "VOICE_UNAVAILABLE",
   "PROVIDER_CAPABILITY_UNAVAILABLE", "MISSING_REQUIRED_TOOL", "LICENSE_BLOCKED_COMPONENT"}

_from_preflight(findings) ==
  FlattenSeq([i \in DOMAIN findings |->
    LET f == findings[i]
        blocks == f.severity = "BLOCK"
        kind == CASE f.reason \in BusinessReasons -> "business_decision"
                  [] f.reason \in CapabilityReasons -> "capability_gap"
                  [] OTHER -> IF blocks THEN "blocking_gap" ELSE "quality"
    IN Question(kind, f.path, f.reason, blocks, FALSE)])

\* Fault seeded below: the hand-off that nobody can take is not asked about.
X__from_mapping(rows) ==
  FlattenSeq([i \in DOMAIN rows |->
    LET r == rows[i]
        path == <<"capabilities", r.cap>>
    IN CASE r.action = "REQUIRES_KNOWLEDGE" -> Question("blocking_gap", path, "knowledge", TRUE, FALSE)
         [] r.action \in {"REQUIRES_TOOL", "UNSUPPORTED"} ->
              Question("capability_gap", path, r.action, TRUE, FALSE)
         [] r.action = "UNVERIFIED" -> Question("capability_gap", path, "unverified", FALSE, FALSE)
         [] OTHER -> <<>>])

_from_mapping(rows) ==
  FlattenSeq([i \in DOMAIN rows |->
    LET r == rows[i]
        path == <<"capabilities", r.cap>>
    IN CASE r.action = "REQUIRES_KNOWLEDGE" -> Question("blocking_gap", path, "knowledge", TRUE, FALSE)
         [] r.action = "REQUIRES_HUMAN" ->
              Question("business_decision", <<"handoff_rules">>, "human", TRUE, FALSE)
         [] r.action \in {"REQUIRES_TOOL", "UNSUPPORTED"} ->
              Question("capability_gap", path, r.action, TRUE, FALSE)
         [] r.action = "UNVERIFIED" -> Question("capability_gap", path, "unverified", FALSE, FALSE)
         [] OTHER -> <<>>])

-----------------------------------------------------------------------------
Band ==
  [blocking_gap |-> 0, data_conflict |-> 10, policy_risk |-> 20, business_decision |-> 30,
   capability_gap |-> 40, quality |-> 60, optional |-> 80]

\* The stage of a path: the sections are disclosed one after the other.
Stage(path) ==
  CASE path[1] = "objective.primary" -> 0
    [] path[1] = "direction" -> 1
    [] path[1] = "channels" -> 2
    [] path[1] \in {"locale", "locale.voice_profile_ref", "locale.locale_pack_ref"} -> 3
    [] path[1] \in {"knowledge", "knowledge.sources", "knowledge.requirements", "knowledge.gaps",
                    "knowledge.contradictions"} -> 4
    [] path[1] \in {"data.required", "data.optional"} -> 5
    [] path[1] \in {"coverage.questions", "coverage.objections"} -> 6
    [] path[1] \in {"tools.required", "tools.permissions"} -> 7
    [] path[1] \in {"policies.unknown_question_policy.default", "policies.opt_out",
                    "policies.contact_policy_hooks", "policies.unknown_question_policy",
                    "policies.unknown_question_policy.overrides", "policies.allowed_claims",
                    "policies.disclosures", "policies.escalation"} -> 8
    [] path[1] \in {"outcome_schema.primary", "outcome_schema.fields"} -> 9
    [] path[1] \in {"completion", "completion.success_rules", "completion.failure_rules",
                    "completion.exit_rules"} -> 10
    [] path = <<"handoff_rules">> -> 11
    [] OTHER -> 13

Priority(q) == Band[q.kind] + (IF q.blocking THEN 0 ELSE 5) + Stage(q.path)

\* QuestionPrioritizer.rank, of the questions kept: by priority, then in the order they were
\* generated.
rank(raw, kept) ==
  LET keys == {<<Priority(raw[i]), i>> : i \in kept}
      before(a, b) == a[1] < b[1] \/ (a[1] = b[1] /\ a[2] < b[2])
      places == {<<a[2], 1 + Cardinality({b \in keys : before(b, a)})>> : a \in keys}
  IN [k \in 1..Cardinality(kept) |-> raw[(CHOOSE p \in places : p[2] = k)[1]]]

\* The first question of every path that was neither answered nor deferred.
all_questions(draft, gaps, conflicts, findings, rows, settled) ==
  LET raw == _structural(draft) \o _from_gaps(gaps) \o _from_contradictions(conflicts)
               \o _from_preflight(findings) \o _from_mapping(rows)
      first(i) == \A j \in 1..(i - 1) : raw[j].path # raw[i].path
  IN rank(raw, {i \in DOMAIN raw : first(i) /\ raw[i].path \notin settled})

\* The stop rule
discovery_complete(questions) == \A i \in DOMAIN questions : ~questions[i].blocking

=============================================================================
