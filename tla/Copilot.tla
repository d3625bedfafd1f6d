------------------------------ MODULE Copilot ------------------------------
(***************************************************************************)
(* One configuration session of the Copilot (copilot/session.py, composer  *)
(* and explainer) behind its routes (copilot/api.py), with the knowledge   *)
(* plane that keeps changing under it: discover, ask, answer, compose,     *)
(* propose, publish.                                                       *)
(*                                                                         *)
(* A route runs to its end without giving the event loop away, and every   *)
(* route but the publication ends with a view: the knowledge is read       *)
(* again and a proposal is made.  An operator answers in words, except     *)
(* where the question offers a choice.                                     *)
(***************************************************************************)
EXTENDS Discovery

CONSTANTS
  Starts,       \* drafts a session may be started from, each with a deployment it meets: the
                \* composition and the registry the platform runs with
  ToolDecls,    \* declarations of the platform's tools
  PackOf,       \* the locale packs, with their languages
  VoiceOf,      \* the voice profiles, with the adapters that have them
  Replies(_),   \* what an operator may answer to the question of a path
  Suggestion(_),\* what the question of a path proposes
  MaxAnswers,   \* bound: questions answered or deferred
  MaxFound      \* bound: gaps and contradictions that are ever open

VARIABLES
  deployment,   \* the composition and the registry
  draft,        \* ConfigSessionState.draft
  decisions,    \* .decisions
  answered,     \* .answered_paths
  deferred,     \* .deferred_paths
  asked,        \* .asked
  known,        \* .gaps and .contradictions, as read by the last view
  knowledge,    \* the gaps and the contradictions of the knowledge plane that are open
  settled,      \* the contradictions that were resolved: they stay resolved, and a gap never is
  view,         \* what the console was shown last
  published     \* what was published: the model stops at the first publication

session == <<draft, decisions, answered, deferred, asked, known>>
vars == <<deployment, session, knowledge, settled, view, published>>

\* The open knowledge: gaps and contradictions.
Open == [gaps : SUBSET Gaps, conflicts : SUBSET Conflicts]

Found(open, closed) ==
  Cardinality(open.gaps) + Cardinality(open.conflicts) + Cardinality(closed)

StatusOf == {"asking", "review", "blocked"}

ReadinessOf == {"DRAFT", "DISCOVERY_IN_PROGRESS", "BLOCKED", "NEEDS_CONFIGURATION",
                "READY_FOR_SIMULATION"}

-----------------------------------------------------------------------------
\* The business sections, with the paths that stand in each.
Sections ==
  [r \in {"objective", "completion", "coverage", "outcome_schema", "policies.unknown_question_policy",
          "policies.allowed_claims", "policies.prohibited_claims", "policies.escalation",
          "policies.opt_out", "policies.contact_policy_hooks", "handoff_rules",
          "data.required", "data.optional", "tools.permissions"} |->
     CASE r = "objective" -> {r, "objective.primary"}
       [] r = "completion" -> {r, "completion.success_rules", "completion.failure_rules",
                               "completion.exit_rules"}
       [] r = "coverage" -> {r, "coverage.questions", "coverage.objections"}
       [] r = "outcome_schema" -> {r, "outcome_schema.primary", "outcome_schema.fields"}
       [] r = "policies.unknown_question_policy" ->
            {r, "policies.unknown_question_policy.default", "policies.unknown_question_policy.overrides"}
       [] OTHER -> {r}]

\* An index does not stand in these sections: "data.required[0]" does not start with "data.required.".
NotIndexed == {"policies.escalation", "handoff_rules", "data.required", "data.optional"}

\* is_business_path, with the section.
InSection(path, r) == path[1] \in Sections[r] /\ (Len(path) = 1 \/ r \notin NotIndexed)

\* _leaf_business_paths: the sections something is said of.
Says(d, r) ==
  CASE r = "objective" -> d.objective # Unset
    [] r = "completion" -> \/ d.success # <<>> \/ d.failure # <<>> \/ d.exit # <<>>
                           \/ d.completion # "fine"
    [] r = "coverage" -> d.questions # <<>> \/ d.objections # <<>>
    [] r = "outcome_schema" -> d.outcomes # {} \/ d.fields # <<>>
    [] r = "policies.unknown_question_policy" -> d.default # Unset \/ d.unknown # "fine"
    [] r = "policies.allowed_claims" -> d.allowed # {}
    [] r = "policies.prohibited_claims" -> d.prohibited # {}
    [] r = "policies.escalation" -> d.escalation # <<>>
    [] r = "policies.opt_out" -> d.opt_out
    [] r = "policies.contact_policy_hooks" -> d.hooks # {}
    [] r = "handoff_rules" -> d.handoffs # <<>>
    [] r = "data.required" -> d.required # <<>>
    [] r = "data.optional" -> d.optional # <<>>
    [] r = "tools.permissions" -> d.permissions # {}

\* _record: one decision for each path, the last one; what an operator answers or accepts is
\* approved by it.
_record(ds, path, by) ==
  {d \in ds : d.path # path} \cup {[path |-> path, by |-> by, approved |-> TRUE]}

\* A text gives way to the section a later answer is written into.
Mended(shape) == IF shape = "text" THEN "fine" ELSE shape

WriteDefault(d, v) == [d EXCEPT !.default = v, !.unknown = Mended(@)]
WriteRules(d, v) == [d EXCEPT !.success = v, !.completion = Mended(@)]

\* What an answer makes of a draft at any other path: words take the
\* place of a whole section, a path with an index is a key the schema does not know, and what it
\* does not know elsewhere nothing takes out again.
Misplace(d, path) ==
  CASE path = <<"completion">> ->
         [d EXCEPT !.success = <<>>, !.failure = <<>>, !.exit = <<>>, !.completion = "text"]
    [] path = <<"policies.unknown_question_policy">> ->
         [d EXCEPT !.default = Unset, !.overrides = <<>>, !.unknown = "text"]
    [] Len(path) = 2 /\ path[1] \in Sections["completion"] -> [d EXCEPT !.completion = "extra"]
    [] Len(path) = 2 /\ path[1] \in Sections["policies.unknown_question_policy"] ->
         [d EXCEPT !.unknown = "extra"]
    [] OTHER -> [d EXCEPT !.spoiled = TRUE]

\* apply writes the answer where its question points to; a locale takes the place of the pack and
\* the voice, and words take the place of the section they answer for.
Write(d, path, v) ==
  CASE path = <<"objective.primary">> -> [d EXCEPT !.objective = v]
    [] path = <<"direction">> -> [d EXCEPT !.direction = v]
    [] path = <<"channels">> -> [d EXCEPT !.channels = v]
    [] path = <<"locale">> -> [d EXCEPT !.language = v, !.pack = Unset, !.voice = Unset]
    [] path = <<"locale.locale_pack_ref">> -> [d EXCEPT !.pack = v]
    [] path = <<"locale.voice_profile_ref">> -> [d EXCEPT !.voice = v]
    [] path = <<"policies.contact_policy_hooks">> ->
         [d EXCEPT !.hooks = {[consent |-> TRUE, window |-> TRUE]}]
    [] path = <<"data.required">> -> [d EXCEPT !.required = v]
    [] path = <<"knowledge.sources">> -> [d EXCEPT !.sources = v]
    [] path = <<"policies.unknown_question_policy.default">> -> WriteDefault(d, v)
    [] path = <<"policies.opt_out">> -> [d EXCEPT !.opt_out = TRUE]
    [] path = <<"outcome_schema.primary">> -> [d EXCEPT !.outcomes = v]
    [] path = <<"completion.success_rules">> -> WriteRules(d, v)
    [] path = <<"handoff_rules">> ->
         [d EXCEPT !.handoffs = <<[destination |-> TRUE, context |-> {}]>>]
    [] path = <<"coverage.objections">> -> [d EXCEPT !.objections = <<"ASK_OWNER">>]
    [] OTHER -> Misplace(d, path)

\* Answers to these are only recorded: the knowledge plane resolves them.
Recorded(path) == path[1] \in {"knowledge.gaps", "knowledge.contradictions", "capabilities"}

\* The paths where the answer itself is written, and those with a proposal.
Written ==
  {<<"objective.primary">>, <<"direction">>, <<"channels">>, <<"locale">>,
   <<"locale.locale_pack_ref">>, <<"locale.voice_profile_ref">>, <<"data.required">>,
   <<"knowledge.sources">>, <<"policies.unknown_question_policy.default">>,
   <<"outcome_schema.primary">>, <<"completion.success_rules">>}

Proposed ==
  {<<"channels">>, <<"locale">>, <<"policies.unknown_question_policy.default">>,
   <<"policies.opt_out">>, <<"outcome_schema.primary">>}

\* The platform is finite; what apply makes of a reply has the type of its field, a choice being
\* answered with one of its options.
ASSUME CopilotAssumption ==
  /\ IsFiniteSet(ToolNames) /\ IsFiniteSet(Gaps) /\ IsFiniteSet(Conflicts)
  /\ \A s \in Starts : s.draft \in Drafts
  /\ \A path \in Written : \A v \in Replies(path) : Write(EmptyDraft, path, v) \in Drafts
  /\ \A path \in Proposed : Write(EmptyDraft, path, Suggestion(path)) \in Drafts
  /\ MaxAnswers \in Nat /\ MaxFound \in Nat

\* What scaffolding adds to the policies of a draft, and leaves in it: the uncertainty policy takes
\* the default of the unknown questions, once.
Scaffold(d) ==
  IF d.default # Unset /\ d.uncertainty = Unset THEN [d EXCEPT !.uncertainty = d.default] ELSE d

-----------------------------------------------------------------------------
\* What the Copilot's preflight consults: not the tenant, not the contradictions, and an unverified
\* capability only warns.
CopilotContext ==
  [composition |-> deployment.composition, registry |-> deployment.registry, tenants |-> {},
   decls |-> ToolDecls, packs |-> PackOf, voices |-> VoiceOf, conflicts |-> {}, rejected |-> {},
   strict |-> FALSE]

\* readiness_findings: the ones that block.
Risks(d, conflicts) ==
  {r \in {"compliance", "data_integrity", "escalation"} :
     CASE r = "compliance" -> CallsOut(d) /\ d.hooks = {}
       [] r = "data_integrity" -> conflicts # {}
       [] OTHER -> d.default = "OFFER_HUMAN_HANDOFF" /\ d.handoffs = <<>>}

Unapproved(ds) == {d \in ds : ~d.approved}

\* The tools whose confirmation an approved decision waives: no question asks for one.
Waived(ds) == {t \in ToolNames : \E d \in ds : d.path = <<"tools.permissions", t, "confirmation">>}

\* What a proposal shows: its status, the readiness that goes with it, and what it rests on.
Shown(d, ds, open, valid, questions, findings, rows) ==
  LET status == IF ~valid \/ ~discovery_complete(questions) THEN "asking"
                ELSE IF Blocked(findings) \/ Risks(d, open.conflicts) # {} THEN "blocked"
                ELSE "review"
      readiness == CASE status = "asking" ->
                          IF d = EmptyDraft THEN "DRAFT" ELSE "DISCOVERY_IN_PROGRESS"
                     [] status = "blocked" -> "BLOCKED"
                     [] OTHER -> IF Unapproved(ds) = {} /\ findings = <<>> THEN "READY_FOR_SIMULATION"
                                 ELSE "NEEDS_CONFIGURATION"
  IN [status |-> status, readiness |-> readiness, valid |-> valid, questions |-> questions,
      findings |-> ToSet(findings),
      requirements |-> {r \in ToSet(rows) : r.action # "SUPPORTED"}]

\* propose, of a draft, the decisions, the knowledge and the paths that are settled: the findings
\* and rows of a valid draft, and the questions they raise.
Propose(d, ds, open, done) ==
  LET valid == Valid(d)
      with(findings, rows) ==
        Shown(d, ds, open, valid,
              all_questions(d, open.gaps, open.conflicts, findings, rows, done), findings, rows)
  IN with(IF valid THEN Findings(d, CopilotContext, Unapproved(ds), Waived(ds)) ELSE <<>>,
          IF valid THEN map_requirements(deployment.registry, deployment.composition, d) ELSE <<>>)

BlockedBy(findings) == \E f \in findings : f.severity = "BLOCK"

\* _view: read the knowledge again, propose, and show the proposal.
View ==
  /\ known' = knowledge
  /\ view' = Propose(draft', decisions', knowledge, answered' \cup deferred')
  /\ asked' = asked \cup ToSet(view'.questions)

TypeOK ==
  /\ draft \in Drafts
  /\ \A d \in decisions : d.by \in {"operator", "copilot"} /\ d.approved \in BOOLEAN
  /\ known \in Open /\ knowledge \in Open /\ settled \subseteq Conflicts
  /\ view.status \in StatusOf /\ view.readiness \in ReadinessOf /\ view.valid \in BOOLEAN
  /\ ToSet(view.questions) \subseteq asked
  /\ Len(published) <= 1

\* Starting a session: seed_draft approves what an uploaded draft says in the operator's name.
Init ==
  /\ \E s \in Starts : deployment = s.deployment /\ draft = Scaffold(s.draft)
  /\ decisions = {[path |-> <<r>>, by |-> "operator", approved |-> TRUE] :
                    r \in {r \in DOMAIN Sections : Says(draft, r)}}
  /\ answered = {} /\ deferred = {}
  /\ knowledge \in {k \in Open : Found(k, {}) <= MaxFound} /\ settled = {}
  /\ known = knowledge
  /\ view = Propose(draft, decisions, known, {})
  /\ asked = ToSet(view.questions)
  /\ published = <<>>

Apply(path, v) ==
  IF Recorded(path) THEN draft' = draft ELSE draft' = Scaffold(Write(draft, path, v))

\* Fault seeded below: only the sections themselves count as business, not what stands in them.
X_Decides(path) == Recorded(path) \/ \E r \in DOMAIN Sections : path = <<r>>

Decides(path) == Recorded(path) \/ \E r \in DOMAIN Sections : InSection(path, r)

\* Bound: paths answered or deferred.
Room(path) == path \in answered \cup deferred \/ Cardinality(answered \cup deferred) < MaxAnswers

Answer(q, v) ==
  /\ published = <<>> /\ q \in asked /\ Room(q.path)
  /\ Apply(q.path, v)
  /\ decisions' = IF Decides(q.path) THEN _record(decisions, q.path, "operator") ELSE decisions
  /\ answered' = answered \cup {q.path}
  /\ UNCHANGED <<deployment, deferred, knowledge, settled, published>>
  /\ View

\* An accepted proposal is a decision of the Copilot that the operator approved.
Accept(q) ==
  /\ published = <<>> /\ q \in asked /\ q.proposal /\ Room(q.path)
  /\ Apply(q.path, Suggestion(q.path))
  /\ decisions' = _record(decisions, q.path, "copilot")
  /\ answered' = answered \cup {q.path}
  /\ UNCHANGED <<deployment, deferred, knowledge, settled, published>>
  /\ View

\* Fault seeded below: any question can be deferred.
X_Defer(q) ==
  /\ published = <<>> /\ q \in asked /\ Room(q.path)
  /\ deferred' = deferred \cup {q.path}
  /\ UNCHANGED <<deployment, draft, decisions, answered, knowledge, settled, published>>
  /\ View

\* A blocking question cannot be deferred.
Defer(q) ==
  /\ published = <<>> /\ q \in asked /\ ~q.blocking /\ Room(q.path)
  /\ deferred' = deferred \cup {q.path}
  /\ UNCHANGED <<deployment, draft, decisions, answered, knowledge, settled, published>>
  /\ View

\* get_session, and approve_decision: the decisions an operator made are approved already.
Look ==
  /\ UNCHANGED <<deployment, draft, decisions, answered, deferred, knowledge, settled, published>>
  /\ View

\* publish proposes again, with the knowledge of the last view.
Publish ==
  LET p == Propose(draft, decisions, known, answered \cup deferred)
  IN /\ published = <<>>
     /\ p.valid /\ Unapproved(decisions) = {} /\ discovery_complete(p.questions)
     /\ published' = <<[blueprint |-> draft, findings |-> p.findings]>>
     /\ asked' = asked \cup ToSet(p.questions)
     /\ UNCHANGED <<deployment, draft, decisions, answered, deferred, known, knowledge, settled, view>>

\* The knowledge plane finds a gap or a contradiction while it takes a source in.
KnowledgeOpens ==
  /\ Found(knowledge, settled) < MaxFound
  /\ \/ \E g \in Gaps \ knowledge.gaps : knowledge' = [knowledge EXCEPT !.gaps = @ \cup {g}]
     \/ \E c \in Conflicts \ (knowledge.conflicts \cup settled) :
          knowledge' = [knowledge EXCEPT !.conflicts = @ \cup {c}]
  /\ UNCHANGED <<deployment, session, settled, view, published>>

\* An operator resolves a contradiction.
KnowledgeSettles ==
  \E c \in knowledge.conflicts :
    /\ knowledge' = [knowledge EXCEPT !.conflicts = @ \ {c}]
    /\ settled' = settled \cup {c}
    /\ UNCHANGED <<deployment, session, view, published>>

Next ==
  \/ \E q \in asked : (\E v \in Replies(q.path) : Answer(q, v)) \/ Accept(q) \/ Defer(q)
  \/ Look \/ Publish \/ KnowledgeOpens \/ KnowledgeSettles

Spec == Init /\ [][Next]_vars

-----------------------------------------------------------------------------
\* No business truth is invented: whatever a draft says in a business section stands under a
\* decision that an operator approved, whoever proposed it and in whatever order it was answered.
NothingInvented ==
  \A r \in DOMAIN Sections : Says(draft, r) =>
    \E d \in decisions : d.approved /\ InSection(d.path, r)

\* The holes an operator has to fill, told without the questions.
Holes(d) ==
  {p \in {<<"data.required">>, <<"knowledge.sources">>, <<"completion.success_rules">>,
          <<"handoff_rules">>, <<"policies.contact_policy_hooks">>} :
     CASE p = <<"data.required">> -> d.required = <<>>
       [] p = <<"knowledge.sources">> -> d.sources = {}
       [] p = <<"completion.success_rules">> -> d.success = <<>>
       [] p = <<"handoff_rules">> -> d.default = "OFFER_HUMAN_HANDOFF" /\ d.handoffs = <<>>
       [] OTHER -> CallsOut(d) /\ d.hooks = {}}

\* What is published is a blueprint of the schema, and every hole it still has was left there by an
\* operator who answered its question: deferring or ignoring one never publishes it.
PublishedIsWhole ==
  \A i \in DOMAIN published :
    LET bp == published[i].blueprint
    IN /\ Valid(bp)
       /\ Holes(bp) \subseteq answered

\* READY_FOR_SIMULATION is said of a draft only when no requirement is unsupported, needs a tool,
\* knowledge or a person, unless the operator answered the question about it.
ReadyIsSupported ==
  LET about(row) == IF row.action = "REQUIRES_HUMAN" THEN <<"handoff_rules">>
                    ELSE <<"capabilities", row.cap>>
  IN view.readiness = "READY_FOR_SIMULATION" =>
       \A row \in view.requirements :
         Blocks(row) /\ row.action # "UNVERIFIED" => about(row) \in answered

\* All the evidence a session of this blueprint could gather.
BestCase(bp) ==
  [recorded |-> NamesOf(bp), kind |-> [n \in FieldNames |-> KindIn(bp, n)],
   accepted |-> Permitted(bp), raised |-> FlagNames, true |-> NamesOf(bp)]

\* The rules the preflight reads as the rules adapter does: without an outcome after "=>", without
\* a range, which the preflight matches by one of its fields, and comparing a field with a literal
\* of its kind, which the preflight does not look at.
ReadAlike(bp, rule) ==
  /\ rule.target = {}
  /\ \A a \in ToSet(rule.atoms) :
       /\ a.form # "range"
       /\ a.form = "compare" => \A n \in a.names : a.literal \in Comparable(KindIn(bp, n))

\* What the preflight lets through can complete: the rules adapter finds each success rule, and each
\* exit rule without its outcome, true of the best session, whatever the answers made of the draft.
ReadyRulesCanHold ==
  LET holds(rule) == ReadAlike(draft, rule) => Evaluate(rule, BestCase(draft)) = "TRUE"
  IN view.valid /\ ~BlockedBy(view.findings) =>
       /\ \A i \in DOMAIN draft.success : holds(draft.success[i])
       /\ \A i \in DOMAIN draft.exit : holds(_split_exit(draft.exit[i]))

\* Fault seeded below: the preflight of the control plane is not told of the contradictions.
X_StoreContext(bp) ==
  [CopilotContext EXCEPT
     !.decls = {d \in ToolDecls : d.tool \notin Permitted(bp)}
                 \cup {p \in bp.permissions : \E d \in ToolDecls : d.tool = p.tool}]

\* What the preflight of the control plane consults: the declarations take over the permissions of
\* the blueprint (declarations_for_blueprint_permissions), and the contradictions count.
StoreContext(bp) ==
  [CopilotContext EXCEPT
     !.decls = {d \in ToolDecls : d.tool \notin Permitted(bp)}
                 \cup {p \in bp.permissions : \E d \in ToolDecls : d.tool = p.tool},
     !.conflicts = knowledge.conflicts]

BlockedByStore(bp) ==
  Blocked(Findings(bp, StoreContext(bp), Unapproved(decisions), Waived(decisions)))

\* The Copilot publishes what its own preflight blocks, when the question was answered, and with
\* contradictions it does not know of or that were only answered: the gates of the control plane
\* catch each of these.
PublicationIsGated ==
  [][(published' # published /\ (BlockedBy(published'[1].findings) \/ knowledge.conflicts # {})) =>
       BlockedByStore(published'[1].blueprint)]_vars

\* Once discovery is complete the Copilot asks again only for a cause: an answer, or knowledge that
\* opened since.
AsksAgainForCause ==
  [][(view.status # "asking" /\ view'.status = "asking") =>
        \/ draft' # draft \/ answered' # answered
        \/ \E g \in known'.gaps \ known.gaps : BlockingGap(g)
        \/ known'.conflicts \ known.conflicts # {}]_vars

=============================================================================
