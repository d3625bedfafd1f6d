# QEVION: a verification project in TLA+

QEVION runs spoken business conversations. A browser (or a phone leg) sends
audio over a WebSocket; a *session* passes it to a realtime speech provider and
executes the tool calls the provider's model asks for; an *activity* (a
blueprint) says which fields to collect, which tools may be called, when to
confirm and when the task counts as done. A control plane drafts, checks,
simulates and activates activities. This directory holds TLA+ models of that
program, TLC configurations, and proofs checked by TLAPS. Everything is
translated from the code under `src/qevion` and `src/web/src`; `PROJECT.json`
names for every definition the lines it stands for.

## 1. The system

| Part | State it keeps | Operations | Talks to | What is hard |
|---|---|---|---|---|
| `core/session.py` `Session` | dialog state, current and audible response, interruptions, turn number, pending confirmation, tool tasks, `_closed` | three pumps (provider, client, audio out) and the socket reader, `interrupt`, `run_tool`, `_await_confirmation`, `close`, `run` | provider, transport, pipeline, stores, sinks | every `await` lets another pump run; values read before it are used after it |
| `core/dialog_machine.py`, `core/activity_machine.py` | one state each | `can`, `fire`, `fire_if_possible` | session | a trigger with no row is dropped, the caller goes on |
| `core/tool_pipeline.py`, `core/platform_tools.py` | deduplication memory, budgets | eleven steps from permission to provenance | backend, session | check and charge on both sides of a confirmation and of a backend call |
| `core/field_store.py` | value, provenance per field | `record`, `verify`, `reject`, readiness reads | pipeline, session | corrections against verification |
| `core/outcome_engine.py` | none | completion rules, the interaction record | session | reads facts that are still moving |
| `adapters/providers/openai_realtime.py` | two event queues, the response in progress | requests, event translation | provider, session | cancellation names no response; audio and events are separate queues |
| `web/src/audio/client.ts` | what is playing | play, stop, playout reports | session | reports may be late or missing |
| `control/readiness.py`, `contracts/control.py` | readiness state, preflight, simulation, gates | preflight, simulation, activation, suspension, retirement | store | verdicts outlive the blueprint they were given for |
| `adapters/turn/*` | the turn so far: speech, silence, flags, a held turn, a sample buffer | `process` one audio frame | session | thresholds against frame lengths, what is forgotten at the end of a turn |
| `control/contact_policy.py` | none | window, quota, consent, suppression checks | store | activities with different limits share the contacts |
| `runtime/store.py` | activities, records, sessions, event log, outbound attempts | what the routes call | everything | `await` between a read of a record and its update |
| `runtime/app.py` | one transport per socket with its inbound queue, one task per session | routes, `WsTransport`, `_pump` | store, session | bounded queue, heartbeat, teardown order |
| `knowledge/pipeline.py` | items, contradictions | ingest, review, retrieve | preflight, tools | contradictory facts approved in any order |
| `control/preflight.py`, `control/capabilities.py` | none | checks of a blueprint, requirements against what the adapters declare | store, Copilot | two readings of one rule: the check before and the evaluation while the session runs |
| `copilot/*` | draft, decisions, questions answered, deferred and asked, knowledge as last read | discover, answer, accept, defer, approve, propose, publish | preflight, knowledge, store | an answer silences its question for good; knowledge changes between a view and the publication |
| `admin/credentials.py` | stored keys | resolve, mint | app | order of sources, expiry |
| `simulation/` | a scripted customer, a scripted provider, results | run each case on a real session, grade it, report | core, activation gate | customer and session run at the same time; a verdict joins two event streams |
| `eval/`, `replay/` | results and logs | compare models over a corpus, replay logs | core | harness code |
| `runtime/auth.py` | none | whose token a request presents, what it may reach | app | three places a token may be in |
| `adapters/decision`, `core/context.py`, `core/governance.py`, `core/instruction_composer.py` | small local data | text classification and composition | session | text, no concurrency |

Interaction happens in one process and one event loop. A route runs to its end
unless it awaits; the pumps of a session are coroutines that share the session
object; the provider, the browser, the tool backends and the sinks are reached
by awaits that may suspend, fail or be cancelled. Nothing is persisted, so there
is no recovery from a crash to model: a restart is an empty store.

What makes each part correct, in one sentence each:

- *turn taking*: after a barge-in the floor is the user's. No response becomes
  current or audible, each response is interrupted once, nothing waits for ever;
- *tools and completion*: nothing is done without the agreement it needs, twice,
  or over budget, and the record says "completed" only of what happened;
- *connection*: the input arrives in order, only audio is lost and that is
  counted, and when the peer is gone everything behind it ends;
- *readiness*: a version goes into service on evidence about that very version
  and leaves it only by an operator's decision;
- *knowledge*: a disagreement between sources is found and an operator decides it;
- *turn detection*: whatever is heard, the events come in the order of turns, and a
  turn ends after its silence, not before and not much later;
- *runtime*: the log forgets from the front only, a running session stays listed, a
  contact is not called beyond a limit, a token reads what is its own;
- *Copilot*: no business truth without an operator, and nothing is published that
  the gates behind it would not catch;
- *simulation*: every simulation ends in a report, and the report that lets a version
  into service is the truth about the sessions it ran.

`PROJECT.json` lists the hazards behind these sentences, each at its line, with
the properties that look for it.

## 2. Modules

The session:

| Module | Models | Correspondence |
|---|---|---|
| `DialogMachine` | `core/dialog_machine.py`, `dialog_fire` of the session | the table as a function, `DialogCan`, `DialogFire` (an illegal trigger keeps the state) |
| `ActivityMachine` | `core/activity_machine.py` | the default table with its common exits, `ValidTable`, `ActivityFire` |
| `TurnTaking` | the pumps of `core/session.py`, `interrupt()`, the adapter's queues, the browser's player | one action for the code between two suspensions; `clientPc` and `providerPc` say at which await a pump is parked, `intr` holds the locals of `interrupt()` |
| `ActivityTools`, `MCActivityTools` | `run_tool`, `tool_pipeline.py`, the platform tools, `field_store.py`, `outcome_engine.py`, confirmation, `close()`, the teardown of `run()` | `toolPc` is the await the provider pump is parked at; a call is its own idempotency key; field values carry a provenance |
| `TurnOrder` | what `handle_turn_event` of the session relies on | an abstract specification: the phase of the user's turn and the events of one frame |
| `TurnDetector` | `adapters/turn/energy.py`, `silero.py`, `smart_turn.py` | `kind` is the adapter; one action is one `process(frame)`, with the windows a frame completes and what the wrapper does to the events of the inner detector |

The control plane:

| Module | Models | Correspondence |
|---|---|---|
| `ReadinessMachine` | `control/readiness.py`, the table of `contracts/control.py` | operators from a state to a state; the search of `_path_to` is its set of visited states |
| `Knowledge` | `knowledge/pipeline.py` | facts and contradictions are sequences in the order of the dictionaries; `Ingest` is the whole of `ingest_parsed` |
| `ControlPlane`, `MCControlPlane` | the activities of `runtime/store.py` and their routes, the verdict of the preflight | one record under one key; `run_simulation` is two actions, split at its await |
| `Rules` | the rule language of `contracts/activity.py`, `adapters/decision/rules.py` | a rule is the sequence of its atoms with the outcome after it: what each names, and how the adapter reads it of the evidence (true, false, unknown, or an exception) |
| `Blueprint` | `contracts/activity.py`, `contracts/policy.py` | a draft has the sections of a blueprint, reduced to what some check tells apart; `Valid` is the schema with its validators |
| `Capabilities` | `control/capabilities.py` | requirements of a blueprint, resolved against what a composition declares |
| `Preflight` | `control/preflight.py` | one operator for each check; `Findings` is the report, `Verdict` its classes |
| `Discovery` | `copilot/discovery.py` | one operator for each source of questions, `all_questions` with the rule that keeps one for each path, `rank` by priority and position |
| `Copilot`, `MCCopilot` | `copilot/session.py`, `composer.py`, `explainer.py`, `api.py` | `Answer`, `Accept`, `Defer` each with the view that ends the route; `Publish` proposes again with the knowledge of the last view |
| `Scenarios` | `simulation/cases.py`, the reading of a case by `runner.py` | the default cases as records: turns, script, persona |
| `Simulation`, `MCSimulation` | `simulation/runner.py`, `customer.py`, the scripted provider of `adapters/providers/mocks.py`, the session between them | customer, client pump and provider pump are processes; graders and `build_report` are operators on the log of a case |

The runtime:

| Module | Models | Correspondence |
|---|---|---|
| `Connection` | `WsTransport`, `_pump`, `_run_guarded` of `runtime/app.py`, `start`, `run`, `close` of the session | receive loop, heartbeat, reader, client pump, run task and close task |
| `Selection` | the list comprehensions of `runtime/store.py` and `knowledge/pipeline.py` | `Only(s, S)`: the elements of `s` that are in `S`, in their order |
| `EventHistory` | the promise of the event log in `RuntimeStore.__init__` | an abstract specification: all events, and the offset of the oldest that is known |
| `Access` | `runtime/auth.py` | a request is where it presents what, `Verdict` what the guard makes of it |
| `Contacts` | `control/contact_policy.py` | `evaluate_contact` as a set of refusals |
| `Credentials` | `admin/credentials.py` | `resolve` over the scopes and names in the order of the code |
| `Runtime`, `MCRuntime` | `runtime/store.py` without the activities, and its routes; `adapters/telephony/simulated.py` | one action for each operation, none of which suspends; live sessions are a registry, a record and a task |

The modules named `*Proofs` hold the theorems (section 4): `TurnTakingProofs`,
`ActivityToolsProofs`, `TurnDetectorProofs`, `ControlPlaneProofs`, `CopilotProofs`,
`SimulationProofs`, `ConnectionProofs`, `RuntimeProofs`. `TurnTaking` and
`Simulation` extend `DialogMachine`, `ActivityTools` extends `ActivityMachine`,
`ControlPlane` composes `ReadinessMachine` with `Knowledge`: the preflight reads
the pending contradictions of the tenant. `Runtime` composes `Access`,
`Contacts` and `Credentials`. The chain `Rules`, `Blueprint`, `Capabilities`,
`Preflight`, `Discovery`, `Copilot` follows a draft from its schema to its
publication, where it is checked as the control plane will check it
(`PublicationIsGated`). In `ControlPlane` the findings of a blueprint are a
constant of it, in `Copilot` they are computed.

`TurnTaking` and `ActivityTools` are two views of one session, split along the
state they share least: what a tool does is left out of the first (a call is an
action with a confirmation or without), and how a response is spoken is left out
of the second. `Connection` looks at a session from the outside: handlers are
busy for any time and may hang or raise. `Simulation` has the part of a session
that a text customer and a scripted provider reach, with both of them.

Two refinements tie detailed specifications to abstract ones: `Runtime`
implements `EventHistory` (`LogIsHistory`: `INSTANCE ... WITH first <-
event_log_base`), so offsets never move although the code drops events from a
list; and `TurnDetector` implements `TurnOrder` (`KeepsOrder`), with the phase
of the turn read off the flags of the detector.

Two conventions hold everywhere. An await is an action boundary only if it can
suspend: `emit` suspends only for event types the runtime mirrors to the client
(`FORWARDED_EVENT_TYPES` in `runtime/store.py`), the shipped sinks and the rules
decision adapter never do. And time is nondeterminism: a timeout may fire
whenever the code waits with one, a clock comparison may go either way. The
turn detectors are the exception: they count milliseconds of audio.

Operators named `X_Something` with a comment "Fault seeded below" are plausible
bugs of `X`; nothing uses them. They document what each property detects: with
the body of `X` replaced by that operator TLC finds the property of the same
entry of `mutants` violated.

## 3. What is checked

| Run | Instance, distinct states | Shows |
|---|---|---|
| `turn_taking` | 2 responses, 2 turns, 1 frame, no tools; 746,989 | `InterruptedIsQuiet`, `InterruptedOnce`, `FloorKept`: two responses are the least with which a refused or a late one meets an interruption of another |
| `turn_taking_live` | 2 responses, 1 turn, 1 frame, 1 tool; 649,756 | `PumpsReturn`: a tool with its confirmation, against a barge-in that waits for the browser |
| `activity_tools` | 1 field, 2 values of which one is valid, 3 calls, budget 3 with 2 writes, one exit rule with an outcome of its own, a schema with a label for every end; 4,678,211 | budget, idempotency, confirmation, provenance and completion; three calls reach both limits, and a field, its verification and a confirmed write fit into them |
| `activity_tools_live` | 2 calls, some tools without a backend, `clarify` permitted, the schema the Copilot proposes; 202,889 | `CallReturns`, `ClosedIsRecorded` (the latter where the provider's `close` and the sinks do not raise) |
| `detectors` | frames of 20 and 40 ms, windows of 32 ms in units of 4 ms, the default thresholds; 3,954 | `NotLeftWaiting`, `NotCutOff`, `BurstIsHeard` (of frames that are loud as a whole), the refinement `KeepsOrder`; frames of both lengths may be mixed, so a window holds parts of up to three frames and a frame may complete no window or two; the counters are capped where the code compares them, so no bound on the audio is needed, and deadlock is checked |
| `control_plane` | 2 blueprints, 2 versions, 2 uploads, 3 facts | `ActiveWasProven`, `ApprovedStaysApproved`, `ConflictsDetected`, `UploadsApproveNothing`; two versions are what a late report needs, three facts hold an entity, its relationship and a second source |
| `copilot` | some forty drafts with one thing wrong each, an empty and a clean one, three compositions, 2 answers, one gap or contradiction open or settled; 32,691 | what a draft may say (`NothingInvented`), what is published (`PublishedIsWhole`, `PublicationIsGated`) and what is promised of it (`ReadyIsSupported`, `ReadyRulesCanHold`); a second answer reaches each path that depends on a first one, and the damaged drafts stand for what longer sessions lead to |
| `simulation` | the default cases, and suites with two calls of a confirmed tool, a refused tool and missing personas; a sound core and one that may skip a confirmation; 414,332 | `AnswersOnce`, `VerdictTrue`, `ReportStands`, `SuiteReported`: the customer plays its next turn at any moment, a pump or a session may raise |
| `connection` | queue of 2, 4 items; 562,447 | `ControlInOrder`, `BacklogIsControl`, `NothingLeftBehind`, `StartedIsRecorded`, `HandlerComesBack`; the queue overflows with and without audio in it, and a second time after a first drop |
| `runtime` | 3 sessions, registry of 1, ring of 2 events, 2 tenants, 2 activities, 1 contact, 5 operations; 160,874 | the log with the refinement `LogIsHistory`, the registry, the scope of a token, the attempts, the keys; five operations fill the ring and drop from it, exceed the registry with live and with finished sessions, and reach both limits of the contact; the environment has the key of the decision adapter and none of a provider, so both ways a key is found occur |
| `cancelled_tool` | violation | see below |
| `unrecorded_session` | violation | see below |

Every module states its types in `TypeOK`, and no run repeats what section 4
proves of it: for `TurnTaking`, `ActivityTools`, `TurnDetector`, `ControlPlane`,
`Copilot` and `Connection` it is a theorem, for `Runtime` and `Simulation` a part
of the invariant (`Typed`). One line in a configuration checks it too.

Deadlock is not checked where a session has ended, a handler has returned, a
simulation has its report or a history is at its bound: these really stop.

Two runs show where the code differs from what a document or docstring of the
repository says. Each is an entry of `findings`:

- `cancelled_tool` (`NoToolFromCancelled`): `interrupt()` asks the provider to
  cancel a response and marks its track only after the wait for the playout
  report; a tool call of that response in between is executed.
- `unrecorded_session` (`EverySessionRecorded`): the client goes, the reader hands
  its end on, and `pump_client` closes the session. `run()`, whose task it was
  waiting for is over, finds the session closed, skips its own shielded `close()`
  (`session.py:1085`) and awaits `self._close_task` as it is (1089). The five seconds
  of `app.py:746` cancel `run()` there, and with it the close sequence, in
  `provider.close()` or in another await before the record is built: no record. When
  `run()` itself closes the session (a pump is still busy), the shield keeps the
  sequence alive. `StartedIsRecorded` states what is left: a started session has its
  record unless its close sequence raised or was cut off in this way.

### Fairness

`TurnTaking.FairSpec` assumes that a coroutine whose await is over is resumed
(the event loop), that every await of these handlers ends (each has a timeout in
the code), that the provider pump takes what is queued, and that the provider
starts and finishes what it was asked for. `ActivityTools.FairSpec` assumes the
same of the provider pump, whose waits all have a deadline, and of the close
task and the teardown, which nothing cancels. `Connection.FairSpec` assumes the
event loop, its timers, that a broken or closed socket is reported to
`receive()`, and that the close sequence ends or raises; it assumes nothing of
`start()` and of the handlers, which may hang, nor that the peer ever leaves.
`Simulation` assumes the event loop and the timeouts of a confirmation and of a
playout; the scripted customer and provider are code and run like the rest.
No fairness is assumed of users, peers or the network.

## 4. What is proved

The theorems hold for all values of the constants, under the assumptions the
modules name (`BoundsAreNat`, `ConstantsOK`, `ControlAssumption`,
`KnowledgeAssumption`, `TurnDetectorAssumption`, `LimitsAreNat`, `StoreIsGiven`,
`NoSessionIsNone` and the like), which TLC evaluates in the runs. Bounds are
constants as well, so a theorem covers every finite session of any length.

*`TurnTakingProofs`.* `TypeCorrect`; `InterruptionIsQuiet`
(`[]InterruptedIsQuiet`); `FloorStaysWithUser` (`FloorKept`); `InterruptsOnce`
(`[]InterruptedOnce`). `InterruptedIsQuiet` is not inductive. The strengthening
`Quiet` says who is responsible while the dialog is INTERRUPTED: the client pump
is inside `interrupt()`, or idle or handling a report, and then no response is
current or audible; from the truncation on nothing is audible. Each step leaves
these variables alone, leaves INTERRUPTED, or is one of the places where the code
refuses a response. `InterruptedOnce` speaks of the record of interruptions alone,
which `interrupt()` writes after several suspensions. Its strengthening `Apart`
says two more things. What is on record is cancelled, and current only until the
record is complete; what is being interrupted is not on record yet (`Once`). And
what the provider's queue will still announce is a response the session does not
know, each announced once (`Fresh`), so no interrupted response comes back as a
new one.

*`ActivityToolsProofs`.* `TypeCorrect`; `BudgetHolds`: a call past the check is
the only one in flight, so what the check saw is still true when it is charged
(`Budget`); `CompletesOnce`: a keyed call in flight has no completion and every
completion is remembered (`Once`); `GrantHolds`: a call past the confirmation has
been granted (`Grant`); `ExecutesAgreed` from the same; `VerifiedHolds`, inductive
as it stands (it is about the class of provenance, not about the value);
`CompletedAgreed`: with `accepted` and `recorded` among the success rules, and
under an outcome schema that tells a success from the other ends (`TellsSuccess`),
a completed record stands on a granted write and on complete fields, from an
invariant (`Accepted`) that follows these facts from the execution through the
flags to the record. The condition on the schema is needed: `_pick` records the
first label of the schema when it has none for the end that was met, and an exit
rule records the label it names. Without it the record may say "completed" of a
session that never started its task (section 6).

*`TurnDetectorProofs`.* `TypeCorrect`; `TurnsEnd` (`[]NotLeftWaiting`);
`TurnsEndInSilence` (`NotCutOff`); `DetectorsKeepOrder`: the three detectors
implement `TurnOrder`; `SpeechIsToldOf` and `BurstsAreHeard` (`[]BurstIsHeard`).
The invariant ties what the detector counts to what was heard: inside a turn the
counted silence is the silence since the last voiced frame, between turns nothing
is left over from the last one, and a budget is extended only in the turn whose
candidate was held. The refinement then has one lemma for each way a frame may go,
with the events it emits. That speech is told of follows from a second invariant
(`Waiting`): while a loud frame is missed, no window was completed since, so all
missed frames lie in the buffer, which is shorter than a window. `BurstsAreHeard`
therefore has a hypothesis on the configuration, that two frames make up a window:
20 ms frames (`runtime/app.py:61`) and windows of 32 ms do. With shorter frames a
burst may wait for more of them, and `SpeechIsToldOf` says how many.

*`ConnectionProofs`.* `TypeCorrect`; `ControlArrives` (`[]ControlInOrder`);
`BacklogHolds` (`[]BacklogIsControl`); `NothingOutlives` (`[]NothingLeftBehind`);
`StartedRecorded` (`[]StartedIsRecorded`).
Order and loss follow from an invariant (`Faithful`) on handled items, inbox and
queue as one sequence: taking from one end and putting at the other leaves it
alone, and the drop removes one audio item. That nothing is left behind needs to
know why a run task is over (`WhyOver`): each way it can end has closed the
transport, or is a way the handler started.

*`RuntimeProofs`.* `RingIsHistory` (`LogIsHistory`, the refinement); `LimitHolds`
(`[]AttemptLimitHolds`); `AttemptsStand` (`[]AttemptsAccount`); `PruningHolds`
(`RegistryIsPruned`); `ReadsHold` (`[]ReadsAreOwed`); `ScopesHold`
(`[]ReadsAreScoped`); `KeysInOrder` (`[]KeyComesInOrder`). The ring is shown to be
exactly the end of the history, so the truncation of the list and the count of
what was dropped move together. The limit is inductive only with the account of
the attempts: the count kept for a contact is the number of its calls, so the
check of the policy is a check of the history, and a new attempt changes neither
the history before it nor the sessions of others. The other theorems rest on a
second invariant (`Held`): the registry names each session once, none that was not
built, and every one whose task goes on (`RegistryHolds`); what a session keeps
are events of its tenant (`EventsAreOwn`); and a test key has a key. Reads are
selections from the ring or the registry, so what they return is decided by the
lemmas on `Only`; that pruning takes finished sessions, the oldest first and no
more than the excess, is a count of positions (`FirstOnes`).

*`ControlPlaneProofs`.* `TypeCorrect`; `ActivationIsProven` (`[]ActiveWasProven`);
`ApprovalLasts` (`ApprovedStaysApproved`); `NothingIsApproved`
(`UploadsApproveNothing`); `ConflictsAreFound` (`ConflictsDetected`). The
inductive invariant adds to `ActiveWasProven` that the record holds a blueprint
once something is stored and that its reports are about its version (`Evidence`):
a READY preflight on the record is one of this version, a passed simulation
likewise. That is what the code's choice to keep the late report on the old record
buys; with a second lookup it fails. The lemmas before it say where the readiness
machine can go: the walk of `apply_preflight` never leaves an approved state and
never enters one. For an upload the argument follows the facts: where they go in
the store (`PlacedFacts`), what marking leaves alone (`Marking`), that for each
thing said about a key one fact stands (`OneStands`, the least by the order of the
comparison), so that two different statements make two, which is a conflict
(`TwoConflict`), and that each conflict is on record (`RecordedType`).

*`CopilotProofs`.* `SessionHolds`, `TypeCorrect`, the five properties of the run,
`NothingIsInvented`, `PublishedWhole`, `RulesCanHold`, `ReadySupported` and
`PublicationGated`, and one that no run repeats, `AsksForCause`. None of them is inductive, because what the
operator is shown, asks and publishes is computed from the draft by the whole
chain from `Preflight` to `Discovery`. `SessionInv` says what stays true between
two views: what is shown is of the draft as it stands (`Shows`); every question
ever asked, answered or not, is still what it was when it was asked (`Fact`): one
that does not block is at no hole, or it is about a permission of a tool that is
only read, or about a capability nobody has checked yet; and every decision is
approved (`DecisionsApproved`). The lemmas under it go through the checks one by
one. The findings of a draft are the union of what each check finds
(`FindingsFound`, `PartsOf`), and what the sources of questions make of them is
told by class (`Mixed`, `Lawful`). The questions shown are the first of each path
among the raw ones (`Firsts`), so a path that has a raw question has one shown or
was settled. `PublishedWhole` then says that a hole has a blocking structural
question (`HolesAnswered`), `ReadySupported` the same of a row of the requirements
(`RowsAnswered`), and `PublicationGated` compares two preflights of one draft: the
contexts of Copilot and store differ in the tool declarations and the
contradictions only, so all other findings are the same (`SameElsewhere`), a
finding of a tool is found again (`FoundAgain`) or was caused by a permission
answered for, which the schema refuses. `RulesCanHold` is about the rules the preflight
reads as the rules adapter does (`ReadAlike`); section 6 lists the others.
`CopilotAssumption` asks that the platform
is finite and that what an answer writes has the type of its section, so a choice
is answered with one of its options.

*`SimulationProofs`.* `EveryRequestOnce` (`[]AnswersOnce`), `VerdictsHold`
(`[]VerdictTrue`), `ReportsHold` (`[]ReportStands`), for any cases, suites and
pace of customer and pumps. The invariant follows a call from the script to its
answer: a call is in an event of the provider or it has come, never both
(`MockHolds`); what was asked and answered are calls that have come, each once
(`AskedOnce`), and no more answers are given than the customer has, the one given
in advance included (`Balance`); a grant on its way, or at the gate, is one the
customer gave (`Carried`); the gate is about a call the log does not tell of yet
(`Gate`); and the log, the results and the report tell of what happened
(`LogTells`, `Past`). `ReportsHold` adds sums over the cases of a suite: if no
case may fail, a sum of failures that meets the tolerance is zero in each of its
terms.

Induction over data. The theorems for induction in the library take operators,
which the provers cannot instantiate, and SelectSeq, SortSeq and FoldSeq take
operators too. Where a proof needs such an operator the modules use one it can
reason about: `Only` with a set, `rank` by position, `SumOf` as a recursive
function, `FlattenSeq`, whose recursive function is unfolded in a lemma. The
induction itself is by the least counterexample (`LeastNumber`, `UpTo`): the good
prefixes of a sequence are a set of numbers.

What is only model-checked: liveness (`PumpsReturn`, `CallReturns`,
`ClosedIsRecorded`, `HandlerComesBack`, `SuiteReported`), since fairness and
ENABLED are out of the prover's reach, and the two disagreements of section 3.
Every other property of a run is a theorem. What the theorems do not say: that a
simulation, a call or a session ends; what `Preflight` finds about drafts outside
the schema reduced in `Blueprint`; anything about values that are constants of a
model (scores, times, words). No module that is proved about reaches a RECURSIVE
operator.

## 5. What is not modelled

Signal processing and text: the neural networks behind Silero and Smart Turn
(their score is a choice), parsers, instruction composition, locale packs, claim
checks, the words a rule or a confirmation is recognised by, the wording of
questions, findings and explanations. The wire format of the provider and
connection set-up. Of `eval/` nothing: it runs a corpus through the same
functions and prints tables. Of `replay/` nothing: it runs a session again, and
whether the result is the same depends on wall-clock timeouts. The scripts,
schemas and static files.
`edited`, `suspend`, `retire` and `accepts_new_sessions` of the
readiness machine and `reject` of the field store have no caller in the
runtime; neither have `StructuredRetriever` and `retrieve`. The history of the
readiness machine, gaps and questions of the knowledge pipeline are output only
(`Copilot` takes the open gaps from its environment). The simulation has every
grader on (a case with graders of its own is not modelled). The simulated session
leaves out playout messages, the budget, duplicate keys and the activity machine;
its customer's texts never read as a yes or a no.

## 6. Observed while modelling

Behaviour that the models contain or that was met while reading, and that differs
from a document or that a maintainer may want to look at; no run is spent on it.

Session and tools:

- `record_field` is deduplicated by its arguments (`tool_pipeline.py:178`): value
  A, then B, then A again leaves B; `field_store.py` says that a different value
  is always a correction.
- The call a text answer grants is looked up after two suspensions
  (`session.py:766`; docstring at 753), so a yes to one prompt may grant the next;
  when the prompt has timed out meanwhile the lookup raises `StopIteration` and
  ends the client pump.
- Audio frames and events are separate queues, so a late frame of a response that
  was cut off is forwarded when another response is current; a late
  `barge_in` may be accepted for a response that just ended.
- END_OF_TURN while SPEAKING or WAITING_CONFIRMATION commits a turn although the
  dialog machine has no row for it (`session.py:849`).
- A write whose outcome is unknown after a timeout is not remembered, so the model
  may call it again.
- `verify_field` promotes the value the field holds, which need not be the one
  the backend was asked about (`session.py:488`).
- An outcome the schema has no label for is recorded under the first label
  (`outcome_engine.py:145`). With the schema the Copilot proposes, `[completed,
  not_completed, opted_out, handed_off]` (`discovery.py:305`), that label is
  "completed": so end the sessions that were blocked, abandoned, unanswered or handed
  to a person, and those whose failure rule or plain exit rule was met.
- A text that answers a confirmation starts no turn (`session.py:810`), so a session
  whose user only ever answered in text may be recorded as unanswered.
- The end of a session cancels a backend call in flight; the record does not
  mention it. A hand-off accepted by the sink just before a close is missing too.
- The remote decision adapter waits up to 15 s in a blocking request inside an
  `async` function (`typesafe.py:41`, 115): the event loop, and with it every
  session, stands still. The runtime has one such adapter, and each session built
  replaces its key (`store.py:432`), whatever tenant the others decide for;
  `store.py:164` says a credential is injected per session.

Detectors:

- A candidate is scored once in a turn: a turn held open is not scored again.
- The Silero detectors of all sessions share one model with its recurrent state
  (`silero.py:143`), so sessions hear each other.

Control plane:

- `activate()` asks for the gates only from READY_FOR_ACTIVATION; a suspended
  version whose latest preflight is BLOCKED is resumed (`readiness.py:171`,
  docstring at 168).
- A preflight that is not strict may be READY with unverified capabilities and
  counts for activation; `preflight.py:50` says that these block real activation.
- The preflight of the control plane gets as tool declarations those made from
  the blueprint's own permissions (`store.py:207`), so it cannot find a tool that
  does not exist; its fix hint (`preflight.py:262`) expects otherwise.
- Storing a blueprint replaces an ACTIVE version under the same key, and a
  blueprint may declare itself ACTIVE. `build_session` reads no readiness
  (QV-LIFE-003, QV-LIFE-004).
- The preflight reads a rule otherwise than the run time does. It takes `=> label`
  off every rule (`preflight.py:171`), the outcome engine off exit rules only
  (`outcome_engine.py:123`, 128): a success or failure rule with a label passes and is
  unknown for ever (`rules.py:274`), or false when the label is "accepted". It does
  not look at the literal of a comparison: a number beside a word is unknown
  (`rules.py:257`), and a boolean, a list or a text beside a literal of another kind
  raises, whatever the operator, for all six comparisons are made first (262).
- A range rule passes the preflight when one field of its family exists and asks
  for all of them at run time (`rules.py:243`); bare flags are not checked; a
  bidirectional activity without contact hooks passes the preflight, not the
  discovery.
- `_mark` looks for losers among the facts of the upload only
  (`pipeline.py:312`, 490), so a stored fact that loses by source priority stays
  live.
- Contradictions overlap: an upload that disagrees with both sides of a pending
  one records a second, and each is resolved by itself; `approve_fact` approves a
  superseded fact again, and no contradiction is opened by it.
- A source with a relationship, uploaded again, contradicts itself: the stored
  relationship has the predicate of the attribute and an entity id as its value.
- `resolve_contradiction` raises `ValueError` for a winner outside the
  contradiction; its route catches `KeyError` only.

Copilot:

- An answer to a finding inside a list is written under the name of the index,
  where the schema refuses it; no later answer takes it out, so the draft can
  never be published. A text written in place of `completion` or of the policy for
  unknown questions gives way to a later answer below it, and what the section held
  is lost (`composer.py:54`, 136).
- One question is kept for each path, so a warning hides a blocking finding at the
  same path behind it (`discovery.py:178`); a question that was answered is
  never asked again, so a finding that stays does not stop the publication, nor
  does knowledge opened since the last view. The gates of the control plane catch
  both (`PublicationIsGated`).
- The uncertainty policy keeps the first default of the unknown questions when it
  is answered again; an answer to the locale erases pack and voice; an empty
  answer becomes an empty list and counts as one; decisions of a seeded draft are
  taken as approved, so a session never has an unapproved one; a gap in the
  knowledge is never resolved by the runtime.

Runtime:

- `events_since` takes absolute offsets and its answer carries none: a reader that
  counts what it received loses its place when the ring drops events or a tenant
  filter skips some; with a `session_id` the offset is ignored.
- The registry never evicts a session without a record. The contacts are shared by
  all tenants. A key with a lifetime of 0 gets the default one. Tenant tokens
  shorter than 16 characters are ignored.
- The bounded inbound queue is drained by the reader into an unbounded inbox of
  the session, so the bound takes effect only before the pumps start.

Simulation:

- The graders for invented claims, unknown questions and the budget read a log
  that is always empty and cannot fail; `assistant_claim_type` has no reader.
- A turn that says nothing uses up no step of the script while the script has one
  for it, so later turns get the replies of earlier ones (`runner.py:111`);
  `opt_out_turn_index` counts all turns, `_turn_seq` those that started a turn;
  the default opt-out case has no write after the opt-out.
- An exception in a pump ends the session as `pump_finished`, so the case is graded
  as if it had run to its end (`runner.py:178` says a crash is a failed case); a crash that is
  seen fails a completion grader only, and with a rate of 0.9 a report may pass
  with it.
- A request whose confirmation expired stays pending for the customer, so its
  answer goes to the dead call.
- The settling of the customer counts scheduler rounds; `player.py:154` expects
  two runs to be the same although timeouts are on the wall clock.

## 7. What is left

1. An abstract session (who has the floor, what was agreed, what was recorded)
   that `TurnTaking` and `ActivityTools` both implement.
2. What resolutions do to contradictions that overlap: which statements can be
   live and approved side by side after a history of uploads and decisions.
3. The provider adapter beyond its queues: reconnection and the errors of the
   wire; the focus stack and the objectives of `core/context.py`.
4. Readers of the event log as processes, when a reader is told its offset.
