---------------------------- MODULE ControlPlane ----------------------------
(***************************************************************************)
(* The control plane around one activity key (runtime/store.py and the     *)
(* routes of runtime/app.py): the version stored under the key, its        *)
(* preflight and simulation reports, the gates of its activation, and the  *)
(* tenant's knowledge, whose open contradictions the preflight reports.    *)
(*                                                                         *)
(* Every route runs to its end without giving the event loop away, except  *)
(* the simulation, which drives a whole session and applies its report to  *)
(* the record it looked up before.  What the checks of the preflight find  *)
(* in a blueprint by itself is a constant of the blueprint.                *)
(***************************************************************************)
EXTENDS ReadinessMachine, Knowledge

CONSTANTS
  Blueprints,   \* what may be stored under the key
  Flaws,        \* what the preflight finds wrong in each of them by itself
  Declared,     \* the readiness each one declares
  NoBlueprint,  \* nothing is stored yet
  MaxPuts       \* bound: versions stored

FlawKinds ==
  {"configuration",  \* a finding that needs a change of the blueprint
   "information",    \* required knowledge missing, or an open coverage item that gates
   "decision",       \* a business decision nobody approved
   "capability"}     \* a provider capability that is not verified

ASSUME ControlAssumption ==
  /\ Flaws \in [Blueprints -> SUBSET FlawKinds]
  /\ Declared \in [Blueprints -> ReadinessStates]
  /\ NoBlueprint \notin Blueprints
  /\ MaxPuts \in Nat

VARIABLES
  activity,         \* the record under the key
  tenant,           \* does the tenant enable the provider of the composition?
  simulating,       \* versions whose simulation is running (bound: one each)
  preflightsReady,  \* versions a preflight found READY (history since the last one stored)
  simsPassed        \* versions that passed a simulation (history since then)

control == <<activity, tenant, simulating, preflightsReady, simsPassed>>
vars == <<control, knowledge>>

Versions == 0..MaxPuts

\* The version counts what was stored under the key; 0 is nothing.
ActivityRecords ==
  [version : Versions, blueprint : Blueprints \cup {NoBlueprint}, state : ReadinessStates,
   preflight : {"none", "READY", "BLOCKED"}, simulation : {"none", "passed", "failed"}]

ControlTypeOK ==
  /\ activity \in ActivityRecords
  /\ activity.version > 0 <=> activity.blueprint \in Blueprints
  /\ tenant \in {"none", "enabled", "disabled"}
  /\ simulating \subseteq Versions
  /\ preflightsReady \subseteq Versions
  /\ simsPassed \subseteq Versions

TypeOK == ControlTypeOK /\ KnowledgeTypeOK

Init ==
  /\ activity = [version |-> 0, blueprint |-> NoBlueprint, state |-> "DRAFT",
                 preflight |-> "none", simulation |-> "none"]
  /\ tenant = "none"
  /\ simulating = {} /\ preflightsReady = {} /\ simsPassed = {}
  /\ KnowledgeInit

Stored == activity.version > 0

-----------------------------------------------------------------------------
\* put_activity: a new record whatever the old one was, in the state the blueprint
\* declares; a tenant that is not known is created with the mock provider enabled.
\* The history of the version before is not asked for any more.
PutActivity(b) ==
  /\ activity.version < MaxPuts
  /\ activity' = [version |-> activity.version + 1, blueprint |-> b, state |-> Declared[b],
                  preflight |-> "none", simulation |-> "none"]
  /\ tenant' = IF tenant = "none" THEN "enabled" ELSE tenant
  /\ preflightsReady' = {} /\ simsPassed' = {}
  /\ UNCHANGED <<simulating, knowledge>>

UpsertTenant ==
  /\ tenant' \in {"enabled", "disabled"}
  /\ UNCHANGED <<activity, simulating, preflightsReady, simsPassed, knowledge>>

\* The reasons the preflight blocks for; an unverified capability is one when it is strict.
Reasons(strict) ==
  (Flaws[activity.blueprint] \ (IF strict THEN {} ELSE {"capability"}))
    \cup (IF tenant = "disabled" THEN {"provider"} ELSE {})
    \cup (IF Pending # {} THEN {"conflict"} ELSE {})

\* apply_preflight's choice of a state.
PreflightTarget(reasons) ==
  CASE reasons = {}                                         -> "READY_FOR_SIMULATION"
    [] reasons # {} /\ reasons \subseteq {"information", "decision", "conflict"} -> "NEEDS_INFORMATION"
    [] OTHER                                                -> "BLOCKED"

\* run_preflight: the result is kept also when the lifecycle does not follow it.
RunPreflight(strict) ==
  LET reasons == Reasons(strict) IN
  /\ Stored
  /\ activity' = [activity EXCEPT !.preflight = IF reasons = {} THEN "READY" ELSE "BLOCKED",
                                  !.state = AfterPreflight(@, PreflightTarget(reasons))]
  /\ preflightsReady' = IF reasons = {} THEN preflightsReady \cup {activity.version}
                        ELSE preflightsReady
  /\ UNCHANGED <<tenant, simulating, simsPassed, knowledge>>

\* run_simulation, up to the runner ...
StartSimulation ==
  /\ Stored
  /\ activity.version \notin simulating
  /\ simulating' = simulating \cup {activity.version}
  /\ UNCHANGED <<activity, tenant, preflightsReady, simsPassed, knowledge>>

SimulationKept(passed) ==
  activity' = [activity EXCEPT !.simulation = IF passed THEN "passed" ELSE "failed",
                               !.state = AfterSimulation(@, passed)]

\* Fault seeded below: the record is looked up again after the runner.
FinishSimulation_LooksUpAgain(v, passed) ==
  /\ v \in simulating
  /\ simulating' = simulating \ {v}
  /\ simsPassed' = IF passed THEN simsPassed \cup {v} ELSE simsPassed
  /\ SimulationKept(passed)
  /\ UNCHANGED <<tenant, preflightsReady, knowledge>>

\* ... and after it: the report is kept on the record the call began with, which the
\* key may not hold any more.
FinishSimulation(v, passed) ==
  /\ v \in simulating
  /\ simulating' = simulating \ {v}
  /\ simsPassed' = IF passed THEN simsPassed \cup {v} ELSE simsPassed
  /\ IF v = activity.version THEN SimulationKept(passed) ELSE UNCHANGED activity
  /\ UNCHANGED <<tenant, preflightsReady, knowledge>>

\* activation_gates
GatesMet ==
  /\ activity.preflight = "READY"
  /\ activity.simulation = "passed"
  /\ "decision" \notin Flaws[activity.blueprint]

\* activate: the gates are asked of a first activation, a resumption asks for nothing.
Activate ==
  /\ Stored
  /\ CanTransition(activity.state, "ACTIVE")
  /\ activity.state = "READY_FOR_ACTIVATION" => GatesMet
  /\ activity' = [activity EXCEPT !.state = "ACTIVE"]
  /\ UNCHANGED <<tenant, simulating, preflightsReady, simsPassed, knowledge>>

\* The operator's transition: any row of the table that does not lead to ACTIVE.
Transition(dst) ==
  /\ Stored
  /\ MayMove(activity.state, dst)
  /\ activity' = [activity EXCEPT !.state = dst]
  /\ UNCHANGED <<tenant, simulating, preflightsReady, simsPassed, knowledge>>

Upload(s) == Ingest(s) /\ UNCHANGED control
Approve(i) == ApproveFact(i) /\ UNCHANGED control
Resolve(c, winner) == ResolveContradiction(c, winner) /\ UNCHANGED control

Next ==
  \/ \E b \in Blueprints : PutActivity(b)
  \/ UpsertTenant
  \/ \E strict \in BOOLEAN : RunPreflight(strict)
  \/ StartSimulation
  \/ \E v \in simulating, passed \in BOOLEAN : FinishSimulation(v, passed)
  \/ Activate
  \/ \E dst \in ReadinessStates : Transition(dst)
  \/ \E s \in Sources : Upload(s)
  \/ \E i \in DOMAIN facts : Approve(i)
  \/ \E c \in DOMAIN conflicts : \E i \in conflicts[c].ids : Resolve(c, i)

Spec == Init /\ [][Next]_vars

-----------------------------------------------------------------------------
(***************************************************************************)
(* Properties                                                              *)
(***************************************************************************)

\* States of an approved version; a blueprint may be stored in one of them.
InService == {"ACTIVE", "SUSPENDED"}

\* A version that was not stored as approved is in service only with a preflight found
\* READY, a simulation passed by this very version, and every decision approved
\* (QV-LIFE-002), whatever was stored, simulated or moved by hand in the meantime.
ActiveWasProven ==
  activity.state \in InService /\ Declared[activity.blueprint] \notin InService =>
    /\ activity.version \in preflightsReady
    /\ activity.version \in simsPassed
    /\ "decision" \notin Flaws[activity.blueprint]

\* No check and no late report takes an approved version back into preparation, and a
\* retired one stays retired (QV-LIFE-004): only storing another version does.
ApprovedStaysApproved ==
  [][ activity'.version = activity.version =>
        /\ activity.state \in InService => activity'.state \in InService \cup {"RETIRED"}
        /\ activity.state = "RETIRED" => activity'.state = "RETIRED" ]_vars

=============================================================================
