-------------------------- MODULE ReadinessMachine --------------------------
(***************************************************************************)
(* The readiness lifecycle of an activity version (control/readiness.py),  *)
(* with the transition table of contracts/control.py.  The machine keeps   *)
(* one state; the operators below say what its methods make of it.         *)
(***************************************************************************)
EXTENDS Naturals

ReadinessStates ==
  {"DRAFT", "DISCOVERY_IN_PROGRESS", "NEEDS_INFORMATION", "NEEDS_CONFIGURATION", "BLOCKED",
   "READY_FOR_SIMULATION", "SIMULATION_FAILED", "READY_FOR_ACTIVATION", "ACTIVE",
   "SUSPENDED", "RETIRED"}

\* READINESS_TRANSITIONS
ReadinessTransitions ==
  [s \in ReadinessStates |->
     CASE s = "DRAFT"                 -> {"DISCOVERY_IN_PROGRESS", "RETIRED"}
       [] s = "DISCOVERY_IN_PROGRESS" -> {"NEEDS_INFORMATION", "NEEDS_CONFIGURATION", "BLOCKED", "RETIRED"}
       [] s = "NEEDS_INFORMATION"     -> {"NEEDS_CONFIGURATION", "DISCOVERY_IN_PROGRESS", "BLOCKED", "RETIRED"}
       [] s = "NEEDS_CONFIGURATION"   -> {"NEEDS_INFORMATION", "BLOCKED", "READY_FOR_SIMULATION", "RETIRED"}
       [] s = "BLOCKED"               -> {"NEEDS_INFORMATION", "NEEDS_CONFIGURATION", "RETIRED"}
       [] s = "READY_FOR_SIMULATION"  -> {"SIMULATION_FAILED", "READY_FOR_ACTIVATION", "BLOCKED", "RETIRED"}
       [] s = "SIMULATION_FAILED"     -> {"NEEDS_CONFIGURATION", "READY_FOR_SIMULATION", "RETIRED"}
       [] s = "READY_FOR_ACTIVATION"  -> {"ACTIVE", "NEEDS_CONFIGURATION", "RETIRED"}
       [] s = "ACTIVE"                -> {"SUSPENDED", "RETIRED"}
       [] s = "SUSPENDED"             -> {"ACTIVE", "RETIRED"}
       [] OTHER                       -> {}]

CanTransition(src, dst) == dst \in ReadinessTransitions[src]

\* transition(): ACTIVE has its own method, with its gates.
MayMove(src, dst) == CanTransition(src, dst) /\ dst # "ACTIVE"

\* States _path_to never walks through.
NeverImplicit == {"ACTIVE", "SUSPENDED", "RETIRED", "READY_FOR_ACTIVATION"}

\* One step of _path_to's breadth-first search.
Steps(seen) ==
  seen \cup {d \in ReadinessStates \ NeverImplicit : \E s \in seen : CanTransition(s, d)}

\* What the search visits from a state: the least set closed under its step.  The
\* hops themselves are only written to the history of the machine.
Visited ==
  [src \in ReadinessStates |->
     {d \in ReadinessStates :
        \A seen \in SUBSET ReadinessStates : src \in seen /\ Steps(seen) = seen => d \in seen}]

\* Fault seeded below: the verdict is applied whatever the table says.
AfterPreflight_Forced(src, target) == target

\* apply_preflight: to the target by the table or along a path of legal hops; a
\* target out of reach raises, and the caller leaves the state as it is.
AfterPreflight(src, target) ==
  IF \E s \in Visited[src] : CanTransition(s, target) THEN target ELSE src

\* apply_simulation: only from READY_FOR_SIMULATION, the table allows no other.
AfterSimulation(src, passed) ==
  LET target == IF passed THEN "READY_FOR_ACTIVATION" ELSE "SIMULATION_FAILED"
  IN  IF MayMove(src, target) THEN target ELSE src

=============================================================================
