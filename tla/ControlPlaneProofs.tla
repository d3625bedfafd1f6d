------------------------- MODULE ControlPlaneProofs -------------------------
(***************************************************************************)
(* Proofs about the control plane, for any blueprints, knowledge and       *)
(* number of versions.  That an active version was proven is not           *)
(* inductive: Evidence adds what the reports kept on the record stand for. *)
(***************************************************************************)
EXTENDS ControlPlane, FiniteSetTheorems, SequenceTheorems, WellFoundedInduction, TLAPS

\* The part of the type invariant the proofs need: a stored version has a blueprint.
HasBlueprint ==
  /\ activity \in [version : Nat, blueprint : Blueprints \cup {NoBlueprint},
                   state : ReadinessStates, preflight : {"none", "READY", "BLOCKED"},
                   simulation : {"none", "passed", "failed"}]
  /\ activity.version > 0 => activity.blueprint \in Blueprints
  /\ activity.version = 0 => activity.state = "DRAFT"

\* Every report kept on the record is one the version under the key was given.
Evidence ==
  /\ activity.preflight = "READY" => activity.version \in preflightsReady
  /\ activity.simulation = "passed" => activity.version \in simsPassed

Inv == HasBlueprint /\ Evidence /\ ActiveWasProven

-----------------------------------------------------------------------------
(***************************************************************************)
(* Where the readiness machine can go.                                     *)
(***************************************************************************)
\* ACTIVE, SUSPENDED and RETIRED lead nowhere else.
LEMMA TableOfApproved ==
  /\ ReadinessTransitions["ACTIVE"] = {"SUSPENDED", "RETIRED"}
  /\ ReadinessTransitions["SUSPENDED"] = {"ACTIVE", "RETIRED"}
  /\ ReadinessTransitions["RETIRED"] = {}
BY DEF ReadinessTransitions, ReadinessStates

\* Only ACTIVE is suspended, and only READY_FOR_ACTIVATION and SUSPENDED are activated.
LEMMA WaysIntoService ==
  ASSUME NEW src \in ReadinessStates
  PROVE  /\ CanTransition(src, "SUSPENDED") => src = "ACTIVE"
         /\ CanTransition(src, "ACTIVE") => src \in {"READY_FOR_ACTIVATION", "SUSPENDED"}
BY DEF CanTransition, ReadinessTransitions, ReadinessStates

\* A simulation's verdict leads to one of its two states or nowhere.
LEMMA SimulationStays ==
  ASSUME NEW src \in ReadinessStates, NEW passed \in BOOLEAN
  PROVE  /\ AfterSimulation(src, passed) \in ReadinessStates
         /\ AfterSimulation(src, passed) \in InService => AfterSimulation(src, passed) = src
         /\ src \in InService \cup {"RETIRED"} => AfterSimulation(src, passed) = src
<1>1. AfterSimulation(src, passed) \in {src, "READY_FOR_ACTIVATION", "SIMULATION_FAILED"}
  BY DEF AfterSimulation
<1>2. ASSUME src \in InService \cup {"RETIRED"} PROVE AfterSimulation(src, passed) = src
  BY <1>2, TableOfApproved DEF AfterSimulation, MayMove, CanTransition, InService
<1> QED BY <1>1, <1>2 DEF ReadinessStates, InService

\* What the preflight's search visits from an approved state is that state.
LEMMA VisitedFromApproved ==
  ASSUME NEW src \in InService \cup {"RETIRED"}
  PROVE  Visited[src] = {src}
<1>1. src \in ReadinessStates
  BY DEF InService, ReadinessStates
<1>2. Steps({src}) = {src}
  BY TableOfApproved DEF Steps, CanTransition, NeverImplicit, InService
<1>3. {src} \in SUBSET ReadinessStates
  BY <1>1
<1>4. Visited[src] \subseteq {src}
  BY <1>1, <1>2, <1>3, Zenon DEF Visited
<1>5. src \in Visited[src]
  BY <1>1, Zenon DEF Visited
<1> QED BY <1>4, <1>5

\* The states a preflight may ask for.
Targets == {"READY_FOR_SIMULATION", "NEEDS_INFORMATION", "BLOCKED"}

\* Whatever the reasons, the preflight asks for one of these states.
LEMMA TargetType ==
  ASSUME NEW reasons PROVE PreflightTarget(reasons) \in Targets
BY DEF PreflightTarget, Targets

\* A preflight's verdict leads to its target or nowhere, from an approved state nowhere.
LEMMA PreflightStays ==
  ASSUME NEW src \in ReadinessStates, NEW target \in Targets
  PROVE  /\ AfterPreflight(src, target) \in ReadinessStates
         /\ AfterPreflight(src, target) \in InService => AfterPreflight(src, target) = src
         /\ src \in InService \cup {"RETIRED"} => AfterPreflight(src, target) = src
<1>1. AfterPreflight(src, target) \in {src, target}
  BY DEF AfterPreflight
<1>2. target \in ReadinessStates /\ target \notin InService
  BY DEF Targets, ReadinessStates, InService
<1>3. ASSUME src \in InService \cup {"RETIRED"} PROVE AfterPreflight(src, target) = src
  <2>1. ~ CanTransition(src, target)
    BY <1>3, TableOfApproved DEF CanTransition, Targets, InService
  <2> QED BY <1>3, <2>1, VisitedFromApproved DEF AfterPreflight
<1> QED BY <1>1, <1>2, <1>3

-----------------------------------------------------------------------------
(***************************************************************************)
(* The invariant.                                                          *)
(***************************************************************************)
\* Nothing is stored at first, so nothing is in service.
LEMMA InitInv == Init => Inv
<1> SUFFICES ASSUME Init PROVE Inv
  OBVIOUS
<1> QED BY DEF Init, Inv, HasBlueprint, Evidence, ActiveWasProven, InService, ReadinessStates

\* Steps that leave the record and its history alone.
Frame == UNCHANGED <<activity, preflightsReady, simsPassed>>

\* Storing a version starts it without a report.
LEMMA PutInv ==
  ASSUME Inv, NEW b \in Blueprints, PutActivity(b) PROVE Inv'
<1>1. Declared[b] \in ReadinessStates
  BY ControlAssumption
<1>2. activity.version \in Nat
  BY DEF Inv, HasBlueprint
<1>3. activity' = [version |-> activity.version + 1, blueprint |-> b, state |-> Declared[b],
                  preflight |-> "none", simulation |-> "none"]
  BY DEF PutActivity
<1>4. HasBlueprint' BY <1>1, <1>2, <1>3 DEF HasBlueprint
<1>5. Evidence' BY <1>3 DEF Evidence
<1>6. ActiveWasProven' BY <1>3 DEF ActiveWasProven
<1> QED BY <1>4, <1>5, <1>6 DEF Inv

\* A preflight records its verdict for the version and approves nothing.
LEMMA PreflightInv ==
  ASSUME Inv, NEW strict \in BOOLEAN, RunPreflight(strict) PROVE Inv'
<1> DEFINE reasons == Reasons(strict)
           verdict == IF reasons = {} THEN "READY" ELSE "BLOCKED"
           after   == AfterPreflight(activity.state, PreflightTarget(reasons))
<1>1. activity' = [activity EXCEPT !.preflight = verdict, !.state = after]
  BY DEF RunPreflight
<1>2. /\ preflightsReady' = IF reasons = {} THEN preflightsReady \cup {activity.version}
                            ELSE preflightsReady
      /\ UNCHANGED simsPassed
      /\ activity.version > 0
  BY DEF RunPreflight, Stored
<1>3. PreflightTarget(reasons) \in Targets /\ activity.state \in ReadinessStates
  BY TargetType DEF Inv, HasBlueprint
<1>4. after \in ReadinessStates /\ (after \in InService => after = activity.state)
  BY <1>3, PreflightStays
<1> HIDE DEF after
<1>5. HasBlueprint'
  <2>1. verdict \in {"none", "READY", "BLOCKED"}
    OBVIOUS
  <2> HIDE DEF verdict
  <2>2. activity' \in [version : Nat, blueprint : Blueprints \cup {NoBlueprint},
                       state : ReadinessStates, preflight : {"none", "READY", "BLOCKED"},
                       simulation : {"none", "passed", "failed"}]
    BY <1>1, <1>4, <2>1 DEF Inv, HasBlueprint
  <2>3. activity'.version = activity.version /\ activity'.blueprint = activity.blueprint
    BY <1>1 DEF Inv, HasBlueprint
  <2>4. activity.version \in Nat /\ activity.version # 0
    BY <1>2 DEF Inv, HasBlueprint
  <2> QED BY <2>2, <2>3, <2>4 DEF Inv, HasBlueprint
<1> HIDE DEF reasons
<1>6. Evidence' BY <1>1, <1>2 DEF Inv, HasBlueprint, Evidence
<1>7. ActiveWasProven' BY <1>1, <1>2, <1>4 DEF Inv, HasBlueprint, ActiveWasProven
<1> QED BY <1>5, <1>6, <1>7 DEF Inv

\* A report goes to the version that was simulated and approves nothing.
LEMMA SimulationInv ==
  ASSUME Inv, NEW v \in simulating, NEW passed \in BOOLEAN, FinishSimulation(v, passed)
  PROVE  Inv'
<1> DEFINE after == AfterSimulation(activity.state, passed)
<1>1. /\ simsPassed' = IF passed THEN simsPassed \cup {v} ELSE simsPassed
      /\ UNCHANGED preflightsReady
  BY DEF FinishSimulation
<1>2. CASE v # activity.version
  BY <1>1, <1>2 DEF FinishSimulation, Inv, HasBlueprint, Evidence, ActiveWasProven
<1>3. CASE v = activity.version
  <2>1. activity' = [activity EXCEPT !.simulation = IF passed THEN "passed" ELSE "failed",
                                     !.state = after]
    BY <1>3 DEF FinishSimulation, SimulationKept
  <2>2. after \in ReadinessStates /\ (after \in InService => after = activity.state)
    BY SimulationStays DEF Inv, HasBlueprint
  <2>3. activity.state = "DRAFT" => after = "DRAFT"
    BY DEF AfterSimulation, MayMove, CanTransition, ReadinessTransitions, ReadinessStates
  <2> HIDE DEF after
  <2>4. HasBlueprint' BY <2>1, <2>2, <2>3 DEF Inv, HasBlueprint
  <2>5. Evidence' BY <1>1, <1>3, <2>1 DEF Inv, HasBlueprint, Evidence
  <2>6. ActiveWasProven' BY <1>1, <2>1, <2>2 DEF Inv, HasBlueprint, ActiveWasProven
  <2> QED BY <2>4, <2>5, <2>6 DEF Inv
<1> QED BY <1>2, <1>3

\* A first activation finds the evidence on the record; a resumed version had it.
LEMMA ActivateInv == ASSUME Inv, Activate PROVE Inv'
<1>1. /\ activity' = [activity EXCEPT !.state = "ACTIVE"]
      /\ UNCHANGED <<preflightsReady, simsPassed>>
      /\ activity.version > 0
  BY DEF Activate, Stored
<1>2. activity.state \in {"READY_FOR_ACTIVATION", "SUSPENDED"}
  BY WaysIntoService DEF Activate, Inv, HasBlueprint
<1>3. activity.state = "READY_FOR_ACTIVATION" => GatesMet
  BY DEF Activate
<1>4. HasBlueprint' BY <1>1 DEF Inv, HasBlueprint, ReadinessStates
<1>5. Evidence' BY <1>1 DEF Inv, HasBlueprint, Evidence
<1>6. ActiveWasProven'
  BY <1>1, <1>2, <1>3 DEF Inv, HasBlueprint, Evidence, ActiveWasProven, GatesMet, InService
<1> QED BY <1>4, <1>5, <1>6 DEF Inv

\* The operator cannot move a version into service by hand.
LEMMA TransitionInv ==
  ASSUME Inv, NEW dst \in ReadinessStates, Transition(dst) PROVE Inv'
<1>1. /\ activity' = [activity EXCEPT !.state = dst]
      /\ UNCHANGED <<preflightsReady, simsPassed>>
      /\ activity.version > 0
  BY DEF Transition, Stored
<1>2. dst \in InService => activity.state = "ACTIVE"
  BY WaysIntoService DEF Transition, MayMove, InService, Inv, HasBlueprint
<1>3. HasBlueprint' BY <1>1 DEF Inv, HasBlueprint
<1>4. Evidence' BY <1>1 DEF Inv, HasBlueprint, Evidence
<1>5. ActiveWasProven' BY <1>1, <1>2 DEF Inv, HasBlueprint, ActiveWasProven, InService
<1> QED BY <1>3, <1>4, <1>5 DEF Inv

\* What leaves the record and its history alone keeps the invariant.
LEMMA FrameInv == ASSUME Inv, Frame PROVE Inv'
BY DEF Frame, Inv, HasBlueprint, Evidence, ActiveWasProven

\* Every step keeps the invariant.
LEMMA NextInv == Inv /\ [Next]_vars => Inv'
<1> SUFFICES ASSUME Inv, [Next]_vars PROVE Inv'
  OBVIOUS
<1>1. ASSUME NEW b \in Blueprints, PutActivity(b) PROVE Inv'
  BY <1>1, PutInv
<1>2. CASE UpsertTenant
  BY <1>2, FrameInv DEF UpsertTenant, Frame
<1>3. ASSUME NEW strict \in BOOLEAN, RunPreflight(strict) PROVE Inv'
  BY <1>3, PreflightInv
<1>4. CASE StartSimulation
  BY <1>4, FrameInv DEF StartSimulation, Frame
<1>5. ASSUME NEW v \in simulating, NEW passed \in BOOLEAN, FinishSimulation(v, passed) PROVE Inv'
  BY <1>5, SimulationInv
<1>6. CASE Activate
  BY <1>6, ActivateInv
<1>7. ASSUME NEW dst \in ReadinessStates, Transition(dst) PROVE Inv'
  BY <1>7, TransitionInv
<1>8. ASSUME NEW s \in Sources, Upload(s) PROVE Inv'
  BY <1>8, FrameInv DEF Upload, control, Frame
<1>9. ASSUME NEW i \in DOMAIN facts, Approve(i) PROVE Inv'
  BY <1>9, FrameInv DEF Approve, control, Frame
<1>10. ASSUME NEW c \in DOMAIN conflicts, NEW i \in conflicts[c].ids, Resolve(c, i) PROVE Inv'
  BY <1>10, FrameInv DEF Resolve, control, Frame
<1>11. CASE UNCHANGED vars
  BY <1>11, FrameInv DEF vars, control, Frame
<1> QED
  BY <1>1, <1>2, <1>3, <1>4, <1>5, <1>6, <1>7, <1>8, <1>9, <1>10, <1>11 DEF Next

\* The invariant holds in every reachable state.
LEMMA SpecInv == Spec => []Inv
BY InitInv, NextInv, PTL DEF Spec

\* Whatever was stored, checked, simulated and moved by hand, a version in service
\* that was not stored so has been proven.
THEOREM ActivationIsProven == Spec => []ActiveWasProven
<1>1. Inv => ActiveWasProven
  BY DEF Inv
<1> QED BY <1>1, SpecInv, PTL

-----------------------------------------------------------------------------
(***************************************************************************)
(* The fate of an approved version.                                        *)
(***************************************************************************)
Kept ==
  activity'.version = activity.version =>
    /\ activity.state \in InService => activity'.state \in InService \cup {"RETIRED"}
    /\ activity.state = "RETIRED" => activity'.state = "RETIRED"

\* Every step lets an approved version be, or retires it.
LEMMA NextKeeps == Inv /\ [Next]_vars => Kept
<1> SUFFICES ASSUME Inv, [Next]_vars PROVE Kept
  OBVIOUS
<1>0. activity.version \in Nat /\ activity.state \in ReadinessStates
      /\ activity = [activity EXCEPT !.state = activity.state]
  BY DEF Inv, HasBlueprint
<1>1. ASSUME NEW b \in Blueprints, PutActivity(b) PROVE Kept
  BY <1>0, <1>1 DEF PutActivity, Kept
<1>2. ASSUME NEW strict \in BOOLEAN, RunPreflight(strict) PROVE Kept
  <2> DEFINE after == AfterPreflight(activity.state, PreflightTarget(Reasons(strict)))
  <2>1. activity'.state = after
    BY <1>2 DEF RunPreflight, Inv, HasBlueprint
  <2>2. PreflightTarget(Reasons(strict)) \in Targets
    BY TargetType
  <2>3. activity.state \in InService \cup {"RETIRED"} => after = activity.state
    BY <1>0, <2>2, PreflightStays
  <2> QED BY <2>1, <2>3 DEF Kept
<1>3. ASSUME NEW v \in simulating, NEW passed \in BOOLEAN, FinishSimulation(v, passed) PROVE Kept
  <2> DEFINE after == AfterSimulation(activity.state, passed)
  <2>1. activity'.state \in {activity.state, after}
    BY <1>3 DEF FinishSimulation, SimulationKept, Inv, HasBlueprint
  <2>2. activity.state \in InService \cup {"RETIRED"} => after = activity.state
    BY <1>0, SimulationStays
  <2> QED BY <2>1, <2>2 DEF Kept
<1>4. CASE Activate
  <2>1. activity'.state = "ACTIVE" /\ activity.state # "RETIRED"
    BY <1>0, <1>4, WaysIntoService DEF Activate, Inv, HasBlueprint
  <2> QED BY <2>1 DEF Kept, InService
<1>5. ASSUME NEW dst \in ReadinessStates, Transition(dst) PROVE Kept
  <2>1. activity'.state = dst /\ dst \in ReadinessTransitions[activity.state]
    BY <1>5 DEF Transition, MayMove, CanTransition, Inv, HasBlueprint
  <2> QED BY <2>1, TableOfApproved DEF Kept, InService
<1>6. CASE UNCHANGED activity
  BY <1>6 DEF Kept
<1>7. CASE UpsertTenant \/ StartSimulation \/ UNCHANGED vars
  BY <1>6, <1>7 DEF UpsertTenant, StartSimulation, vars, control
<1>8. ASSUME NEW s \in Sources, Upload(s) PROVE Kept
  BY <1>6, <1>8 DEF Upload, control
<1>9. ASSUME NEW i \in DOMAIN facts, Approve(i) PROVE Kept
  BY <1>6, <1>9 DEF Approve, control
<1>10. ASSUME NEW c \in DOMAIN conflicts, NEW i \in conflicts[c].ids, Resolve(c, i) PROVE Kept
  BY <1>6, <1>10 DEF Resolve, control
<1> QED
  BY <1>1, <1>2, <1>3, <1>4, <1>5, <1>7, <1>8, <1>9, <1>10 DEF Next

\* No step but storing another version takes an approved version out of service,
\* except to retire it, and nothing brings a retired one back.
THEOREM ApprovalLasts == Spec => ApprovedStaysApproved
<1>1. Inv /\ [Next]_vars => [Kept]_vars
  BY NextKeeps
<1> QED BY <1>1, SpecInv, PTL DEF Spec, ApprovedStaysApproved, Kept

-----------------------------------------------------------------------------
(***************************************************************************)
(* Selections.  Induction is by the least counterexample.                  *)
(***************************************************************************)
\* Every non-empty set of numbers has a least one.
LEMMA LeastNumber ==
  ASSUME NEW T, T \subseteq Nat, T # {}
  PROVE  \E m \in T : \A k \in T : m <= k
<1> DEFINE R == StrictSubsetOrdering(Nat)
           F == FiniteSubsetsOf(Nat)
           Ends == {0..k : k \in T}
<1>1. IsWellFoundedOn(R, F)
  BY FS_StrictSubsetOrderingWellFounded
<1>2. Ends \subseteq F
  <2> SUFFICES ASSUME NEW k \in T PROVE 0..k \in F
    OBVIOUS
  <2>1. k \in Nat /\ 0 \in Int /\ k \in Int
    OBVIOUS
  <2>2. IsFiniteSet(0..k)
    BY <2>1, FS_Interval
  <2>3. 0..k \subseteq Nat
    OBVIOUS
  <2> QED BY <2>2, <2>3 DEF FiniteSubsetsOf
<1>3. Ends # {}
  OBVIOUS
<1> HIDE DEF F
<1>4. PICK e \in Ends : \A d \in Ends : <<d, e>> \notin R
  <2> HIDE DEF R, Ends
  <2> QED BY <1>1, <1>2, <1>3, WFMin
<1>5. PICK m \in T : e = 0..m
  OBVIOUS
<1>6. ASSUME NEW k \in T, ~(m <= k) PROVE FALSE
  <2>1. k \in Nat /\ m \in Nat /\ k < m
    BY <1>6
  <2>2. 0..k \subseteq 0..m /\ 0..k # 0..m
    <3>1. m \in 0..m /\ m \notin 0..k
      BY <2>1
    <3>2. \A i \in 0..k : i \in 0..m
      BY <2>1
    <3> QED BY <3>1, <3>2
  <2>3. 0..k \in SUBSET Nat /\ 0..m \in SUBSET Nat
    BY <2>1
  <2>4. <<0..k, 0..m>> \in R
    BY <2>2, <2>3 DEF StrictSubsetOrdering
  <2> QED BY <1>4, <1>5, <2>4
<1> QED BY <1>6

\* What the prefixes of a sequence have in common: a set that holds 0, and each number
\* with the one before it, holds every number up to n.
LEMMA UpTo ==
  ASSUME NEW n \in Nat, NEW Good, 0 \in Good,
         \A k \in 1..n : k - 1 \in Good => k \in Good
  PROVE  0..n \subseteq Good
<1> DEFINE Bad == (0..n) \ Good
<1>1. SUFFICES ASSUME Bad # {} PROVE FALSE
  OBVIOUS
<1>2. Bad \subseteq Nat
  OBVIOUS
<1>3. PICK m \in Bad : \A k \in Bad : m <= k
  <2> HIDE DEF Bad
  <2> QED BY <1>1, <1>2, LeastNumber
<1>4. m \in 1..n /\ m - 1 \in 0..n /\ ~(m <= m - 1) /\ m \notin Good
  BY <1>3
<1>5. m - 1 \in Good
  BY <1>3, <1>4
<1> QED BY <1>4, <1>5


\* The elements selected from each prefix of a sequence, and from the whole.
OnlySteps(f, s, S) ==
  /\ DOMAIN f = 0..Len(s) /\ f[0] = <<>>
  /\ \A n \in 1..Len(s) : f[n] = IF s[n] \in S THEN Append(f[n - 1], s[n]) ELSE f[n - 1]

\* The recursive function behind Only exists, and Only is its last value.
LEMMA OnlyUnfolds ==
  ASSUME NEW s, Len(s) \in Nat, NEW S
  PROVE  \E f : OnlySteps(f, s, S) /\ Only(s, S) = f[Len(s)]
<1> DEFINE n == Len(s)
           Body(f, i) == IF i = 0 THEN <<>>
                         ELSE IF s[i] \in S THEN Append(f[i - 1], s[i]) ELSE f[i - 1]
           Upto(k) == \E g : g = [i \in 0..k |-> Body(g, i)]
           Good == {k \in Nat : Upto(k)}
<1>1. 0 \in Good
  <2>1. [i \in 0..0 |-> <<>>] = [i \in 0..0 |-> Body([j \in 0..0 |-> <<>>], i)]
    OBVIOUS
  <2> QED BY <2>1
<1>2. \A k \in 1..n : k - 1 \in Good => k \in Good
  <2> SUFFICES ASSUME NEW k \in 1..n, k - 1 \in Good PROVE k \in Good
    OBVIOUS
  <2>1. PICK g : g = [i \in 0..(k - 1) |-> Body(g, i)]
    OBVIOUS
  <2> DEFINE h == [i \in 0..k |-> IF i = k THEN Body(g, k) ELSE g[i]]
  <2>2. \A i \in 0..k : h[i] = Body(h, i)
    <3> SUFFICES ASSUME NEW i \in 0..k PROVE h[i] = Body(h, i)
      OBVIOUS
    <3>1. CASE i = 0
      <4>1. 0 \in 0..(k - 1) /\ 0 # k
        OBVIOUS
      <4> QED BY <2>1, <3>1, <4>1
    <3>2. CASE i # 0 /\ i # k
      <4>1. i \in 0..(k - 1) /\ i - 1 \in 0..k /\ i - 1 # k
        BY <3>2
      <4>2. h[i] = g[i] /\ h[i - 1] = g[i - 1]
        BY <3>2, <4>1
      <4>3. g[i] = Body(g, i)
        BY <2>1, <4>1
      <4> QED BY <3>2, <4>2, <4>3
    <3>3. CASE i = k
      <4>1. k - 1 \in 0..k /\ k - 1 # k /\ k # 0
        OBVIOUS
      <4>2. h[k - 1] = g[k - 1] /\ h[k] = Body(g, k)
        BY <4>1
      <4> QED BY <3>3, <4>1, <4>2
    <3> QED BY <3>1, <3>2, <3>3
  <2>3. h = [i \in 0..k |-> Body(h, i)]
    <3>1. h = [i \in 0..k |-> h[i]]
      OBVIOUS
    <3> HIDE DEF h
    <3> QED BY <2>2, <3>1
  <2>4. k \in Nat
    OBVIOUS
  <2> HIDE DEF h
  <2> QED BY <2>3, <2>4
<1>3. n \in Good
  <2> HIDE DEF Good
  <2>1. n \in 0..n
    OBVIOUS
  <2> QED BY <1>1, <1>2, <2>1, UpTo
<1> DEFINE f == CHOOSE g : g = [i \in 0..n |-> Body(g, i)]
<1>4. f = [i \in 0..n |-> Body(f, i)]
  BY <1>3
<1>5. Only(s, S) = f[n]
  BY DEF Only
<1> HIDE DEF f
<1>6. OnlySteps(f, s, S)
  <2>1. 0 \in 0..n /\ \A i \in 1..n : i \in 0..n /\ i # 0
    OBVIOUS
  <2> QED BY <1>4, <2>1 DEF OnlySteps
<1> QED BY <1>5, <1>6

\* What is selected are the elements of the set.
LEMMA OnlySelects ==
  ASSUME NEW T, NEW s \in Seq(T), NEW S
  PROVE  Only(s, S) \in Seq(T) /\ ToSet(Only(s, S)) = ToSet(s) \cap S
<1> DEFINE n == Len(s)
           Elems(q) == {q[i] : i \in 1..Len(q)}
<1>1. n \in Nat /\ DOMAIN s = 1..n /\ \A i \in 1..n : s[i] \in T
  OBVIOUS
<1>2. PICK f : OnlySteps(f, s, S) /\ Only(s, S) = f[n]
  BY <1>1, OnlyUnfolds
<1> DEFINE Fact(k) == f[k] \in Seq(T) /\ Elems(f[k]) = {s[i] : i \in 1..k} \cap S
           Good == {k \in 0..n : Fact(k)}
<1>3. 0 \in Good
  <2>1. f[0] = <<>> /\ <<>> \in Seq(T) /\ Len(<<>>) = 0 /\ 0 \in 0..n
    BY <1>1, <1>2 DEF OnlySteps
  <2>2. 1..0 = {}
    OBVIOUS
  <2>3. Elems(f[0]) = {s[i] : i \in 1..0} \cap S
    BY <2>1, <2>2
  <2> QED BY <2>1, <2>3
<1>4. \A k \in 1..n : k - 1 \in Good => k \in Good
  <2> SUFFICES ASSUME NEW k \in 1..n, k - 1 \in Good PROVE Fact(k)
    <3>1. \A k \in 1..n : k \in 0..n
      OBVIOUS
    <3> HIDE DEF Fact
    <3> QED BY <3>1
  <2> DEFINE g == f[k - 1]
  <2>1. g \in Seq(T) /\ Elems(g) = {s[i] : i \in 1..(k - 1)} \cap S
    OBVIOUS
  <2>2. f[k] = IF s[k] \in S THEN Append(g, s[k]) ELSE g
    BY <1>2 DEF OnlySteps
  <2>3. {s[i] : i \in 1..k} = {s[i] : i \in 1..(k - 1)} \cup {s[k]}
    <3>1. 1..k = 1..(k - 1) \cup {k}
      OBVIOUS
    <3> QED BY <3>1
  <2>4. s[k] \in T
    BY <1>1
  <2> HIDE DEF g
  <2>5. CASE s[k] \in S
    <3> DEFINE h == Append(g, s[k])
    <3>1. /\ h \in Seq(T) /\ Len(h) = Len(g) + 1 /\ Len(g) \in Nat
          /\ \A i \in 1..Len(g) : h[i] = g[i]
          /\ h[Len(g) + 1] = s[k]
      BY <2>1, <2>4
    <3>2. f[k] = h
      BY <2>2, <2>5
    <3> HIDE DEF h
    <3>3. 1..Len(h) = 1..Len(g) \cup {Len(g) + 1}
      BY <3>1
    <3>4. Elems(h) = Elems(g) \cup {s[k]}
      BY <3>1, <3>3
    <3>5. Elems(h) = {s[i] : i \in 1..k} \cap S
      BY <2>1, <2>3, <2>5, <3>4
    <3> QED BY <3>1, <3>2, <3>5
  <2>6. CASE s[k] \notin S
    <3>1. Elems(g) = {s[i] : i \in 1..k} \cap S
      BY <2>1, <2>3, <2>6
    <3> QED BY <2>1, <2>2, <2>6, <3>1
  <2> QED BY <2>5, <2>6
<1>5. Fact(n)
  <2> HIDE DEF Good
  <2>1. n \in 0..n
    BY <1>1
  <2>2. n \in Good
    BY <1>1, <1>3, <1>4, <2>1, UpTo
  <2> QED BY <2>2 DEF Good
<1> DEFINE o == Only(s, S)
<1>6. o \in Seq(T) /\ Elems(o) = {s[i] : i \in 1..n} \cap S
  BY <1>2, <1>5
<1>7. DOMAIN o = 1..Len(o)
  <2> HIDE DEF o
  <2> QED BY <1>6
<1>8. ToSet(o) = Elems(o) /\ ToSet(s) = {s[i] : i \in 1..n}
  <2> HIDE DEF o
  <2> QED BY <1>1, <1>7 DEF ToSet
<1> QED BY <1>6, <1>8

\* A function of the first numbers is a sequence.
LEMMA Built ==
  ASSUME NEW S, NEW n \in Nat, NEW f \in [1..n -> S]
  PROVE  f \in Seq(S) /\ Len(f) = n
OBVIOUS

\* What is in a sequence is of its set.
LEMMA ElementType ==
  ASSUME NEW S, NEW q \in Seq(S), NEW n \in 1..Len(q)
  PROVE  q[n] \in S
OBVIOUS

\* Two sequences, one after the other.
LEMMA Joined ==
  ASSUME NEW S, NEW a \in Seq(S), NEW b \in Seq(S)
  PROVE  /\ a \o b \in Seq(S) /\ Len(a \o b) = Len(a) + Len(b)
         /\ Len(a) \in Nat /\ Len(b) \in Nat
         /\ \A i \in 1..Len(a) : (a \o b)[i] = a[i]
         /\ \A i \in 1..(Len(a) + Len(b)) : i > Len(a) => (a \o b)[i] = b[i - Len(a)]
OBVIOUS

-----------------------------------------------------------------------------
(***************************************************************************)
(* Uploads: where their facts go, what they are compared with, and what is *)
(* recorded of it.                                                         *)
(***************************************************************************)
\* The cells of a source have a key and a value.
LEMMA CellType ==
  ASSUME NEW c \in Seq([key : Keys, value : Values])
  PROVE  /\ Len(c) \in Nat /\ DOMAIN c = 1..Len(c)
         /\ \A n \in 1..Len(c) : c[n].key \in Keys /\ c[n].value \in Values
<1>1. Len(c) \in Nat /\ DOMAIN c = 1..Len(c)
  OBVIOUS
<1>2. ASSUME NEW n \in 1..Len(c) PROVE c[n].key \in Keys /\ c[n].value \in Values
  <2> DEFINE e == c[n]
  <2>1. e \in [key : Keys, value : Values]
    BY ElementType
  <2> HIDE DEF e
  <2>2. e.key \in Keys /\ e.value \in Values
    BY <2>1
  <2> QED BY <2>2 DEF e
<1> QED BY <1>1, <1>2

\* What an upload places: the store as it was, its attributes, and relationships after them.
LEMMA PlacedFacts ==
  ASSUME KnowledgeTypeOK, NEW s \in Sources
  PROVE  /\ Placed(s) \in Seq(FactRecords)
         /\ Len(facts) \in Nat /\ DOMAIN facts = 1..Len(facts)
         /\ Len(Content[s]) \in Nat /\ DOMAIN Content[s] = 1..Len(Content[s])
         /\ Len(facts) + Len(Content[s]) <= Len(Placed(s))
         /\ \A i \in 1..Len(facts) : Placed(s)[i] = facts[i]
         /\ \A n \in 1..Len(Content[s]) : Placed(s)[Len(facts) + n] = Attributes(s)[n]
         /\ \A i \in 1..Len(Placed(s)) : i > Len(facts) =>
              /\ Placed(s)[i].status = "EXTRACTED"
              /\ i > Len(facts) + Len(Content[s]) => Placed(s)[i].kind = "relationship"
<1> DEFINE c == Content[s]
           naming == Only(c, [key : Keys, value : Names])
           A == Attributes(s)
           R == Relationships(s)
<1>1. c \in Seq([key : Keys, value : Values]) /\ facts \in Seq(FactRecords)
  BY KnowledgeAssumption DEF KnowledgeTypeOK
<1>2. naming \in Seq([key : Keys, value : Values])
  BY <1>1, OnlySelects
<1>3. /\ A \in Seq(FactRecords) /\ Len(A) = Len(c)
      /\ \A n \in 1..Len(c) : A[n].status = "EXTRACTED"
  <2>1. Len(c) \in Nat /\ DOMAIN c = 1..Len(c)
        /\ \A n \in 1..Len(c) : c[n].key \in Keys /\ c[n].value \in Values
    <3> HIDE DEF c
    <3> QED BY <1>1, CellType
  <2>2. A \in [1..Len(c) -> FactRecords] /\ \A n \in 1..Len(c) : A[n].status = "EXTRACTED"
    BY <2>1 DEF Attributes, FactRecords, Statuses
  <2> HIDE DEF A, c
  <2> QED BY <2>1, <2>2, Built
<1>4. /\ R \in Seq(FactRecords) /\ Len(R) = Len(naming)
      /\ \A n \in 1..Len(R) : R[n].status = "EXTRACTED" /\ R[n].kind = "relationship"
  <2>1. R = [n \in DOMAIN naming |-> [key |-> naming[n].key, kind |-> "relationship",
              value |-> naming[n].value, source |-> s, status |-> "EXTRACTED"]]
    BY DEF Relationships
  <2> HIDE DEF naming, R
  <2>2. Len(naming) \in Nat /\ DOMAIN naming = 1..Len(naming)
        /\ \A n \in 1..Len(naming) : naming[n].key \in Keys /\ naming[n].value \in Values
    BY <1>2, CellType
  <2>3. /\ R \in [1..Len(naming) -> FactRecords]
        /\ \A n \in 1..Len(naming) : R[n].status = "EXTRACTED" /\ R[n].kind = "relationship"
    BY <2>1, <2>2 DEF FactRecords, Statuses
  <2> QED BY <2>2, <2>3, Built
<1> HIDE DEF naming, A, R
<1> DEFINE B == facts \o A
<1>5. /\ B \in Seq(FactRecords) /\ Len(B) = Len(facts) + Len(A)
      /\ \A i \in 1..Len(facts) : B[i] = facts[i]
      /\ \A n \in 1..Len(A) : B[Len(facts) + n] = A[n]
      /\ \A i \in 1..Len(B) : i > Len(facts) => B[i] = A[i - Len(facts)]
  <2>1. /\ B \in Seq(FactRecords) /\ Len(B) = Len(facts) + Len(A)
        /\ Len(facts) \in Nat /\ Len(A) \in Nat
        /\ \A i \in 1..Len(facts) : B[i] = facts[i]
        /\ \A i \in 1..(Len(facts) + Len(A)) : i > Len(facts) => B[i] = A[i - Len(facts)]
    BY <1>1, <1>3, Joined
  <2> HIDE DEF B
  <2>2. ASSUME NEW n \in 1..Len(A) PROVE B[Len(facts) + n] = A[n]
    <3>1. /\ Len(facts) + n \in 1..(Len(facts) + Len(A)) /\ Len(facts) + n > Len(facts)
          /\ (Len(facts) + n) - Len(facts) = n
      BY <2>1
    <3> QED BY <2>1, <3>1
  <2> QED BY <2>1, <2>2
<1>6. Placed(s) = B \o R
  BY DEF Placed, A, R
<1> HIDE DEF B
<1>7. /\ Placed(s) \in Seq(FactRecords) /\ Len(Placed(s)) = Len(B) + Len(R)
      /\ \A i \in 1..Len(B) : Placed(s)[i] = B[i]
      /\ \A i \in 1..Len(Placed(s)) : i > Len(B) => Placed(s)[i] = R[i - Len(B)]
  <2>1. /\ B \o R \in Seq(FactRecords) /\ Len(B \o R) = Len(B) + Len(R)
        /\ \A i \in 1..Len(B) : (B \o R)[i] = B[i]
        /\ \A i \in 1..(Len(B) + Len(R)) : i > Len(B) => (B \o R)[i] = R[i - Len(B)]
    <3>1. B \in Seq(FactRecords) /\ R \in Seq(FactRecords)
      BY <1>4, <1>5
    <3> QED BY ONLY <3>1, Joined
  <2> QED BY <1>6, <2>1
<1>8. /\ Len(facts) \in Nat /\ DOMAIN facts = 1..Len(facts) /\ Len(c) \in Nat
      /\ DOMAIN c = 1..Len(c) /\ Len(R) \in Nat
  BY <1>1, <1>4
<1>9. ASSUME NEW i \in 1..Len(facts) PROVE Placed(s)[i] = facts[i]
  <2>1. Len(B) = Len(facts) + Len(c)
    BY <1>3, <1>5
  <2>2. i \in 1..Len(B)
    BY <1>8, <2>1
  <2>3. B[i] = facts[i]
    BY <1>5
  <2> QED BY <1>7, <2>2, <2>3
<1>10. \A n \in 1..Len(c) : Placed(s)[Len(facts) + n] = A[n]
  <2> SUFFICES ASSUME NEW n \in 1..Len(c) PROVE Placed(s)[Len(facts) + n] = A[n]
    OBVIOUS
  <2>1. Len(facts) + n \in 1..Len(B) /\ n \in 1..Len(A)
    BY <1>3, <1>5, <1>8
  <2> QED BY <1>5, <1>7, <2>1
<1>11. ASSUME NEW i \in 1..Len(Placed(s)), i > Len(facts)
       PROVE  /\ Placed(s)[i].status = "EXTRACTED"
              /\ i > Len(facts) + Len(c) => Placed(s)[i].kind = "relationship"
  <2>1. CASE i > Len(B)
    <3>1. i - Len(B) \in 1..Len(R)
      BY <1>3, <1>5, <1>7, <1>8, <2>1
    <3> QED BY <1>4, <1>7, <2>1, <3>1
  <2>2. CASE ~(i > Len(B))
    <3>1. i \in 1..Len(B) /\ i - Len(facts) \in 1..Len(c) /\ ~(i > Len(facts) + Len(c))
      BY <1>3, <1>5, <1>8, <1>11, <2>2
    <3> QED BY <1>3, <1>5, <1>7, <1>11, <3>1
  <2> QED BY <2>1, <2>2
<1> QED BY <1>3, <1>5, <1>7, <1>8, <1>9, <1>10, <1>11 DEF A

\* What a fact is marked with leaves alone what it says; a fact of the store is not marked at
\* all, and none is approved.
LEMMA Marking ==
  ASSUME KnowledgeTypeOK, NEW s \in Sources, NEW i \in 1..Len(Placed(s))
  PROVE  /\ Marked(s, i) \in FactRecords
         /\ Marked(s, i).key = Placed(s)[i].key /\ Said(Marked(s, i)) = Said(Placed(s)[i])
         /\ Marked(s, i).kind = Placed(s)[i].kind /\ Marked(s, i).value = Placed(s)[i].value
         /\ i <= Len(facts) => Marked(s, i) = facts[i]
         /\ i > Len(facts) => Marked(s, i).status # "APPROVED"
<1> DEFINE f == Placed(s)[i]
<1>1. f \in FactRecords /\ (i > Len(facts) => f.status = "EXTRACTED")
  BY PlacedFacts
<1>2. \/ Marked(s, i) = f
      \/ i \in NewAttributes(s) /\ \E t \in {"CONFLICTED", "SUPERSEDED"} :
           Marked(s, i) = [f EXCEPT !.status = t]
  BY DEF Marked
<1>3. i <= Len(facts) => i \notin NewAttributes(s) /\ f = facts[i]
  BY PlacedFacts DEF NewAttributes
<1> HIDE DEF f
<1>4. ASSUME NEW t \in {"CONFLICTED", "SUPERSEDED"}, Marked(s, i) = [f EXCEPT !.status = t]
      PROVE  /\ Marked(s, i) \in FactRecords /\ Marked(s, i).status # "APPROVED"
             /\ Marked(s, i).key = f.key /\ Marked(s, i).kind = f.kind
             /\ Marked(s, i).value = f.value
  BY <1>1, <1>4 DEF FactRecords, Statuses
<1>5. /\ Marked(s, i) \in FactRecords /\ (i > Len(facts) => Marked(s, i).status # "APPROVED")
      /\ Marked(s, i).key = f.key /\ Marked(s, i).kind = f.kind /\ Marked(s, i).value = f.value
  BY <1>1, <1>2, <1>4
<1>6. i <= Len(facts) => Marked(s, i) = facts[i]
  BY <1>2, <1>3
<1> QED BY <1>5, <1>6 DEF Said, f

\* What is compared are facts of the store and of the upload, finitely many.
LEMMA GroupType ==
  ASSUME KnowledgeTypeOK, NEW s \in Sources, NEW k
  PROVE  /\ Group(s, k) \subseteq 1..Len(Placed(s)) /\ Distinct(s, k) \subseteq Group(s, k)
         /\ Group(s, k) \subseteq Nat /\ IsFiniteSet(Distinct(s, k))
<1>1. NewAttributes(s) \subseteq 1..Len(Placed(s)) /\ DOMAIN facts \subseteq 1..Len(Placed(s))
      /\ Len(Placed(s)) \in Nat
  BY PlacedFacts DEF NewAttributes
<1>2. Group(s, k) \subseteq 1..Len(Placed(s)) /\ Distinct(s, k) \subseteq Group(s, k)
  BY <1>1 DEF Group, Distinct
<1>3. Group(s, k) \subseteq Nat
  BY <1>1, <1>2
<1>4. IsFiniteSet(1..Len(Placed(s))) /\ Distinct(s, k) \in SUBSET (1..Len(Placed(s)))
  BY <1>1, <1>2, FS_Interval
<1>5. IsFiniteSet(Distinct(s, k))
  BY <1>4, FS_Subset
<1> QED BY <1>2, <1>3, <1>5

\* For each thing said about a key one fact stands, the first.
LEMMA OneStands ==
  ASSUME KnowledgeTypeOK, NEW s \in Sources, NEW k, NEW i \in Group(s, k)
  PROVE  \E n \in Distinct(s, k) : Said(Placed(s)[n]) = Said(Placed(s)[i])
<1> DEFINE T == {j \in Group(s, k) : Said(Placed(s)[j]) = Said(Placed(s)[i])}
           new == T \ DOMAIN facts
<1>1. T \subseteq Nat /\ new \subseteq Nat /\ i \in T
  BY GroupType
<1>2. CASE new # {}
  <2>1. PICK m \in new : \A j \in new : m <= j
    <3> HIDE DEF new
    <3> QED BY <1>1, <1>2, LeastNumber
  <2>2. \A j \in T \ {m} : Before(s, m, j)
    <3> SUFFICES ASSUME NEW j \in T, j # m PROVE Before(s, m, j)
      OBVIOUS
    <3>1. j \notin DOMAIN facts => m < j
      BY <1>1, <2>1
    <3> QED BY <2>1, <3>1 DEF Before
  <2> QED BY <2>1, <2>2 DEF Distinct
<1>3. CASE new = {}
  <2>1. PICK m \in T : \A j \in T : m <= j
    <3> HIDE DEF T
    <3> QED BY <1>1, LeastNumber
  <2>2. \A j \in T \ {m} : Before(s, m, j)
    <3> SUFFICES ASSUME NEW j \in T, j # m PROVE Before(s, m, j)
      OBVIOUS
    <3>1. m < j /\ m \in DOMAIN facts /\ j \in DOMAIN facts
      BY <1>1, <1>3, <2>1
    <3> QED BY <3>1 DEF Before
  <2> QED BY <2>1, <2>2 DEF Distinct
<1> QED BY <1>2, <1>3

\* Two facts that say different things about a key the upload speaks of are in a conflict.
LEMMA TwoConflict ==
  ASSUME KnowledgeTypeOK, NEW s \in Sources, NEW k \in SpeaksOf(s),
         NEW i \in Group(s, k), NEW j \in Group(s, k), Said(Placed(s)[i]) # Said(Placed(s)[j])
  PROVE  k \in InConflict(s)
<1> DEFINE D == Distinct(s, k)
<1>1. PICK m \in D : Said(Placed(s)[m]) = Said(Placed(s)[i])
  BY OneStands
<1>2. PICK n \in D : Said(Placed(s)[n]) = Said(Placed(s)[j])
  BY OneStands
<1>3. IsFiniteSet(D) /\ {m, n} \in SUBSET D /\ m # n
  BY <1>1, <1>2, GroupType
<1> HIDE DEF D
<1>4. IsFiniteSet({m}) /\ n \notin {m} /\ Cardinality({m}) = 1 /\ {m} \cup {n} = {m, n}
  BY <1>3, FS_Singleton
<1>5. Cardinality({m, n}) = 2
  <2>1. Cardinality({m} \cup {n}) = Cardinality({m}) + 1
    BY <1>4, FS_AddElement
  <2> QED BY <1>4, <2>1
<1>6. Cardinality({m, n}) <= Cardinality(D) /\ Cardinality(D) \in Nat
  BY <1>3, FS_Subset, FS_CardinalityType
<1>7. Cardinality(D) >= 2
  BY <1>5, <1>6
<1> QED BY <1>7 DEF InConflict, D

\* What is recorded under a key is a contradiction among what stands there.
LEMMA ConflictType ==
  ASSUME KnowledgeTypeOK, NEW s \in Sources, NEW k \in InConflict(s)
  PROVE  /\ Conflict(s, k) \in ConflictRecords
         /\ Conflict(s, k).ids = Distinct(s, k)
<1> DEFINE D == Distinct(s, k)
           Wins(i) == \A j \in D : PriorityOf(s, i) <= PriorityOf(s, j)
           P == {PriorityOf(s, i) : i \in D}
<1>1. D \subseteq 1..Len(Placed(s)) /\ D \in SUBSET Nat /\ Placed(s) \in Seq(FactRecords)
  BY GroupType, PlacedFacts
<1>2. \A i \in D : PriorityOf(s, i) \in Nat
  <2> SUFFICES ASSUME NEW i \in D PROVE PriorityOf(s, i) \in Nat
    OBVIOUS
  <2>1. Placed(s)[i] \in FactRecords
    BY <1>1
  <2> QED BY <2>1, KnowledgeAssumption DEF PriorityOf, FactRecords
<1>3. D # {}
  <2>1. Cardinality(D) >= 2
    BY DEF InConflict
  <2>2. SUFFICES ASSUME D = {} PROVE FALSE
    OBVIOUS
  <2>3. Cardinality(D) = 0
    <3> HIDE DEF D
    <3> QED BY <2>2, FS_EmptySet
  <2> QED BY <2>1, <2>3
<1>4. \E i \in D : Wins(i)
  <2>1. P \subseteq Nat /\ P # {}
    <3> HIDE DEF D
    <3> QED BY <1>2, <1>3
  <2>2. PICK m \in P : \A q \in P : m <= q
    <3> HIDE DEF P
    <3> QED BY <2>1, LeastNumber
  <2> QED BY <2>2
<1>5. (CHOOSE i \in D : Wins(i)) \in D
  <2> HIDE DEF D, Wins
  <2> QED BY <1>4
<1>6. k \in Keys
  <2>1. PICK n \in DOMAIN Content[s] : k = Content[s][n].key
    BY DEF InConflict, SpeaksOf
  <2>2. Content[s] \in Seq([key : Keys, value : Values])
    BY KnowledgeAssumption
  <2>3. DOMAIN Content[s] = 1..Len(Content[s]) /\ Content[s][n].key \in Keys
    <3> DEFINE c == Content[s]
    <3>1. c \in Seq([key : Keys, value : Values]) /\ n \in DOMAIN c
      BY <2>1, <2>2
    <3> HIDE DEF c
    <3>2. DOMAIN c = 1..Len(c) /\ c[n].key \in Keys
      BY <3>1, CellType
    <3> QED BY <3>2 DEF c
  <2> QED BY <2>1, <2>3
<1>7. \/ Conflict(s, k) = [key |-> k, ids |-> D, resolution |-> "prefer_higher_priority",
                          winner |-> CHOOSE i \in D : Wins(i)]
      \/ Conflict(s, k) = [key |-> k, ids |-> D, resolution |-> "pending", winner |-> 0]
  BY DEF Conflict
<1> HIDE DEF Wins
<1>8. (CHOOSE i \in D : Wins(i)) \in Nat
  BY <1>1, <1>5
<1> DEFINE w == CHOOSE i \in D : Wins(i)
<1>9. D \in SUBSET Nat /\ w \in Nat
  BY <1>1, <1>8
<1>10. \/ Conflict(s, k) = [key |-> k, ids |-> D, resolution |-> "prefer_higher_priority",
                           winner |-> w]
       \/ Conflict(s, k) = [key |-> k, ids |-> D, resolution |-> "pending", winner |-> 0]
  BY <1>7
<1> HIDE DEF w, D
<1> DEFINE e == Conflict(s, k)
<1> HIDE DEF e
<1>11. Conflict(s, k) \in ConflictRecords /\ Conflict(s, k).ids = D
  <2>1. \E r \in {"pending", "prefer_higher_priority"}, v \in Nat :
          e = [key |-> k, ids |-> D, resolution |-> r, winner |-> v]
    BY <1>9, <1>10 DEF e
  <2>2. e \in ConflictRecords /\ e.ids = D
    BY <1>6, <1>9, <2>1 DEF ConflictRecords
  <2> QED BY <2>2 DEF e
<1> QED BY <1>11 DEF D

\* Each key in conflict has its contradiction on record, and nothing else has.
LEMMA RecordedType ==
  ASSUME KnowledgeTypeOK, NEW s \in Sources
  PROVE  /\ Recorded(s) \in Seq({Conflict(s, k) : k \in InConflict(s)})
         /\ \A k \in InConflict(s) : \E n \in DOMAIN Recorded(s) : Recorded(s)[n] = Conflict(s, k)
<1> DEFINE key(p) == Content[s][p].key
           firsts == {p \in DOMAIN Content[s] :
                        key(p) \in InConflict(s) /\ \A q \in 1..p - 1 : key(q) # key(p)}
           places == [p \in DOMAIN Content[s] |-> p]
           order == Only(places, firsts)
           C == {Conflict(s, k) : k \in InConflict(s)}
<1>1. Len(Content[s]) \in Nat /\ DOMAIN Content[s] = 1..Len(Content[s])
  BY PlacedFacts
<1>2. places \in Seq(Nat) /\ ToSet(places) = DOMAIN Content[s]
  <2>1. places \in [1..Len(Content[s]) -> Nat]
    BY <1>1
  <2>2. DOMAIN places = DOMAIN Content[s] /\ \A p \in DOMAIN Content[s] : places[p] = p
    OBVIOUS
  <2> HIDE DEF places
  <2>3. ToSet(places) = DOMAIN Content[s]
    BY <2>2 DEF ToSet
  <2> QED BY <1>1, <2>1, <2>3, Built
<1>3. order \in Seq(Nat) /\ ToSet(order) = DOMAIN Content[s] \cap firsts
  <2> HIDE DEF places, firsts
  <2> QED BY <1>2, OnlySelects
<1>4. Recorded(s) = [n \in DOMAIN order |-> Conflict(s, key(order[n]))]
  BY DEF Recorded
<1> HIDE DEF order
<1>5. DOMAIN order = 1..Len(order) /\ Len(order) \in Nat
  BY <1>3
<1>6. \A n \in DOMAIN order : order[n] \in firsts
  BY <1>3 DEF ToSet
<1>7. \A n \in DOMAIN order : Conflict(s, key(order[n])) \in C
  BY <1>6
<1> HIDE DEF C
<1>8. Recorded(s) \in Seq(C)
  BY <1>4, <1>5, <1>7
<1>9. ASSUME NEW k \in InConflict(s)
      PROVE  \E n \in DOMAIN Recorded(s) : Recorded(s)[n] = Conflict(s, k)
  <2> DEFINE T == {p \in DOMAIN Content[s] : key(p) = k}
  <2>1. T \subseteq Nat /\ T # {}
    BY <1>1 DEF InConflict, SpeaksOf
  <2>2. PICK m \in T : \A p \in T : m <= p
    <3> HIDE DEF T
    <3> QED BY <2>1, LeastNumber
  <2>3. \A q \in 1..m - 1 : key(q) # key(m)
    <3> SUFFICES ASSUME NEW q \in 1..m - 1, key(q) = key(m) PROVE FALSE
      OBVIOUS
    <3>1. m \in 1..Len(Content[s])
      BY <1>1, <2>2
    <3>2. q \in 1..Len(Content[s]) /\ ~(m <= q)
      BY <1>1, <3>1
    <3>3. q \in T
      BY <1>1, <2>2, <3>2
    <3> QED BY <2>2, <3>2, <3>3
  <2>4. m \in ToSet(order)
    BY <1>3, <2>2, <2>3
  <2>5. PICK n \in DOMAIN order : order[n] = m
    BY <2>4 DEF ToSet
  <2>6. Recorded(s)[n] = Conflict(s, k) /\ n \in DOMAIN Recorded(s)
    BY <1>4, <2>2, <2>5
  <2> QED BY <2>6
<1> QED BY <1>8, <1>9 DEF C

-----------------------------------------------------------------------------
(***************************************************************************)
(* The steps of the knowledge.                                             *)
(***************************************************************************)
\* A step uploads, approves, resolves, or leaves the knowledge alone.
LEMMA KnowledgeSteps ==
  ASSUME [Next]_vars
  PROVE  \/ \E s \in Sources : Ingest(s)
         \/ \E i \in DOMAIN facts : ApproveFact(i)
         \/ \E c \in DOMAIN conflicts : \E i \in conflicts[c].ids : ResolveContradiction(c, i)
         \/ UNCHANGED knowledge
BY DEF Next, vars, PutActivity, UpsertTenant, RunPreflight, StartSimulation, FinishSimulation,
       Activate, Transition, Upload, Approve, Resolve

\* What an upload leaves: the facts marked, the contradictions recorded.
LEMMA IngestType ==
  ASSUME KnowledgeTypeOK, NEW s \in Sources, Ingest(s)
  PROVE  /\ KnowledgeTypeOK'
         /\ Len(facts') = Len(Placed(s)) /\ DOMAIN facts' = 1..Len(Placed(s))
         /\ \A i \in 1..Len(Placed(s)) : facts'[i] = Marked(s, i)
         /\ \A k \in InConflict(s) :
              \E c \in DOMAIN conflicts' \ DOMAIN conflicts : conflicts'[c] = Conflict(s, k)
<1> DEFINE p == Placed(s)
           C == {Conflict(s, k) : k \in InConflict(s)}
<1>1. p \in Seq(FactRecords) /\ Len(facts) \in Nat /\ Len(facts) <= Len(p)
      /\ DOMAIN facts = 1..Len(facts)
  BY PlacedFacts
<1>2. Len(p) \in Nat /\ DOMAIN p = 1..Len(p)
  <2> HIDE DEF p
  <2> QED BY <1>1
<1>3. facts' = [i \in DOMAIN p |-> Marked(s, i)] /\ conflicts' = conflicts \o Recorded(s)
  BY DEF Ingest
<1>4. \A i \in 1..Len(p) : Marked(s, i) \in FactRecords
  BY Marking
<1>5. facts' \in Seq(FactRecords) /\ Len(facts') = Len(p)
  <2>1. facts' \in [1..Len(p) -> FactRecords]
    <3> HIDE DEF p
    <3> QED BY <1>2, <1>3, <1>4
  <2> QED BY <1>2, <2>1, Built
<1>6. DOMAIN facts' = 1..Len(p) /\ \A i \in 1..Len(p) : facts'[i] = Marked(s, i)
  <2> HIDE DEF p
  <2> QED BY <1>2, <1>3
<1>7. C \subseteq ConflictRecords /\ \A e \in C : e.ids \subseteq 1..Len(p)
  <2> SUFFICES ASSUME NEW k \in InConflict(s)
               PROVE  Conflict(s, k) \in ConflictRecords /\ Conflict(s, k).ids \subseteq 1..Len(p)
    OBVIOUS
  <2> QED BY ConflictType, GroupType
<1>8. Recorded(s) \in Seq(C)
      /\ \A k \in InConflict(s) : \E n \in DOMAIN Recorded(s) : Recorded(s)[n] = Conflict(s, k)
  BY RecordedType
<1> HIDE DEF C, p
<1> DEFINE r == Recorded(s)
<1> HIDE DEF r
<1>9. r \in Seq(C) /\ r \in Seq(ConflictRecords) /\ conflicts \in Seq(ConflictRecords)
      /\ conflicts' = conflicts \o r
  BY <1>3, <1>7, <1>8 DEF KnowledgeTypeOK, r
<1>10. /\ conflicts' \in Seq(ConflictRecords) /\ Len(conflicts') = Len(conflicts) + Len(r)
       /\ Len(conflicts) \in Nat /\ Len(r) \in Nat
       /\ \A i \in 1..Len(conflicts) : conflicts'[i] = conflicts[i]
       /\ \A i \in 1..(Len(conflicts) + Len(r)) :
            i > Len(conflicts) => conflicts'[i] = r[i - Len(conflicts)]
  BY <1>9, Joined
<1>11. /\ DOMAIN conflicts = 1..Len(conflicts) /\ DOMAIN r = 1..Len(r)
       /\ DOMAIN conflicts' = 1..(Len(conflicts) + Len(r))
  BY <1>9, <1>10
<1>12. ASSUME NEW c \in DOMAIN conflicts' PROVE conflicts'[c].ids \subseteq DOMAIN facts'
  <2>1. CASE c > Len(conflicts)
    <3>1. c - Len(conflicts) \in 1..Len(r) /\ conflicts'[c] = r[c - Len(conflicts)]
      BY <1>10, <1>11, <2>1
    <3>2. r[c - Len(conflicts)] \in C
      BY <1>9, <3>1, ElementType
    <3> QED BY <1>6, <1>7, <3>1, <3>2
  <2>2. CASE ~(c > Len(conflicts))
    <3>1. c \in DOMAIN conflicts /\ conflicts'[c] = conflicts[c]
      BY <1>10, <1>11, <2>2
    <3>2. conflicts[c].ids \subseteq DOMAIN facts
      BY <3>1 DEF KnowledgeTypeOK
    <3>3. DOMAIN facts \subseteq DOMAIN facts'
      BY <1>1, <1>2, <1>6
    <3> QED BY <3>1, <3>2, <3>3
  <2> QED BY <2>1, <2>2
<1>13. ASSUME NEW k \in InConflict(s)
       PROVE  \E c \in DOMAIN conflicts' \ DOMAIN conflicts : conflicts'[c] = Conflict(s, k)
  <2>1. PICK n \in DOMAIN r : r[n] = Conflict(s, k)
    BY <1>8 DEF r
  <2> DEFINE c == Len(conflicts) + n
  <2>2. c \in 1..(Len(conflicts) + Len(r)) /\ c > Len(conflicts) /\ c - Len(conflicts) = n
        /\ c \notin 1..Len(conflicts)
    BY <1>10, <1>11
  <2> HIDE DEF c
  <2>3. conflicts'[c] = Conflict(s, k)
    BY <1>10, <2>1, <2>2
  <2> QED BY <1>11, <2>2, <2>3
<1>14. KnowledgeTypeOK'
  BY <1>5, <1>10, <1>12 DEF KnowledgeTypeOK
<1> QED BY <1>5, <1>6, <1>13, <1>14 DEF p

\* The operator's decisions are about facts the store has; they keep the types and the facts.
LEMMA DecisionType ==
  ASSUME KnowledgeTypeOK,
         \/ \E i \in DOMAIN facts : ApproveFact(i)
         \/ \E c \in DOMAIN conflicts : \E i \in conflicts[c].ids : ResolveContradiction(c, i)
         \/ UNCHANGED knowledge
  PROVE  KnowledgeTypeOK' /\ DOMAIN facts' = DOMAIN facts /\ Len(facts') = Len(facts)
<1>1. facts \in Seq(FactRecords) /\ conflicts \in Seq(ConflictRecords)
      /\ \A c \in DOMAIN conflicts : conflicts[c].ids \subseteq DOMAIN facts
  BY DEF KnowledgeTypeOK
<1>2. /\ Len(facts) \in Nat /\ DOMAIN facts = 1..Len(facts)
      /\ \A i \in DOMAIN facts : facts[i] \in FactRecords
      /\ Len(conflicts) \in Nat /\ DOMAIN conflicts = 1..Len(conflicts)
      /\ \A c \in DOMAIN conflicts : conflicts[c] \in ConflictRecords
  BY <1>1, ElementType
<1>3. \A f \in FactRecords : \A t \in Statuses : [f EXCEPT !.status = t] \in FactRecords
  BY DEF FactRecords
<1>4. ASSUME NEW i \in DOMAIN facts, ApproveFact(i)
      PROVE  facts' \in [1..Len(facts) -> FactRecords] /\ conflicts' = conflicts
  BY <1>2, <1>3, <1>4 DEF ApproveFact, Statuses
<1>5. ASSUME NEW c \in DOMAIN conflicts, NEW w \in conflicts[c].ids, ResolveContradiction(c, w)
      PROVE  /\ facts' \in [1..Len(facts) -> FactRecords]
             /\ conflicts' \in [1..Len(conflicts) -> ConflictRecords]
             /\ \A d \in DOMAIN conflicts : conflicts'[d].ids = conflicts[d].ids
  <2>1. facts' \in [1..Len(facts) -> FactRecords]
    <3>1. \A i \in DOMAIN facts : \A t \in {"APPROVED", "SUPERSEDED"} :
            [facts[i] EXCEPT !.status = t] \in FactRecords
      BY <1>2, <1>3 DEF Statuses
    <3> QED BY <1>2, <1>5, <3>1 DEF ResolveContradiction
  <2>2. w \in Nat
    BY <1>1, <1>2
  <2>3. ASSUME NEW e \in ConflictRecords
        PROVE  /\ [e EXCEPT !.resolution = "operator_decided", !.winner = w] \in ConflictRecords
               /\ [e EXCEPT !.resolution = "operator_decided", !.winner = w].ids = e.ids
    BY <2>2 DEF ConflictRecords
  <2>4. conflicts' = [conflicts EXCEPT ![c] =
          [conflicts[c] EXCEPT !.resolution = "operator_decided", !.winner = w]]
    <3>1. conflicts' = [conflicts EXCEPT ![c].resolution = "operator_decided", ![c].winner = w]
      BY <1>5 DEF ResolveContradiction
    <3> QED BY <1>2, <3>1 DEF ConflictRecords
  <2> DEFINE d == [conflicts[c] EXCEPT !.resolution = "operator_decided", !.winner = w]
  <2>5. d \in ConflictRecords /\ d.ids = conflicts[c].ids
    BY <1>2, <2>3
  <2>6. conflicts' = [conflicts EXCEPT ![c] = d]
    BY <2>4
  <2> HIDE DEF d
  <2>7. conflicts' \in [1..Len(conflicts) -> ConflictRecords]
    BY <1>2, <2>5, <2>6
  <2>8. \A b \in DOMAIN conflicts : conflicts'[b].ids = conflicts[b].ids
    BY <1>2, <2>5, <2>6
  <2> QED BY <2>1, <2>7, <2>8
<1>6. CASE UNCHANGED knowledge
  BY <1>6 DEF KnowledgeTypeOK, knowledge
<1>7. ASSUME NEW i \in DOMAIN facts, ApproveFact(i)
      PROVE  KnowledgeTypeOK' /\ DOMAIN facts' = DOMAIN facts /\ Len(facts') = Len(facts)
  <2>1. facts' \in Seq(FactRecords) /\ Len(facts') = Len(facts) /\ DOMAIN facts' = DOMAIN facts
    BY <1>2, <1>4, <1>7, Built
  <2> QED BY <1>1, <1>4, <1>7, <2>1 DEF KnowledgeTypeOK
<1>8. ASSUME NEW c \in DOMAIN conflicts, NEW w \in conflicts[c].ids, ResolveContradiction(c, w)
      PROVE  KnowledgeTypeOK' /\ DOMAIN facts' = DOMAIN facts /\ Len(facts') = Len(facts)
  <2>1. facts' \in Seq(FactRecords) /\ Len(facts') = Len(facts) /\ DOMAIN facts' = DOMAIN facts
    BY <1>2, <1>5, <1>8, Built
  <2>2. conflicts' \in Seq(ConflictRecords) /\ DOMAIN conflicts' = DOMAIN conflicts
    BY <1>2, <1>5, <1>8, Built
  <2>3. \A d \in DOMAIN conflicts : conflicts'[d].ids = conflicts[d].ids
    BY <1>5, <1>8
  <2> QED BY <1>1, <2>1, <2>2, <2>3 DEF KnowledgeTypeOK
<1> QED BY <1>6, <1>7, <1>8

\* The knowledge is well typed from the start, and stays so.
LEMMA KnowledgeType ==
  /\ Init => KnowledgeTypeOK
  /\ KnowledgeTypeOK /\ [Next]_vars => KnowledgeTypeOK'
<1>1. Init => KnowledgeTypeOK
  BY DEF Init, KnowledgeInit, KnowledgeTypeOK
<1>2. ASSUME KnowledgeTypeOK, [Next]_vars PROVE KnowledgeTypeOK'
  BY <1>2, KnowledgeSteps, IngestType, DecisionType
<1> QED BY <1>1, <1>2

\* So does the record under the key, with what is known of its versions.
LEMMA ControlType ==
  /\ Init => ControlTypeOK
  /\ Inv /\ ControlTypeOK /\ [Next]_vars => ControlTypeOK'
<1>1. Init => ControlTypeOK
  BY ControlAssumption
  DEF Init, ControlTypeOK, ActivityRecords, Versions, ReadinessStates
<1>2. ASSUME Inv, ControlTypeOK, [Next]_vars PROVE ControlTypeOK'
  <2>1. HasBlueprint' /\ MaxPuts \in Nat /\ NoBlueprint \notin Blueprints
    BY <1>2, NextInv, ControlAssumption DEF Inv
  <2>2. activity.version \in 0..MaxPuts /\ (activity.version = 0 => activity.blueprint = NoBlueprint)
    BY <1>2, <2>1 DEF ControlTypeOK, ActivityRecords, Versions
  <2>3. /\ activity'.version \in 0..MaxPuts
        /\ activity'.version = 0 => activity'.blueprint = NoBlueprint
    <3>1. CASE activity'.version = activity.version /\ activity'.blueprint = activity.blueprint
      BY <2>2, <3>1
    <3>2. ASSUME NEW b \in Blueprints, PutActivity(b) PROVE activity'.version \in 1..MaxPuts
      BY <2>1, <2>2, <3>2 DEF PutActivity
    <3>3. CASE \E b \in Blueprints : PutActivity(b)
      BY <2>1, <3>2, <3>3
    <3>4. CASE ~(\E b \in Blueprints : PutActivity(b))
      <4>1. activity \in [version : Nat, blueprint : Blueprints \cup {NoBlueprint},
                   state : ReadinessStates, preflight : {"none", "READY", "BLOCKED"},
                   simulation : {"none", "passed", "failed"}]
        BY <1>2 DEF Inv, HasBlueprint
      <4>2. activity'.version = activity.version /\ activity'.blueprint = activity.blueprint
        BY <1>2, <3>4, <4>1
        DEF Next, vars, control, UpsertTenant, RunPreflight, StartSimulation, FinishSimulation,
            SimulationKept, Activate, Transition, Upload, Approve, Resolve
      <4> QED BY <3>1, <4>2
    <3> QED BY <3>3, <3>4
  <2>4. activity' \in ActivityRecords /\ (activity'.version > 0 <=> activity'.blueprint \in Blueprints)
    BY <2>1, <2>3 DEF HasBlueprint, ActivityRecords, Versions
  <2>5. /\ tenant' \in {"none", "enabled", "disabled"} /\ simulating' \subseteq Versions
        /\ preflightsReady' \subseteq Versions /\ simsPassed' \subseteq Versions
    BY <1>2 DEF ControlTypeOK, ActivityRecords, Next, vars, control, PutActivity, UpsertTenant,
                RunPreflight, StartSimulation, FinishSimulation, Activate, Transition, Upload,
                Approve, Resolve
  <2> QED BY <2>4, <2>5 DEF ControlTypeOK
<1> QED BY <1>1, <1>2

\* The state of the control plane is well typed.
THEOREM TypeCorrect == Spec => []TypeOK
<1>1. Init => TypeOK
  BY KnowledgeType, ControlType DEF TypeOK
<1>2. Inv /\ TypeOK /\ [Next]_vars => TypeOK'
  BY KnowledgeType, ControlType DEF TypeOK
<1> QED BY <1>1, <1>2, SpecInv, PTL DEF Spec

-----------------------------------------------------------------------------
(***************************************************************************)
(* What an upload does.                                                    *)
(***************************************************************************)
NothingApproved ==
  Len(facts') > Len(facts) =>
    {i \in DOMAIN facts' : facts'[i].status = "APPROVED"}
      \subseteq {i \in DOMAIN facts : facts[i].status = "APPROVED"}

Detected ==
  \A i, j \in DOMAIN facts' :
    /\ j \notin DOMAIN facts /\ facts'[j].kind = "attribute"
    /\ i \in DOMAIN facts => Live(facts[i])
    /\ facts'[i].kind = "attribute" /\ facts'[i].key = facts'[j].key
    /\ facts'[i].value # facts'[j].value
    => \E c \in DOMAIN conflicts' \ DOMAIN conflicts :
         {Said(facts'[i]), Said(facts'[j])} \subseteq {Said(facts'[n]) : n \in conflicts'[c].ids}

\* What an upload marks is never approved, and what the store had stays as it was.
LEMMA IngestApproves ==
  ASSUME KnowledgeTypeOK, NEW s \in Sources, Ingest(s)
  PROVE  NothingApproved
<1> SUFFICES ASSUME NEW i \in DOMAIN facts', facts'[i].status = "APPROVED"
             PROVE  i \in DOMAIN facts /\ facts[i].status = "APPROVED"
  BY DEF NothingApproved
<1>1. i \in 1..Len(Placed(s)) /\ facts'[i] = Marked(s, i)
  BY IngestType
<1>2. Len(facts) \in Nat /\ DOMAIN facts = 1..Len(facts) /\ Len(Placed(s)) \in Nat
  BY PlacedFacts
<1>3. i <= Len(facts)
  BY <1>1, <1>2, Marking
<1> QED BY <1>1, <1>2, <1>3, Marking

\* A new attribute that differs from a live one, or from another new one, about its key is
\* compared with it, so that what both say stands in the contradiction recorded under the key.
LEMMA IngestDetects ==
  ASSUME KnowledgeTypeOK, NEW s \in Sources, Ingest(s)
  PROVE  Detected
<1> SUFFICES ASSUME NEW i \in DOMAIN facts', NEW j \in DOMAIN facts',
                    j \notin DOMAIN facts, facts'[j].kind = "attribute",
                    i \in DOMAIN facts => Live(facts[i]),
                    facts'[i].kind = "attribute", facts'[i].key = facts'[j].key,
                    facts'[i].value # facts'[j].value
             PROVE  \E c \in DOMAIN conflicts' \ DOMAIN conflicts :
                      {Said(facts'[i]), Said(facts'[j])}
                        \subseteq {Said(facts'[n]) : n \in conflicts'[c].ids}
  BY DEF Detected
<1> DEFINE p == Placed(s)
           k == p[j].key
<1>1. /\ Len(facts) \in Nat /\ DOMAIN facts = 1..Len(facts) /\ Len(p) \in Nat
      /\ Len(Content[s]) \in Nat /\ DOMAIN Content[s] = 1..Len(Content[s])
  BY PlacedFacts
<1>2. i \in 1..Len(p) /\ j \in 1..Len(p)
  BY IngestType
<1>3. ASSUME NEW n \in 1..Len(p)
      PROVE  /\ Said(facts'[n]) = Said(p[n]) /\ facts'[n].key = p[n].key
             /\ facts'[n].kind = p[n].kind /\ facts'[n].value = p[n].value
             /\ n <= Len(facts) => p[n] = facts[n]
  BY <1>3, IngestType, Marking, PlacedFacts
<1>4. p[i].key = k /\ p[i].kind = "attribute" /\ p[j].kind = "attribute" /\ p[i].value # p[j].value
  BY <1>2, <1>3
<1>5. ASSUME NEW n \in 1..Len(p), n \notin DOMAIN facts, p[n].kind = "attribute"
      PROVE  n \in NewAttributes(s)
  <2>1. n > Len(facts)
    BY <1>1, <1>5
  <2>2. ~(n > Len(facts) + Len(Content[s]))
    BY <1>5, <2>1, PlacedFacts
  <2> QED BY <1>1, <2>1, <2>2 DEF NewAttributes
<1>6. j \in NewAttributes(s) /\ j \in Group(s, k)
  BY <1>2, <1>4, <1>5 DEF Group
<1>7. i \in Group(s, k)
  <2>1. CASE i \in DOMAIN facts
    <3>1. facts[i] = p[i]
      BY <1>1, <1>2, <1>3, <2>1
    <3> QED BY <1>4, <2>1, <3>1 DEF Group
  <2>2. CASE i \notin DOMAIN facts
    BY <1>2, <1>4, <1>5, <2>2 DEF Group
  <2> QED BY <2>1, <2>2
<1>8. k \in SpeaksOf(s)
  <2> DEFINE n == j - Len(facts)
  <2>1. n \in 1..Len(Content[s]) /\ Len(facts) + n = j
    BY <1>1, <1>6 DEF NewAttributes
  <2> HIDE DEF n
  <2>2. p[j] = Attributes(s)[n]
    BY <2>1, PlacedFacts
  <2>3. k = Content[s][n].key
    BY <1>1, <2>1, <2>2 DEF Attributes
  <2> QED BY <1>1, <2>1, <2>3 DEF SpeaksOf
<1> HIDE DEF k
<1>9. Said(p[i]) # Said(p[j])
  BY <1>4 DEF Said
<1>10. k \in InConflict(s)
  BY <1>6, <1>7, <1>8, <1>9, TwoConflict
<1>11. PICK c \in DOMAIN conflicts' \ DOMAIN conflicts : conflicts'[c] = Conflict(s, k)
  BY <1>10, IngestType
<1>12. conflicts'[c].ids = Distinct(s, k)
  BY <1>10, <1>11, ConflictType
<1>13. ASSUME NEW m \in {i, j} PROVE Said(facts'[m]) \in {Said(facts'[n]) : n \in Distinct(s, k)}
  <2>1. PICK n \in Distinct(s, k) : Said(p[n]) = Said(p[m])
    BY <1>6, <1>7, <1>13, OneStands
  <2>2. n \in 1..Len(p) /\ m \in 1..Len(p)
    BY <1>2, <1>13, <2>1, GroupType
  <2> QED BY <1>3, <2>1, <2>2
<1> QED BY <1>11, <1>12, <1>13

\* No step but an upload adds facts.
LEMMA KnowledgeSafe ==
  ASSUME KnowledgeTypeOK, [Next]_vars
  PROVE  [NothingApproved]_knowledge /\ [Detected]_knowledge
<1>1. CASE \E s \in Sources : Ingest(s)
  BY <1>1, IngestApproves, IngestDetects
<1>2. CASE ~(\E s \in Sources : Ingest(s))
  <2>1. DOMAIN facts' = DOMAIN facts /\ Len(facts') = Len(facts) /\ Len(facts) \in Nat
    <3>1. Len(facts) \in Nat
      BY DEF KnowledgeTypeOK
    <3> QED BY <1>2, <3>1, KnowledgeSteps, DecisionType
  <2> QED BY <2>1 DEF NothingApproved, Detected
<1> QED BY <1>1, <1>2

\* No upload approves anything: what a session may speak of changes with the operator only.
THEOREM NothingIsApproved == Spec => UploadsApproveNothing
<1>1. TypeOK /\ [Next]_vars => [NothingApproved]_knowledge
  BY KnowledgeSafe DEF TypeOK
<1> QED BY <1>1, TypeCorrect, PTL DEF Spec, UploadsApproveNothing, NothingApproved

\* Whatever an upload says that differs from a live statement is in a contradiction it records.
THEOREM ConflictsAreFound == Spec => ConflictsDetected
<1>1. TypeOK /\ [Next]_vars => [Detected]_knowledge
  BY KnowledgeSafe DEF TypeOK
<1> QED BY <1>1, TypeCorrect, PTL DEF Spec, ConflictsDetected, Detected
=============================================================================
