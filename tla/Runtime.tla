------------------------------ MODULE Runtime ------------------------------
(***************************************************************************)
(* The runtime a process keeps in memory (runtime/store.py) and the routes *)
(* that work on it (runtime/app.py): the registry of sessions, the event   *)
(* log, the contacts and the outbound attempts with their calls, and the   *)
(* provider keys.  Every operation below is one step, because its code     *)
(* does not suspend: build_session and the start of the task that runs the *)
(* session come without an await between them, and the simulated dial has  *)
(* none either.                                                            *)
(*                                                                         *)
(* What a session does is in the modules of the session; here it logs      *)
(* events, decides, closes with its record, and its task ends, with a      *)
(* record or without (Connection.tla shows how that comes about).  The     *)
(* activities and their compositions are given: ControlPlane.tla is about  *)
(* how activities come into the store.                                     *)
(***************************************************************************)
EXTENDS Access, Contacts, Credentials, SequencesExt

CONSTANTS
  Sessions,        \* session ids
  Activities,      \* activities in the store
  TenantOfActivity,
  OutboundHooks,   \* from the activities that may call out to their hooks
  Compositions,    \* from composition ids to [s2s, typed]: adapter, typed decisions?
  Pinned,          \* the composition the blueprint of an activity pins, or Absent
  Default,         \* default_composition_id
  ContactRefs,
  Keys,            \* keys an operator may enter
  KeyNames,        \* ... under these names
  MaxEvents, MaxSessions, MaxSessionEvents,
  MaxOps           \* bound: operations of a behaviour

ASSUME LimitsAreNat ==
  MaxEvents \in Nat \ {0} /\ MaxSessions \in Nat /\ MaxSessionEvents \in Nat /\ MaxOps \in Nat

ASSUME StoreIsGiven ==
  /\ TenantOfActivity \in [Activities -> Tenants] /\ Activities # {}
  /\ DOMAIN OutboundHooks \subseteq Activities
  /\ \A a \in DOMAIN OutboundHooks : OutboundHooks[a] \in Hooks
  /\ Default \in DOMAIN Compositions
  /\ Pinned \in [Activities -> DOMAIN Compositions \cup {Absent}]

VARIABLES
  sessions,        \* the registry: session ids, oldest first
  live,            \* what is known of a session that was built
  event_log, event_log_base,
  contacts,
  attempts,        \* outbound_attempts, with the call of each
  admin_store, ephemeral,
  typesafe,        \* the key of the one typed-decision adapter
  logged,          \* every event there was (history)
  ops              \* operations so far

registry == <<sessions, live>>
log == <<event_log, event_log_base, logged>>
outbound == <<contacts, attempts>>
credentials == <<admin_store, ephemeral, typesafe>>
vars == <<registry, log, outbound, credentials, ops>>

NoAttempt == 0
NoSession == "no session"

ASSUME NoSessionIsNone == NoSession \notin Sessions

\* A tenant has a name; None stands for no tenant.
ASSUME AbsentIsNoTenant == Absent \notin Tenants

AllTenants == Tenants \cup {Everybody}
Slots == AllTenants \X (KeyNames \cup {"typesafe"})
KeysThere == Keys \cup EnvSet

Events == [session : Sessions, tenant : Tenants, seq : 1..MaxOps]

LiveSessions ==
  [task : {"not built", "running", "done"}, record : BOOLEAN,
   activity : Activities, composition : DOMAIN Compositions,
   source : Sources, attempt : Nat,
   emitted : Nat, events : Seq(Events)]

\* How a call ended: not answered stands for no answer and for busy.
Calls == {"answered", "not answered"}

OutboundAttempts ==
  [activity : Activities, contact : ContactRefs,
   refusals : SUBSET ContactRefusal, call : Calls \cup {Absent},
   session : Sessions \cup {NoSession}]

TypeOK ==
  /\ sessions \in Seq(Sessions)
  /\ live \in [Sessions -> LiveSessions]
  /\ event_log \in Seq(Events) /\ event_log_base \in Nat /\ logged \in Seq(Events)
  /\ contacts \in [ContactRefs -> ContactStates]
  /\ attempts \in Seq(OutboundAttempts)
  /\ DOMAIN admin_store \subseteq Slots /\ \A s \in DOMAIN admin_store : admin_store[s] \in Keys
  /\ DOMAIN ephemeral \subseteq Slots
  /\ \A s \in DOMAIN ephemeral : ephemeral[s] \in [key : Keys, expired : BOOLEAN]
  /\ typesafe \in KeysThere \cup {NoKey}
  /\ ops \in 0..MaxOps
  /\ Len(event_log) <= MaxEvents /\ \A s \in Sessions : Len(live[s].events) <= MaxSessionEvents

NotBuilt ==
  [task |-> "not built", record |-> FALSE, activity |-> CHOOSE a \in Activities : TRUE,
   composition |-> Default, source |-> "none",
   attempt |-> NoAttempt, emitted |-> 0, events |-> <<>>]

Init ==
  /\ sessions = <<>> /\ live = [s \in Sessions |-> NotBuilt]
  /\ event_log = <<>> /\ event_log_base = 0 /\ logged = <<>>
  /\ contacts = [c \in ContactRefs |-> Unknown] /\ attempts = <<>>
  /\ admin_store = <<>> /\ ephemeral = <<>> /\ typesafe = NoKey
  /\ ops = 0

Operation == ops < MaxOps /\ ops' = ops + 1

-----------------------------------------------------------------------------
(***************************************************************************)
(* The registry of sessions                                                *)
(***************************************************************************)
Running(s) == live[s].task = "running"

\* Fault seeded below: a session that has its record is over.
Finished_Recorded(l, s) == l[s].record

\* A session may be forgotten when it has its record and its task is over.
Finished(l, s) == l[s].record /\ l[s].task # "running"

\* As many finished sessions as are too many go, the oldest first.
prune_sessions(reg, l) ==
  LET excess == Len(reg) - MaxSessions
      over == {i \in DOMAIN reg : Finished(l, reg[i])}
      gone == {reg[i] : i \in {j \in over : Cardinality({k \in over : k <= j}) <= excess}}
  IN  Only(reg, ToSet(reg) \ gone)

\* The composition a session runs on: the one asked for by its id or as the pinned one,
\* or the default.
composition_for(a, asked) ==
  LET cid == IF asked = "pinned" THEN Pinned[a] ELSE asked
  IN  IF cid = Absent THEN Default ELSE cid

\* build_session, and _pump up to its first await.  The key of the speech provider is
\* resolved, then the one of the typed decisions when the composition has them; that key
\* is put into the adapter all sessions share.
BuildSession(s, a, comp, attempt) ==
  LET t == TenantOfActivity[a]
      speech == resolve(Compositions[comp].s2s, t, admin_store, ephemeral)
      left == LeftAfter(Compositions[comp].s2s, t, admin_store, ephemeral)
      typed == resolve("typesafe", t, admin_store, left)
      l == [live EXCEPT ![s] =
              [NotBuilt EXCEPT !.task = "running", !.activity = a, !.composition = comp,
                               !.source = speech.source, !.attempt = attempt]]
  IN  /\ live' = l
      /\ sessions' = prune_sessions(Append(sessions, s), l)
      /\ IF Compositions[comp].typed
         THEN typesafe' = typed.key /\ ephemeral' = LeftAfter("typesafe", t, admin_store, left)
         ELSE typesafe' = typesafe /\ ephemeral' = left
      /\ UNCHANGED admin_store

\* new_id: an id nobody has yet.
Fresh == {s \in Sessions : live[s].task = "not built" /\ s = CHOOSE x \in Sessions : live[x].task = "not built"}

\* ws_session, for an activity and a composition that exist.
WsSession(s, a, asked) ==
  /\ Operation
  /\ BuildSession(s, a, composition_for(a, asked), NoAttempt)
  /\ UNCHANGED <<log, outbound>>

\* The session writes its record as it closes; its task goes on.
SessionCloses(s) ==
  /\ Operation
  /\ Running(s) /\ ~live[s].record
  /\ live' = [live EXCEPT ![s].record = TRUE]
  /\ UNCHANGED <<sessions, log, outbound, credentials>>

\* The task is over: it returned, it failed, which _run_guarded reports, or the handler of
\* the connection cancelled it.
TaskEnds(s) ==
  /\ Operation
  /\ Running(s)
  /\ live' = [live EXCEPT ![s].task = "done"]
  /\ UNCHANGED <<sessions, log, outbound, credentials>>

-----------------------------------------------------------------------------
(***************************************************************************)
(* The event log                                                           *)
(***************************************************************************)
\* Fault seeded below: the ring drops without moving its base.
LogEvent_BaseStays(e) ==
  LET grown == Append(event_log, e)
      over == Len(grown) - MaxEvents
  IN  /\ event_log' = IF over > 0 THEN SubSeq(grown, over + 1, Len(grown)) ELSE grown
      /\ event_log_base' = event_log_base
      /\ logged' = Append(logged, e)

LogEvent(e) ==
  LET grown == Append(event_log, e)
      over == Len(grown) - MaxEvents
  IN  /\ event_log' = IF over > 0 THEN SubSeq(grown, over + 1, Len(grown)) ELSE grown
      /\ event_log_base' = IF over > 0 THEN event_log_base + over ELSE event_log_base
      /\ logged' = Append(logged, e)

\* The sink of a session: its own list, cut at the front, and the log of the runtime.
\* (The mirror to the client is part of the transport, Connection.tla.)
SessionLogs(s) ==
  LET e == [session |-> s, tenant |-> TenantOfActivity[live[s].activity], seq |-> live[s].emitted + 1]
      grown == Append(live[s].events, e)
      over == Len(grown) - MaxSessionEvents
  IN  /\ Operation
      /\ Running(s)
      /\ live' = [live EXCEPT ![s].emitted = @ + 1,
                              ![s].events = IF over > 0 THEN SubSeq(grown, over + 1, Len(grown)) ELSE grown]
      /\ LogEvent(e)
      /\ UNCHANGED <<sessions, outbound, credentials>>

Page(s, limit) == SubSeq(s, 1, IF limit < Len(s) THEN limit ELSE Len(s))

EventsOf(tenant) == {e \in Events : e.tenant = tenant}

\* Fault seeded below: the filter counts what it skips.
events_since_CutFirst(since, limit, want) ==
  LET start == IF since > event_log_base THEN since - event_log_base ELSE 0
      from == SubSeq(event_log, start + 1, Len(event_log))
  IN  IF want = Absent THEN Page(from, limit)
      ELSE Only(Page(from, limit), EventsOf(want))

\* Absolute offsets: what was dropped from the front is before the list.
events_since(since, limit, want) ==
  LET start == IF since > event_log_base THEN since - event_log_base ELSE 0
      from == SubSeq(event_log, start + 1, Len(event_log))
  IN  IF want = Absent THEN Page(from, limit)
      ELSE Page(Only(from, EventsOf(want)), limit)

-----------------------------------------------------------------------------
(***************************************************************************)
(* Reading, for the operator or for one tenant                             *)
(***************************************************************************)
TenantOfSession(s) == TenantOfActivity[live[s].activity]

\* GET /api/sessions: a tenant's token counts before what the query asks for.
ListSessions(scoped, tenant) ==
  LET want == IF scoped # Absent THEN scoped ELSE tenant
  IN  Only(sessions, {s \in Sessions : want = Absent \/ TenantOfSession(s) = want})

\* GET /api/sessions/{sid}: the events of a session that is known, and one's own.
SessionDetail(scoped, s) ==
  IF s \in ToSet(sessions) /\ (scoped = Absent \/ TenantOfSession(s) = scoped)
  THEN live[s].events ELSE <<>>

\* Fault seeded below: the events of one session are not filtered by tenant.
ReadEvents_AnySession(scoped, tenant, s, since, limit) ==
  LET want == IF scoped # Absent THEN scoped ELSE tenant
  IN  IF s = NoSession THEN events_since(since, limit, want)
      ELSE IF s \in ToSet(sessions) THEN Page(live[s].events, limit) ELSE <<>>

\* GET /api/events
ReadEvents(scoped, tenant, s, since, limit) ==
  LET want == IF scoped # Absent THEN scoped ELSE tenant
  IN  IF s = NoSession THEN events_since(since, limit, want)
      ELSE IF s \in ToSet(sessions) /\ (want = Absent \/ TenantOfSession(s) = want)
      THEN Page(live[s].events, limit) ELSE <<>>

\* /api/health
SessionsLive == Cardinality({s \in ToSet(sessions) : Running(s)})

-----------------------------------------------------------------------------
(***************************************************************************)
(* Contacts and outbound attempts                                          *)
(***************************************************************************)
\* PUT /api/contacts/{contact_ref}: what the body names is set, here one thing at a time;
\* the attempts cannot be.
ContactPut(c, field, value) ==
  /\ Operation
  /\ contacts' = [contacts EXCEPT ![c][field] = value]
  /\ contacts' # contacts
  /\ UNCHANGED <<registry, log, attempts, credentials>>

Attempt(a, c, now, call, s) ==
  [activity |-> a, contact |-> c,
   refusals |-> evaluate_contact(OutboundHooks[a], contacts[c], now),
   call |-> call, session |-> s]

\* A contact the hooks refuse: the attempt is recorded, nobody is called.
OutboundRefused(a, c, now) ==
  /\ Operation
  /\ evaluate_contact(OutboundHooks[a], contacts[c], now) # {}
  /\ attempts' = Append(attempts, Attempt(a, c, now, Absent, NoSession))
  /\ UNCHANGED <<registry, log, contacts, credentials>>

\* The dial counts as an attempt whatever becomes of it.
Dial(a, c, now, call, s) ==
  /\ Operation
  /\ evaluate_contact(OutboundHooks[a], contacts[c], now) = {}
  /\ attempts' = Append(attempts, Attempt(a, c, now, call, s))
  /\ contacts' = [contacts EXCEPT ![c].attempts = @ + 1]

OutboundUnanswered(a, c, now) ==
  /\ Dial(a, c, now, "not answered", NoSession)
  /\ UNCHANGED <<registry, log, credentials>>

\* ws_outbound: an answered call becomes a session on the default composition.
OutboundAnswered(a, c, now, s) ==
  /\ Dial(a, c, now, "answered", s)
  /\ BuildSession(s, a, Default, Len(attempts) + 1)
  /\ UNCHANGED log

-----------------------------------------------------------------------------
(***************************************************************************)
(* Provider keys                                                           *)
(***************************************************************************)
\* set_admin, for the host of the runtime: no route leads to it.
SetAdmin(slot, key) ==
  /\ Operation
  /\ admin_store' = Put(admin_store, slot, key)
  /\ UNCHANGED <<registry, log, outbound, ephemeral, typesafe>>

\* POST /api/admin/test-key
SetTestKey(slot, key) ==
  /\ Operation
  /\ ephemeral' = Put(ephemeral, slot, [key |-> key, expired |-> FALSE])
  /\ UNCHANGED <<registry, log, outbound, admin_store, typesafe>>

\* DELETE /api/admin/test-key
ClearTestKey(p, t) ==
  /\ Operation
  /\ Cleared(p, t, ephemeral) # {}
  /\ ephemeral' = [s \in DOMAIN ephemeral \ Cleared(p, t, ephemeral) |-> ephemeral[s]]
  /\ UNCHANGED <<registry, log, outbound, admin_store, typesafe>>

\* The time of a test key runs out; nothing is done about it before somebody looks.
TestKeyExpires(slot) ==
  /\ Operation
  /\ Usable(ephemeral, slot)
  /\ ephemeral' = [ephemeral EXCEPT ![slot].expired = TRUE]
  /\ UNCHANGED <<registry, log, outbound, admin_store, typesafe>>

\* GET /api/admin/credentials/{provider}: a status resolves, and so forgets expired keys.
CredentialStatus(p, t) ==
  /\ Operation
  /\ LeftAfter(p, t, admin_store, ephemeral) # ephemeral
  /\ ephemeral' = LeftAfter(p, t, admin_store, ephemeral)
  /\ UNCHANGED <<registry, log, outbound, admin_store, typesafe>>

\* GET /api/compositions: the console offers a composition as ready.
Ready(comp) ==
  \/ Compositions[comp].s2s = "mock"
  \/ resolve(Compositions[comp].s2s, Everybody, admin_store, ephemeral).source # "none"

-----------------------------------------------------------------------------
OpenSession ==
  \E s \in Fresh, a \in Activities, asked \in DOMAIN Compositions \cup {Absent, "pinned"} :
    WsSession(s, a, asked)

SessionGoesOn == \E s \in Sessions : SessionCloses(s) \/ TaskEnds(s) \/ SessionLogs(s)

TellAboutContact ==
  \E c \in ContactRefs :
    \/ \E consent \in {"yes", "no"} : ContactPut(c, "consent", consent)
    \/ \E field \in {"opted_out", "suppressed"}, b \in BOOLEAN : ContactPut(c, field, b)
    \/ \E tags \in SUBSET Lists : ContactPut(c, "tags", tags)

CallOut ==
  \E a \in DOMAIN OutboundHooks, c \in ContactRefs, now \in Moments :
    \/ OutboundRefused(a, c, now)
    \/ OutboundUnanswered(a, c, now)
    \/ \E s \in Fresh : OutboundAnswered(a, c, now, s)

ManageKeys ==
  \/ \E slot \in AllTenants \X KeyNames, key \in Keys : SetAdmin(slot, key) \/ SetTestKey(slot, key)
  \/ \E p \in KeyNames \cup {"any"}, t \in AllTenants : ClearTestKey(p, t)
  \/ \E slot \in DOMAIN ephemeral : TestKeyExpires(slot)
  \/ \E p \in KeyNames, t \in AllTenants : CredentialStatus(p, t)

Next == OpenSession \/ SessionGoesOn \/ TellAboutContact \/ CallOut \/ ManageKeys

Spec == Init /\ [][Next]_vars

-----------------------------------------------------------------------------
(***************************************************************************)
(* Properties                                                              *)
(***************************************************************************)
\* The event log is the history of EventHistory.tla: offsets never move.
History == INSTANCE EventHistory WITH first <- event_log_base

LogIsHistory == History!Spec

\* The ring holds what the history says is still known, and a read through it gives a
\* reader, at whatever offset and for whichever tenant, what the history owes it
\* (log_event, events_since).
ReadsAreOwed ==
  /\ event_log = SubSeq(logged, event_log_base + 1, Len(logged))
  /\ \A since \in 0..(Len(logged) + 1), limit \in 1..2, want \in Tenants \cup {Absent} :
       events_since(since, limit, want)
         = History!Read(since, limit, {e \in Events : want = Absent \/ e.tenant = want})

\* When the registry changes it exceeds its limit only by sessions that are not finished, and
\* no session whose task goes on is lost, its record written or not: the health route counts
\* it and its tenant can read it (prune_sessions, F-12: never live ones).
RegistryIsPruned ==
  [][sessions' # sessions =>
       /\ \/ Len(sessions') <= MaxSessions
          \/ \A s \in ToSet(sessions') : ~(live'[s].record /\ live'[s].task = "done")
       /\ (SessionsLive = Cardinality({s \in Sessions : Running(s)}))']_vars

VerdictsAreScoped ==
  \A r \in Requests :
    LET v == Verdict(r)
    IN  v.status = "granted" /\ needs_guard(r.path) =>
          IF presented_token(r) \in DOMAIN TenantOf
          THEN v.tenant = TenantOf[presented_token(r)] /\ ReadOnly(r)
          ELSE OperatorToken \in {Absent, r.bearer, r.header} \/ r.cookie = "of the token"

\* Whatever a client asks for under the token of a tenant, and whatever cookie or query
\* goes with it, the events and sessions it is shown are its tenant's; with an operator
\* token set, nothing behind the guard is served to a client that presents neither
\* (OperatorAuthMiddleware, the reading routes).
ReadsAreScoped ==
  /\ VerdictsAreScoped
  /\ \A t \in Tenants, tenant \in Tenants \cup {Absent}, s \in Sessions \cup {NoSession} :
       /\ \A e \in ToSet(ReadEvents(t, tenant, s, 0, 100)) : e.tenant = t
       /\ s # NoSession => \A e \in ToSet(SessionDetail(t, s)) : e.tenant = t
       /\ \A x \in ToSet(ListSessions(t, tenant)) : TenantOfSession(x) = t

\* Activities share the contacts, and each has its own limit: however their attempts
\* alternate, a contact is called for an activity only while the calls it got, answered
\* or not, are below the limit of that activity (outbound_attempt).
AttemptLimitHolds ==
  \A i \in DOMAIN attempts : attempts[i].call # Absent =>
    Cardinality({j \in 1..(i - 1) : attempts[j].contact = attempts[i].contact /\ attempts[j].call # Absent})
      < OutboundHooks[attempts[i].activity].attempt_limit

\* The attempts account for every call and every outbound session: who was refused was not
\* called, a session stands against exactly one answered call, and the count kept for a
\* contact is that of its calls (outbound_attempt).
AttemptsAccount ==
  /\ \A i \in DOMAIN attempts :
       /\ attempts[i].refusals = {} <=> attempts[i].call # Absent
       /\ attempts[i].session # NoSession <=> attempts[i].call = "answered"
       /\ attempts[i].session # NoSession => live[attempts[i].session].attempt = i
  /\ \A s \in Sessions : live[s].attempt # NoAttempt => attempts[live[s].attempt].session = s
  /\ \A c \in ContactRefs :
       contacts[c].attempts
         = Cardinality({i \in DOMAIN attempts : attempts[i].contact = c /\ attempts[i].call # Absent})

\* Keys come from the environment, then from the admin store, then from the console: a test
\* key decides only where the host has none, under any alias, and never after its time; and
\* a composition shown as ready gives every tenant's session a key for its provider
\* (EnvAdminEphemeralResolver.resolve, GET /api/compositions, build_session).
KeyComesInOrder ==
  /\ \A p \in KeyNames \cup {"typesafe"}, t \in AllTenants :
       LET r == resolve(p, t, admin_store, ephemeral)
           here == {t, Everybody} \X ToSet(Names(p))
       IN  /\ r.source = "env" <=> EnvKey(p) \in EnvSet
           /\ r.source = "ephemeral_ui" =>
                /\ here \cap DOMAIN admin_store = {}
                /\ \E s \in here \cap DOMAIN ephemeral : ephemeral[s] = [key |-> r.key, expired |-> FALSE]
           /\ r.source = "none" =>
                /\ here \cap DOMAIN admin_store = {}
                /\ \A s \in here \cap DOMAIN ephemeral : ephemeral[s].expired
  /\ \A comp \in DOMAIN Compositions, t \in Tenants :
       Ready(comp) /\ Compositions[comp].s2s # "mock" =>
         resolve(Compositions[comp].s2s, t, admin_store, ephemeral).source # "none"

=============================================================================
