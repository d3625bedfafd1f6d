---------------------------- MODULE EventHistory ----------------------------
(***************************************************************************)
(* What the event log of the runtime promises (the comment of             *)
(* RuntimeStore.__init__): an event keeps the offset it was logged at, and *)
(* only the oldest events are ever forgotten, when there are more than     *)
(* MaxEvents.  RuntimeStore keeps a list and the number of events dropped  *)
(* from it; Runtime.tla shows that this implements the history here.       *)
(***************************************************************************)
EXTENDS Selection

CONSTANTS
  Events,
  MaxEvents    \* a natural number (LimitsAreNat in Runtime.tla)

VARIABLES
  logged,    \* every event since the start of the process
  first      \* the offset of the oldest one that is still known

vars == <<logged, first>>

Init == logged = <<>> /\ first = 0

Later(a, b) == IF a < b THEN b ELSE a

Log(e) ==
  /\ logged' = Append(logged, e)
  /\ first' = Later(first, Len(logged') - MaxEvents)

Next == \E e \in Events : Log(e)

Spec == Init /\ [][Next]_vars

\* What a reader at offset since is owed: up to limit of the events known from there on,
\* those that are its own when it asks for them.
Page(s, limit) == SubSeq(s, 1, IF limit < Len(s) THEN limit ELSE Len(s))

Read(since, limit, mine) ==
  Page(Only(SubSeq(logged, Later(first, since) + 1, Len(logged)), mine), limit)
=============================================================================
