----------------------------- MODULE Knowledge -----------------------------
(***************************************************************************)
(* The knowledge of one tenant (knowledge/pipeline.py): facts extracted    *)
(* from uploaded sources, the contradictions found between them, and the   *)
(* decisions of the operator.  A fact is what a source says about a        *)
(* subject and predicate (its key); facts and contradictions are numbered  *)
(* in the order of the dictionaries that keep them.                        *)
(***************************************************************************)
EXTENDS Integers, SequencesExt, Selection

CONSTANTS
  Sources,      \* documents that may be uploaded
  Keys,         \* subject and predicate pairs
  Values,       \* what a cell may say
  Content,      \* what each source says: a sequence of [key, value]
  Names,        \* the values that name another entity
  Priority,     \* priority given with the upload; a lower number wins
  MaxFacts      \* bound: facts extracted

ASSUME KnowledgeAssumption ==
  /\ Names \subseteq Values
  /\ Content \in [Sources -> Seq([key : Keys, value : Values])]
  /\ Priority \in [Sources -> Nat]
  /\ MaxFacts \in Nat

VARIABLES
  facts,        \* KnowledgeStore.facts
  conflicts     \* KnowledgeStore.contradictions

knowledge == <<facts, conflicts>>

Statuses == {"EXTRACTED", "APPROVED", "CONFLICTED", "SUPERSEDED"}

\* A relationship is kept as a fact of the same key whose value is the entity named.
FactRecords ==
  [key : Keys, kind : {"attribute", "relationship"}, value : Values, source : Sources,
   status : Statuses]

ConflictRecords ==
  [key : Keys, ids : SUBSET Nat,
   resolution : {"pending", "prefer_higher_priority", "operator_decided"}, winner : Nat]

KnowledgeTypeOK ==
  /\ facts \in Seq(FactRecords)
  /\ conflicts \in Seq(ConflictRecords)
  /\ \A c \in DOMAIN conflicts : conflicts[c].ids \subseteq DOMAIN facts

KnowledgeInit == facts = <<>> /\ conflicts = <<>>

-----------------------------------------------------------------------------
\* unresolved_conflicts
Pending == {c \in DOMAIN conflicts : conflicts[c].resolution = "pending"}

Live(f) == f.status # "SUPERSEDED"

\* What two facts are compared by: the text of a cell never equals an entity id.
Said(f) == <<f.kind, f.value>>

\* What ingest_parsed extracts before it looks for contradictions: the attributes of the rows ...
Attributes(s) ==
  [n \in DOMAIN Content[s] |->
     [key |-> Content[s][n].key, kind |-> "attribute", value |-> Content[s][n].value,
      source |-> s, status |-> "EXTRACTED"]]

\* ... and a relationship for each one that names another entity.
Relationships(s) ==
  LET naming == Only(Content[s], [key : Keys, value : Names])
  IN  [n \in DOMAIN naming |->
         [key |-> naming[n].key, kind |-> "relationship", value |-> naming[n].value,
          source |-> s, status |-> "EXTRACTED"]]

\* Where the facts of an upload go in the store.
Placed(s) == facts \o Attributes(s) \o Relationships(s)
NewAttributes(s) == Len(facts) + 1 .. Len(facts) + Len(Content[s])

\* Fault seeded below: an upload is compared with itself only.
Group_OwnOnly(s, k) == {i \in NewAttributes(s) : Placed(s)[i].key = k}

\* The facts compared under a key the upload speaks of: its own attributes and the
\* live facts of the store.
Group(s, k) ==
  {i \in NewAttributes(s) : Placed(s)[i].key = k}
    \cup {i \in DOMAIN facts : facts[i].key = k /\ Live(facts[i])}

SpeaksOf(s) == {Content[s][n].key : n \in DOMAIN Content[s]}

\* The upload's facts are looked at before the store's, each in its order.
Before(s, i, j) ==
  IF (i \in DOMAIN facts) = (j \in DOMAIN facts) THEN i < j ELSE j \in DOMAIN facts

\* One fact stands for each thing said: the first.
Distinct(s, k) ==
  {i \in Group(s, k) :
     \A j \in Group(s, k) \ {i} : Said(Placed(s)[j]) = Said(Placed(s)[i]) => Before(s, i, j)}

InConflict(s) == {k \in SpeaksOf(s) : Cardinality(Distinct(s, k)) >= 2}

PriorityOf(s, i) == Priority[Placed(s)[i].source]

\* Priorities decide when no two of the facts share one.
Decides(s, k) ==
  \A i, j \in Distinct(s, k) : i # j => PriorityOf(s, i) # PriorityOf(s, j)

\* The contradiction recorded under a key.
Conflict(s, k) ==
  IF Decides(s, k)
  THEN [key |-> k, ids |-> Distinct(s, k), resolution |-> "prefer_higher_priority",
        winner |-> CHOOSE i \in Distinct(s, k) :
                     \A j \in Distinct(s, k) : PriorityOf(s, i) <= PriorityOf(s, j)]
  ELSE [key |-> k, ids |-> Distinct(s, k), resolution |-> "pending", winner |-> 0]

\* _mark looks the fact up in the report of this upload: the store's are left alone.
Marked(s, i) ==
  LET f == Placed(s)[i]
  IN  IF i \notin NewAttributes(s) \/ f.key \notin InConflict(s) THEN f
      ELSE IF ~Decides(s, f.key) THEN [f EXCEPT !.status = "CONFLICTED"]
      ELSE IF i = Conflict(s, f.key).winner THEN f
      ELSE [f EXCEPT !.status = "SUPERSEDED"]

\* The contradictions of an upload, in the order it first speaks of their keys.
Recorded(s) ==
  LET key(p) == Content[s][p].key
      firsts == {p \in DOMAIN Content[s] :
                   key(p) \in InConflict(s) /\ \A q \in 1..p - 1 : key(q) # key(p)}
      order == Only([p \in DOMAIN Content[s] |-> p], firsts)
  IN  [n \in DOMAIN order |-> Conflict(s, key(order[n]))]

\* Fault seeded below: what an upload wins by its priority is approved at once.
Ingest_WinnerApproved(s) ==
  /\ Len(Placed(s)) <= MaxFacts
  /\ facts' = [i \in DOMAIN Placed(s) |->
                 IF \E k \in InConflict(s) : i = Conflict(s, k).winner
                 THEN [Placed(s)[i] EXCEPT !.status = "APPROVED"] ELSE Marked(s, i)]
  /\ conflicts' = conflicts \o Recorded(s)

\* ingest: facts and relationships first, then the contradictions.
Ingest(s) ==
  /\ Len(Placed(s)) <= MaxFacts
  /\ facts' = [i \in DOMAIN Placed(s) |-> Marked(s, i)]
  /\ conflicts' = conflicts \o Recorded(s)

\* approve_fact: any fact, whatever became of it.
ApproveFact(i) ==
  /\ facts' = [facts EXCEPT ![i].status = "APPROVED"]
  /\ UNCHANGED conflicts

\* resolve_contradiction: any contradiction, also one that was resolved before.
ResolveContradiction(c, winner) ==
  /\ facts' = [i \in DOMAIN facts |->
                 IF i \notin conflicts[c].ids THEN facts[i]
                 ELSE [facts[i] EXCEPT !.status = IF i = winner THEN "APPROVED" ELSE "SUPERSEDED"]]
  /\ conflicts' = [conflicts EXCEPT ![c].resolution = "operator_decided", ![c].winner = winner]

KnowledgeNext ==
  \/ \E s \in Sources : Ingest(s)
  \/ \E i \in DOMAIN facts : ApproveFact(i)
  \/ \E c \in DOMAIN conflicts : \E i \in conflicts[c].ids : ResolveContradiction(c, i)

-----------------------------------------------------------------------------
(***************************************************************************)
(* Properties                                                              *)
(***************************************************************************)

\* An upload is held against everything that is still live (QV-KNOW-005): whatever it
\* says that differs from another statement about the same key is in a contradiction
\* it records, after any history of approvals and resolutions.
ConflictsDetected ==
  [][ \A i, j \in DOMAIN facts' :
        /\ j \notin DOMAIN facts /\ facts'[j].kind = "attribute"
        /\ i \in DOMAIN facts => Live(facts[i])
        /\ facts'[i].kind = "attribute" /\ facts'[i].key = facts'[j].key
        /\ facts'[i].value # facts'[j].value
        => \E c \in DOMAIN conflicts' \ DOMAIN conflicts :
             {Said(facts'[i]), Said(facts'[j])} \subseteq {Said(facts'[n]) : n \in conflicts'[c].ids}
    ]_knowledge

\* No upload approves anything, not even what it wins (QV-KNOW-004): the facts a session
\* may speak of change only with the operator's decisions.
UploadsApproveNothing ==
  [][ Len(facts') > Len(facts) =>
        {i \in DOMAIN facts' : facts'[i].status = "APPROVED"}
          \subseteq {i \in DOMAIN facts : facts[i].status = "APPROVED"} ]_knowledge

=============================================================================
