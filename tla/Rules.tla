------------------------------- MODULE Rules -------------------------------
(***************************************************************************)
(* The rules that complete an activity, as the rules adapter evaluates     *)
(* them while a session runs (adapters/decision/rules.py): a conjunction   *)
(* of atoms over what was recorded and the flags that were raised.         *)
(***************************************************************************)
EXTENDS SequencesExt

CONSTANTS
  FieldNames,   \* names a field may have
  Family,       \* the name without its number: what a range is matched by
  ToolNames,    \* the tools of the platform
  FlagNames,    \* facts of a session that a rule may name
  OutcomeLabels \* outcomes an activity may declare

\* A label "recorded" would be read as a word of the rules.
ASSUME RulesAssumption == FieldNames \subseteq DOMAIN Family /\ "recorded" \notin OutcomeLabels

Forms == {"recorded", "range", "accepted", "compare", "flag", "garbled"}
Kinds == {"text", "number", "boolean", "list"}

\* A range names every field it spans, the other atoms name one thing; a bare word is a flag.  Only
\* a comparison has a literal.
Atoms ==
  {a \in [form : Forms, names : SUBSET (FieldNames \cup ToolNames \cup FlagNames),
          literal : {"text", "number", "boolean", "none"}] :
     a.form = "flag" => a.names \subseteq FlagNames}

\* A conjunction, and the outcome that follows it after "=>", if any.
CompletionRules == [atoms : Seq(Atoms) \ {<<>>}, target : SUBSET OutcomeLabels]

\* What a session has to show: fields recorded, with the kinds of their values, flags raised,
\* comparisons that hold.
Evidence ==
  [recorded : SUBSET FieldNames, kind : [FieldNames -> Kinds], accepted : SUBSET ToolNames,
   raised : SUBSET FlagNames, true : SUBSET FieldNames]

\* The literals a value can be compared with.
Comparable(kind) ==
  CASE kind = "text"    -> {"text", "number"}
    [] kind = "number"  -> {"number", "boolean"}
    [] kind = "boolean" -> {"boolean"}
    [] OTHER -> {}

\* A number beside another literal is unknown; the other mismatches raise, for all six comparisons
\* are made before one of them is picked.
Compare(names, literal, e) ==
  LET odd == {n \in names : literal \notin Comparable(e.kind[n])}
  IN CASE ~(names \subseteq e.recorded) -> "FALSE"
       [] names \subseteq e.recorded /\ odd = {} -> IF names \subseteq e.true THEN "TRUE" ELSE "FALSE"
       [] OTHER -> IF \A n \in odd : e.kind[n] = "number" THEN "UNKNOWN" ELSE "RAISES"

Holds(a, e) ==
  CASE a.form \in {"recorded", "range"} -> a.names \subseteq e.recorded
    [] a.form = "accepted" -> a.names \subseteq e.accepted
    [] OTHER -> a.names \subseteq e.raised

\* _eval_rule of one atom with what follows it in the text of the rule: "=> label" belongs to the
\* literal of a comparison, and makes anything else unreadable.
Read(a, after, e) ==
  IF after = {"accepted"} THEN "FALSE"
  ELSE IF a.form = "compare" THEN Compare(a.names, IF after = {} THEN a.literal ELSE "text", e)
  ELSE IF a.form = "garbled" \/ after # {} THEN "UNKNOWN"
  ELSE IF Holds(a, e) THEN "TRUE" ELSE "FALSE"

\* _evaluate_rule of one rule, as it is written: a rule that cannot be read is unknown, and never
\* guessed.
Evaluate(rule, e) ==
  LET n == Len(rule.atoms)
      read == {Read(rule.atoms[i], IF i = n THEN rule.target ELSE {}, e) : i \in 1..n}
  IN IF "RAISES" \in read THEN "RAISES"
     ELSE IF "UNKNOWN" \in read THEN "UNKNOWN"
     ELSE IF "FALSE" \in read THEN "FALSE" ELSE "TRUE"

\* The outcome engine takes the outcome off an exit rule before it is evaluated, and off no other.
_split_exit(rule) == [rule EXCEPT !.target = {}]

=============================================================================
