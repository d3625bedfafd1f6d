------------------------------ MODULE Contacts ------------------------------
(***************************************************************************)
(* The hooks an outbound dial has to pass (control/contact_policy.py).  A  *)
(* moment is a time of day, as a number below Day; what a contact window   *)
(* says is a span of the day, nothing at all, or text nobody can read.     *)
(***************************************************************************)
EXTENDS Naturals, FiniteSets

CONSTANTS
  Day,     \* moments of a day
  Lists    \* names of do-not-contact lists

ASSUME DayIsNat == Day \in Nat \ {0}

Moments == 0..(Day - 1)
NoList == "no list"

Windows == [kind : {"always", "span", "unreadable"}, start : Moments, end : Moments]
Hooks == [given : BOOLEAN, consent_required : BOOLEAN, attempt_limit : Nat \ {0},
          contact_window : Windows, suppression_ref : Lists \cup {NoList}]
ContactStates == [consent : {"yes", "no", "unknown"}, opted_out : BOOLEAN,
                  suppressed : BOOLEAN, tags : SUBSET Lists, attempts : Nat]
ContactRefusal == {"no_consent", "opted_out", "suppressed", "attempt_limit_reached",
                   "outside_contact_window", "contact_policy_hooks_missing"}

\* A contact nobody has said anything about.
Unknown == [consent |-> "unknown", opted_out |-> FALSE, suppressed |-> FALSE,
            tags |-> {}, attempts |-> 0]

\* A span that ends where it starts, or before, goes over midnight.
InWindow(w, now) ==
  CASE w.kind = "always" -> TRUE
    [] w.kind = "unreadable" -> FALSE
    [] w.kind = "span" /\ w.end <= w.start -> now >= w.start \/ now <= w.end
    [] OTHER -> w.start <= now /\ now <= w.end

\* Fault seeded below: the limit is the number of attempts after which one more is made.
Fails_OneMore(hooks, state, now) ==
  [no_consent |-> hooks.consent_required /\ state.consent # "yes",
   opted_out |-> state.opted_out,
   suppressed |-> state.suppressed \/ hooks.suppression_ref \in state.tags,
   attempt_limit_reached |-> state.attempts > hooks.attempt_limit,
   outside_contact_window |-> ~InWindow(hooks.contact_window, now)]

\* Which hook fails.
Fails(hooks, state, now) ==
  [no_consent |-> hooks.consent_required /\ state.consent # "yes",
   opted_out |-> state.opted_out,
   suppressed |-> state.suppressed \/ hooks.suppression_ref \in state.tags,
   attempt_limit_reached |-> state.attempts >= hooks.attempt_limit,
   outside_contact_window |-> ~InWindow(hooks.contact_window, now)]

\* Every failing hook is reported, not only the first; without hooks nobody is called.
evaluate_contact(hooks, state, now) ==
  IF ~hooks.given THEN {"contact_policy_hooks_missing"}
  ELSE LET f == Fails(hooks, state, now) IN {r \in DOMAIN f : f[r]}
=============================================================================
