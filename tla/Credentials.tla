---------------------------- MODULE Credentials ----------------------------
(***************************************************************************)
(* Where a provider key comes from (admin/credentials.py): the environment,*)
(* the admin store, a test key entered in the console that expires.  A key *)
(* is kept for a tenant or for everybody, under the name of an adapter or  *)
(* of a vendor; names that share an environment variable are aliases.      *)
(***************************************************************************)
EXTENDS Selection, FiniteSets, SequencesExt

CONSTANTS
  Tenants,
  Everybody,   \* tenant_id None
  EnvSet       \* the environment variables that hold a key

NoKey == "no key"
Sources == {"env", "admin_store", "ephemeral_ui", "none"}

\* _ENV_KEYS, in the order of the dictionary.
ProviderNames == <<"openai_realtime", "openai", "gemini_live", "gemini", "typesafe">>

EnvKey(p) ==
  CASE p \in {"openai_realtime", "openai"} -> "OPENAI_API_KEY"
    [] p \in {"gemini_live", "gemini"} -> "GEMINI_API_KEY"
    [] p = "typesafe" -> "TYPESAFE_API_KEY"
    [] OTHER -> p

Names(p) ==
  <<p>> \o Only(ProviderNames, {q \in ToSet(ProviderNames) : EnvKey(q) = EnvKey(p) /\ q # p})

\* The entries looked up, in this order: the tenant's under every name, then everybody's.
Lookups(p, t) ==
  [i \in 1..Len(Names(p)) |-> <<t, Names(p)[i]>>]
    \o [i \in 1..Len(Names(p)) |-> <<Everybody, Names(p)[i]>>]

\* ephemeral is a function from the entries there are to a key and whether it has expired.
Usable(ephemeral, slot) == slot \in DOMAIN ephemeral /\ ~ephemeral[slot].expired

\* What a store holds after an entry is put into it.
Put(store, slot, entry) ==
  [s \in DOMAIN store \cup {slot} |-> IF s = slot THEN entry ELSE store[s]]

FirstOf(seq, Has(_)) == CHOOSE i \in DOMAIN seq : Has(seq[i]) /\ \A j \in 1..(i - 1) : ~Has(seq[j])

\* Fault seeded below: test keys come before the admin store.
resolve_TestKeyFirst(p, t, admin, ephemeral) ==
  LET look == Lookups(p, t)
      set == {i \in DOMAIN look : look[i] \in DOMAIN admin}
      fresh == {i \in DOMAIN look : Usable(ephemeral, look[i])}
  IN  IF EnvKey(p) \in EnvSet THEN [key |-> EnvKey(p), source |-> "env"]
      ELSE IF fresh # {}
      THEN [key |-> ephemeral[look[FirstOf(look, LAMBDA s : Usable(ephemeral, s))]].key, source |-> "ephemeral_ui"]
      ELSE IF set # {}
      THEN [key |-> admin[look[FirstOf(look, LAMBDA s : s \in DOMAIN admin)]], source |-> "admin_store"]
      ELSE [key |-> NoKey, source |-> "none"]

resolve(p, t, admin, ephemeral) ==
  LET look == Lookups(p, t)
      set == {i \in DOMAIN look : look[i] \in DOMAIN admin}
      fresh == {i \in DOMAIN look : Usable(ephemeral, look[i])}
  IN  IF EnvKey(p) \in EnvSet THEN [key |-> EnvKey(p), source |-> "env"]
      ELSE IF set # {}
      THEN [key |-> admin[look[FirstOf(look, LAMBDA s : s \in DOMAIN admin)]], source |-> "admin_store"]
      ELSE IF fresh # {}
      THEN [key |-> ephemeral[look[FirstOf(look, LAMBDA s : Usable(ephemeral, s))]].key, source |-> "ephemeral_ui"]
      ELSE [key |-> NoKey, source |-> "none"]

\* The test keys left after a resolution: an expired one it comes across is deleted.
LeftAfter(p, t, admin, ephemeral) ==
  LET look == Lookups(p, t)
      came == {i \in DOMAIN look : \A j \in 1..i : ~Usable(ephemeral, look[j])}
      gone == IF resolve(p, t, admin, ephemeral).source \in {"env", "admin_store"} THEN {}
              ELSE {look[i] : i \in came}
  IN  [s \in DOMAIN ephemeral \ gone |-> ephemeral[s]]

\* clear_ephemeral: Everybody stands for "any tenant" here, "any" for any provider.
Cleared(p, t, ephemeral) ==
  {s \in DOMAIN ephemeral : (p = "any" \/ s[2] = p) /\ (t = Everybody \/ s[1] = t)}
=============================================================================
