----------------------------- MODULE MCRuntime -----------------------------
(* Two tenants with an activity each, both calling out under their own hooks, and a *)
(* composition with typed decisions beside the default one.                         *)
EXTENDS Runtime

MCTenantOf == [tokA |-> "A", tokB |-> "B"]

MCTenantOfActivity == [sales |-> "A", survey |-> "B"]

MCHooks ==
  [sales |-> [given |-> TRUE, consent_required |-> TRUE, attempt_limit |-> 2,
              contact_window |-> [kind |-> "span", start |-> 1, end |-> 0],
              suppression_ref |-> NoList],
   survey |-> [given |-> TRUE, consent_required |-> FALSE, attempt_limit |-> 1,
               contact_window |-> [kind |-> "span", start |-> 0, end |-> 0],
               suppression_ref |-> "list"]]

MCCompositions ==
  [mock |-> [s2s |-> "mock", typed |-> TRUE], voice |-> [s2s |-> "openai_realtime", typed |-> FALSE]]

MCPinned == [sales |-> "voice", survey |-> Absent]
=============================================================================
