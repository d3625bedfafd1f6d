--------------------------- MODULE MCControlPlane ---------------------------
(***************************************************************************)
(* A small control plane: a draft with a capability nobody verified, and a *)
(* version with an open decision that is stored ready; two uploads of       *)
(* different priority, the first of which names an entity.                 *)
(***************************************************************************)
EXTENDS ControlPlane

MCFlaws == [b \in Blueprints |-> IF b = "draft" THEN {"capability"} ELSE {"decision"}]

MCDeclared == [b \in Blueprints |-> IF b = "draft" THEN "DRAFT" ELSE "READY_FOR_ACTIVATION"]

MCContent ==
  [s \in Sources |->
     IF s = "list" THEN <<[key |-> "includes", value |-> "Alpha"]>>
     ELSE <<[key |-> "includes", value |-> "Beta"]>>]

MCPriority == [s \in Sources |-> IF s = "list" THEN 1 ELSE 2]

=============================================================================
