------------------------------- MODULE Access -------------------------------
(***************************************************************************)
(* Who may ask for what (runtime/auth.py): the operator token, the         *)
(* read-only tokens of tenants, and the paths that need one.  A request is *)
(* what the middleware looks at; the paths are grouped by the prefix that  *)
(* decides about them.                                                     *)
(***************************************************************************)
EXTENDS Naturals

CONSTANTS
  Tokens,       \* what a client can present
  OperatorToken,\* QEVION_ADMIN_TOKEN, or Absent
  TenantOf      \* tenant_tokens(): from the tokens of tenants to their tenant

Absent == "absent"

Paths == {"health", "auth", "sessions", "events", "other api", "ws", "page"}
Requests == [kind : {"http", "websocket"}, method : {"GET", "other"}, path : Paths,
             bearer : Tokens \cup {Absent}, header : Tokens \cup {Absent},
             cookie : {Absent, "of the token", "another", "malformed"}]

\* The bearer token counts first; the tenants' are compared with it alone.
presented_token(r) == IF r.bearer # Absent THEN r.bearer ELSE r.header

needs_guard(path) == path \notin {"health", "auth", "page"}

request_is_authorized(r) ==
  \/ r.bearer = OperatorToken
  \/ r.header = OperatorToken
  \/ r.cookie = "of the token"

ReadOnly(r) == r.kind = "http" /\ r.method = "GET" /\ r.path \in {"sessions", "events"}

\* OperatorAuthMiddleware: for whom a request is served, or why it is not.  A tenant may
\* read sessions and events and nothing else, whatever else it presents; the operator is
\* served for all tenants; without an operator token everybody is the operator.
Verdict(r) ==
  IF needs_guard(r.path) /\ presented_token(r) \in DOMAIN TenantOf
  THEN IF ReadOnly(r)
       THEN [status |-> "granted", tenant |-> TenantOf[presented_token(r)]]
       ELSE [status |-> "403", tenant |-> Absent]
  ELSE IF OperatorToken = Absent \/ ~needs_guard(r.path) \/ request_is_authorized(r)
  THEN [status |-> "granted", tenant |-> Absent]
  ELSE [status |-> "401", tenant |-> Absent]
=============================================================================
