SPECIFICATION Spec
CONSTANTS
  Tokens = {"op", "tokA", "tokB", "wrong"}
  OperatorToken = "op"
  TenantOf <- MCTenantOf
  Day = 2
  Lists = {"list"}
  Tenants = {"A", "B"}
  Everybody = "everybody"
  EnvSet = {"TYPESAFE_API_KEY"}
  Sessions = {s1, s2, s3}
  Activities = {"sales", "survey"}
  TenantOfActivity <- MCTenantOfActivity
  OutboundHooks <- MCHooks
  Compositions <- MCCompositions
  Default = "mock"
  Pinned <- MCPinned
  ContactRefs = {"caller"}
  Keys = {"k1"}
  KeyNames = {"openai"}
  MaxEvents = 2
  MaxSessions = 1
  MaxSessionEvents = 1
  MaxOps = 5
INVARIANTS
  ReadsAreOwed
  ReadsAreScoped
  AttemptLimitHolds
  KeyComesInOrder
PROPERTIES
  LogIsHistory
  RegistryIsPruned
CHECK_DEADLOCK FALSE
