SPECIFICATION Spec
CONSTANTS
  Fields = {field}
  Values = {ok, bad}
  Valid = {ok}
  Required <- FieldsStated
  Permitted = {"record_field", "verify_field", "submit_record", "request_handoff", "schedule_callback"}
  Bound = {"record_field", "verify_field", "submit_record", "request_handoff", "schedule_callback"}
  SuccessRules = {"accepted", "recorded"}
  FailureRules = {}
  ExitRules <- ExitPostponed
  Primaries <- SchemaTold
  MaxCalls = 3
  MaxWrites = 2
  MaxRequests = 3
  MaxTurns = 1
INVARIANT WithinBudget
INVARIANT CompletedOnce
INVARIANT GrantBinds
INVARIANT VerifiedByBackend
INVARIANT CompletedWasAgreed
PROPERTY ExecutingWasAgreed
CHECK_DEADLOCK FALSE
