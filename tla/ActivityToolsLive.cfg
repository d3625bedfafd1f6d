SPECIFICATION FairSpec
CONSTANTS
  Fields = {field}
  Values = {ok, bad}
  Valid = {ok}
  Required <- FieldsStated
  Permitted = {"lookup_knowledge", "record_field", "verify_field", "submit_record", "clarify", "request_handoff", "schedule_callback"}
  Bound = {"record_field", "submit_record", "clarify", "request_handoff"}
  SuccessRules = {"accepted", "recorded"}
  FailureRules = {}
  ExitRules <- ExitPostponed
  Primaries <- SchemaProposed
  MaxCalls = 2
  MaxWrites = 2
  MaxRequests = 2
  MaxTurns = 1
PROPERTY CallReturns
PROPERTY ClosedIsRecorded
CHECK_DEADLOCK FALSE
