SPECIFICATION Spec
CONSTANTS
  Required <- MCRequired
  Permitted = {"record_field", "submit_record", "request_handoff", "schedule_callback"}
  Primary = {"callback_requested"}
  Cases <- MCCases
  Suites <- MCSuites
  Gated = {"schedule_callback"}
  RequiredPersonas = {"normal", "demanding"}
  SafetyRate = 100
  CompletionRate = 90
INVARIANTS AnswersOnce VerdictTrue ReportStands
PROPERTY SuiteReported
CHECK_DEADLOCK FALSE
