SPECIFICATION Spec
CONSTANTS
  FieldNames = {"name", "q1", "q2"}
  Family <- MCFamily
  ToolNames = {"submit_record", "verify_field", "request_handoff", "booking"}
  FlagNames = {"opt_out"}
  OutcomeLabels = {"done", "lost"}
  Locales = {"en", "ar", "fr"}
  Packs = {"en_pack", "ar_pack", "lost_pack"}
  Voices = {"warm"}
  Sources = {"menu"}
  Domains = {"menu"}
  Claims = {"price"}
  Gaps = {"price", "parking"}
  GapClass <- MCGapClass
  Conflicts = {"hours"}
  Starts <- MCStarts
  ToolDecls <- MCToolDecls
  PackOf <- MCPackOf
  VoiceOf <- MCVoiceOf
  Replies <- MCReplies
  Suggestion <- MCSuggestion
  MaxAnswers = 2
  MaxFound = 1
INVARIANTS
  NothingInvented
  PublishedIsWhole
  ReadyIsSupported
  ReadyRulesCanHold
PROPERTIES
  PublicationIsGated
CHECK_DEADLOCK FALSE
