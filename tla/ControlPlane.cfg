SPECIFICATION Spec
CONSTANTS
  Sources = {"list", "leaflet"}
  Keys = {"includes"}
  Values = {"Alpha", "Beta"}
  Names = {"Alpha"}
  Content <- MCContent
  Priority <- MCPriority
  MaxFacts = 3
  Blueprints = {"draft", "ready"}
  Flaws <- MCFlaws
  Declared <- MCDeclared
  NoBlueprint = "none"
  MaxPuts = 2
INVARIANTS
  ActiveWasProven
PROPERTIES
  ApprovedStaysApproved
  ConflictsDetected
  UploadsApproveNothing
CHECK_DEADLOCK FALSE
