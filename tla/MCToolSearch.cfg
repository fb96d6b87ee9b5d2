SPECIFICATION SearchSpec
CONSTANTS
  ToolNames <- MCNames
  Words <- MCWords
  NameWords <- MCNameWords
  Space <- MCSpace
  Manifests <- MCManifests
  Queries <- MCQueries
  Calls <- MCCalls
  Start <- MCStart
  Weight <- MCWeight
  KCap = 2
  Cut = 3
  Alike <- MCAlike
  MaxEdits = 2
  MaxRequests = 2
INVARIANTS
  Deterministic
  ShownIsRanked
  ExactFirst
CHECK_DEADLOCK FALSE
