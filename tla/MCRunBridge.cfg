\* Two runs over two directories, one with a web_output.json, and every projection
\* that can be there before.
\* All runs are done.
CHECK_DEADLOCK FALSE
SPECIFICATION Spec
CONSTANTS
  Dirs = {"out", "other"}
  WebOut = {"other"}
  Runs = 2
INVARIANTS
  OwnResult
  ProjectionOfOneRun
PROPERTIES
  BridgeEnds
