\* Two runs of a kernel: two iterations, three sub-calls, two at once, maps of three.
\* The kernel has run as often as it is run.
CHECK_DEADLOCK FALSE
SPECIFICATION Spec
CONSTANTS
  Boost = 100
  MaxIters = 2
  MaxSubcalls = 3
  MaxParallel = 2
  Cap = 4
  GoalCost = 3
  Prints <- MCPrints
  Widths = {3}
  CodeSteps = 2
  Runs = 2
INVARIANTS
  WithinBudget
  ReturnsWholeCode
  GoalAnchored
PROPERTIES
  RunEnds
