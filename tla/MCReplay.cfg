\* Replays of the same program and of a changed one.
SPECIFICATION Spec
CONSTANTS
  Scripts <- MCScripts
  Drift <- MCDrift
  RowCap = 2
  MetaCap = 1
  MaxFrames = 6
INVARIANTS
  ReplayFaithful
  AnswersInOrder
  SameProgramMatches
PROPERTY
  ReplayContract
