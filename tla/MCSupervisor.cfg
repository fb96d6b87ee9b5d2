\* Safety of a live run against an arbitrary program.
SPECIFICATION Spec
CONSTANTS
  Plain = Plain
  Pure = Pure
  Deed = Deed
  Banned = Banned
  Tools = {Plain, Pure, Deed, Banned}
  Policy <- MCPolicy
  Emittable <- MCEmittable
  PipeCap = 1
  RowCap = 1
  MaxLines = 3
  MayFork = FALSE
INVARIANTS
  TraceWellFormed
  NoForgedResult
  CallsAnswered
  FinalMatchesTrace
  CleanRunReplayable
  ToolRunsAudited
PROPERTY
  RunContract
