\* Termination of a live run, whatever its program does.
SPECIFICATION LiveSpec
CONSTANTS
  Plain = Plain
  Pure = Pure
  Deed = Deed
  Banned = Banned
  Tools = {Plain, Pure, Deed, Banned}
  Policy <- MCPolicy
  Emittable <- MCFewLines
  PipeCap = 1
  RowCap = 1
  MaxLines = 3
  MayFork = TRUE
PROPERTY
  RunEnds
