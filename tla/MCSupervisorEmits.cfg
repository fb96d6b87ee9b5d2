\* Whether every run leaves artifacts.
SPECIFICATION Spec
CONSTANTS
  Plain = Plain
  Pure = Pure
  Deed = Deed
  Banned = Banned
  Tools = {Plain, Pure, Deed, Banned}
  Policy <- MCPolicy
  Emittable <- MCFewLines
  PipeCap = 1
  RowCap = 1
  MaxLines = 3
  MayFork = FALSE
INVARIANT
  EveryRunEmits
