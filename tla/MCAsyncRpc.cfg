\* Fan-out over one pipe in each direction, with cancellations.
SPECIFICATION FairRpcSpec
CONSTANTS
  t1 = t1
  t2 = t2
  t3 = t3
  Tasks = {t1, t2, t3}
  PipeCap = 1
  MayCancel = TRUE
INVARIANTS
  RoundTrip
  CallsAccepted
PROPERTIES
  PoisonWakesWaiters
  EveryCallReturns
