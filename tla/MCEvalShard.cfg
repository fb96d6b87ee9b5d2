\* Two runners, three tasks in one or two shards, and the report.
\* Nobody has to start anything: all processes may have ended.
CHECK_DEADLOCK FALSE
SPECIFICATION Spec
CONSTANTS
  r1 = r1
  r2 = r2
  Runners = {r1, r2}
  Dataset <- MCDataset
  Kind <- MCKind
  Shard <- MCShard
  Configs <- MCConfigs
  MaxRows = 6
  MaxStarts = 3
  MaxCrashes = 1
SYMMETRY MCSymmetry
INVARIANTS
  ShardResumable
  PublishedStands
PROPERTY
  FinishedMeansJudged
