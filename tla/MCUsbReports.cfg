SPECIFICATION FairSpec
CONSTANTS
  Batch <- ShortBatch
  Tracked <- ShortTracked
  Banks = 2
  Values = {0, 1}
  MaxChanges = 2
INVARIANTS
  TypeOK
  StatusIsNewest
  QuietMeansSent
PROPERTY
  StatusReachesHost
