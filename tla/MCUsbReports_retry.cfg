SPECIFICATION Spec
CONSTANTS
  Batch <- ShortBatch
  Tracked <- ShortTracked
  Banks = 2
  Values = {0, 1}
  MaxChanges = 1
INVARIANT
  RetriedOnNextPass
