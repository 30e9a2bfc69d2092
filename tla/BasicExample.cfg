SPECIFICATION FairSpec
CONSTANTS
  MINUPDATEINTERVAL = 4
  Charges = {0, 100}
  Delays = {65535, 0, 300}
  Limits = {600, 0}
  MaxChanges = 3
INVARIANT
  StaleIsBounded
PROPERTY
  StatusArrives
