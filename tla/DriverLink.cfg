SPECIFICATION Spec
CONSTANTS
  Transports = {"tcp", "uart"}
  MaxSkip = 3
  MaxLines = 7
INVARIANTS
  TypeOK
  Aligned
PROPERTY
  CleanExitIsSafe
CHECK_DEADLOCK FALSE
