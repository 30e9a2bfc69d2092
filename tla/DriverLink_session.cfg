SPECIFICATION Spec
CONSTANTS
  Transports = {"tcp"}
  MaxSkip = 8
  MaxLines = 7
INVARIANT
  SessionLeavesSafe
CHECK_DEADLOCK FALSE
