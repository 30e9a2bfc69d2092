SPECIFICATION Spec
CONSTANTS
  ClockWrap = 4
  MaxLoop = 1
  ArmDefaultLease = 2
  ArmMaxLease = 2
  Requests <- LimitRequests
  HostWrites <- LimitHostWrites
INVARIANT
  ChargeLowIsFixed
