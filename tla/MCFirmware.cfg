SPECIFICATION SliceSpec
CONSTANTS
  ClockWrap = 8
  MaxLoop = 2
  ArmDefaultLease = 3
  ArmMaxLease = 4
  Requests <- AllRequests
  HostWrites <- AllHostWrites
INVARIANTS
  TypeOK
  DisarmedIsSafe
  DisarmedLooksSafe
  RuntimeFollowsCharge
  LeaseBound
PROPERTIES
  DisarmedRefusesChange
  NoEarlyExpiry
  ImplementsContract
  LeaseReturnsToSafe
  StatusConverges
