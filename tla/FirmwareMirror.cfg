SPECIFICATION PromptSpec
CONSTANTS
  ClockWrap = 6
  MaxLoop = 2
  ArmDefaultLease = 1
  ArmMaxLease = 2
  Requests <- MirrorRequests
  HostWrites <- NoHostWrites
PROPERTY
  MirrorsFirmware
