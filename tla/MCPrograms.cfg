SPECIFICATION MCSpec
CONSTANTS
  ClockWrap = 4
  ARM_DEFAULT_LEASE = 1
  ARM_MAX_LEASE = 2
  LongLease = 2
  ShortLease = 1
  MaxLength = 6
  Requests <- SimRequests
  Advances <- SimAdvances
  CliLines <- MCCliLines
  ForeignLines <- MCForeignLines
INVARIANTS
  StatusIsCurrent
  LeaseCutsOff
  DisarmedIsSafe
  ProgramsTypeOK
  NoFalseAlarm
  ZeroIsTrue
  DriverAgrees
  ParsersAgree
PROPERTY
  SelfTestLeavesSafe
