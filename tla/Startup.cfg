SPECIFICATION StartupSpec
CONSTANTS
  Tracked = {"voltage", "remainingCapacity", "deviceChemistry", "delayShutdown"}
  MillisWrap = 8
  DHCP_MAINTAIN_INTERVAL_MS = 3
  DHCP_RETRY_INTERVAL_MS = 1
  MaxBlock = 2
  MaxAge = 13
INVARIANTS
  StartupTypeOK
  NeverTorn
  RegisteredIsFound
  OnlyLimitsStayOpen
PROPERTIES
  WindowEndsAtLock
  NeverTooSoon
  LateOnlyByHalfTheRange
  LeaseIsMaintained
