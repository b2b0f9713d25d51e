SPECIFICATION FairSpec
CONSTANTS
  u1 = u1
  d1 = d1
  x1 = x1
  h1 = h1
  Handles <- MCHandles
  MaxRemembered = 1
  None = None
  Users <- MCUsers
  Directs <- MCDirects
  Runners <- MCRunners
  FailureThreshold = 2
  Callers <- MCCallers
  MaxCalls = 1
INVARIANTS QuietDelete SingleDelete CloseIsHonest NoLeakAfterFailedOpen HealthHonest
PROPERTIES CloseReturns GoneIsNoticed
CHECK_DEADLOCK FALSE
