SPECIFICATION Spec
CONSTANTS
  u1 = u1
  Users <- MCUsers
  Ends <- MCEnds
  RowLimits <- MCRowLimits
  PollLimits <- MCPollLimits
INVARIANTS ClientCloseReleases
CHECK_DEADLOCK FALSE
