SPECIFICATION Spec
CONSTANTS
  Ends <- MCEnds
  RowLimits <- MCRowLimits
  PollLimits <- MCPollLimits
  Buffer = 1
INVARIANT
  ExecutionReleases
CHECK_DEADLOCK FALSE
