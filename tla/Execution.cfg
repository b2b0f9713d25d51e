SPECIFICATION FairSpec
CONSTANTS
  Ends <- MCEnds
  RowLimits <- MCRowLimits
  PollLimits <- MCPollLimits
  Buffer = 1
INVARIANTS
  EventsInOrder
  VerdictHonest
  FailureReleases
  ClientCloseWaits
PROPERTY
  ExecutionEnds
CHECK_DEADLOCK FALSE
