SPECIFICATION FairSpec
CONSTANTS
  u1 = u1
  Users <- MCUsers
  Ends <- MCEnds
  RowLimits <- MCRowLimits
  PollLimits <- MCPollLimits
INVARIANTS RowsInOrder OutcomeHonest CloseHonest
PROPERTIES CallsReturn
CHECK_DEADLOCK FALSE
