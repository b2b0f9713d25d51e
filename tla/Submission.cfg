SPECIFICATION FairSubmissionSpec
CONSTANTS
  c1 = c1
  c2 = c2
  c3 = c3
  None = None
  Callers <- MCCallers
  Environments <- MCEnvironments
  Impatient <- MCImpatient
INVARIANTS VerdictTrue SingleFlight NoForeignCancellation PermissionTrue SubmissionHonest
PROPERTIES CallsReturn
CHECK_DEADLOCK FALSE
