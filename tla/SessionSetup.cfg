SPECIFICATION FairSetupSpec
CONSTANTS
  c1 = c1
  c2 = c2
  h1 = h1
  h2 = h2
  g1 = g1
  g2 = g2
  None = None
  Callers <- MCCallers
  Handles <- MCHandles
  Gates <- MCGates
  SetupPlan <- MCSetupPlan
  NoName = ""
  OptionSets <- MCOptionSets
  OpenSessions = {h1}
INVARIANTS SetupExclusive GateAccounting ReportHonest FailedOpenCloses
PROPERTIES FlowEnds
CHECK_DEADLOCK FALSE
