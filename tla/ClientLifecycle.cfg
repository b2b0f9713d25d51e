SPECIFICATION FairLifecycleSpec
CONSTANTS
  f1 = f1
  d1 = d1
  r1 = r1
  r2 = r2
  u1 = u1
  u2 = u2
  s1 = s1
  h1 = h1
  h2 = h2
  None = None
  Workers <- MCFlows
  Closers <- MCClosers
  Directs <- MCDirects
  Runners <- MCRunners
  Users <- MCUsers
  Slots <- MCSlots
  Handles <- MCHandles
  Casts <- MCCasts
  MaxRuns = 4
  MaxRemembered = 1
  Statements = 2
  MaxRecipes = 2
INVARIANTS CloseLeavesQuiet RegistrySound RecipeHonest
PROPERTIES ClientCloseReturns
CHECK_DEADLOCK FALSE
