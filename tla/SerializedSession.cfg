SPECIFICATION FairSpec
CONSTANTS
  c1 = c1
  c2 = c2
  k1 = k1
  k2 = k2
  None = None
  Callers <- MCCallers
  Closers <- MCClosers
INVARIANTS TokenConserved NoOrphanStream CloseOkMeansClosed
PROPERTIES ImplementsExclusive EverybodyLeaves
CHECK_DEADLOCK FALSE
