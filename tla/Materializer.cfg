SPECIFICATION Spec
CONSTANTS
  a = a
  b = b
  c = c
  d = d
  v1 = v1
  v2 = v2
  Keys <- MCKeys
  Values <- MCValues
  MaxRows = 3
  CompactAbove = 1
  Tombstone = Tombstone
SYMMETRY Symmetry
INVARIANTS IndexConsistent OrderBounded PendingPresent
PROPERTIES ImplementsTable
