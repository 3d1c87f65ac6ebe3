SPECIFICATION Spec
CONSTANTS
  A = A
  B = B
  C = C
  NoApp = NoApp
  AppIds <- ThreeApps
  Low = Low
  High = High
  Values <- TwoValues
  NumSlots = 2
  MaxSequence = 3
  InitBackups <- MaybeSaved
  MaxMishaps = 1
INVARIANTS CleanRowsAreStored UnsavedIsPending
PROPERTIES RevisionTellsTables RestoreIsAtomic
SYMMETRY Symmetry
