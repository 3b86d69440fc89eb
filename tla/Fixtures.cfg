\* Every graph over three fixtures and some over four.
CONSTANTS
  f1 = f1
  f2 = f2
  f3 = f3
  f4 = f4
  Fixture = {f1, f2, f3, f4}
  Graphs <- AllGraphs
  RootSets <- AllRoots
  HasTimeout = TRUE
SPECIFICATION FairSpec
INVARIANTS
  SortVerdict
  VerdictMeansReleased
  PassedMeansComplete
PROPERTIES
  ImplementsScope
  TimeoutBoundsJob
