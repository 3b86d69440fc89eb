\* Two rows of two repeats, in every mode.
CONSTANTS
  Rows = 2
  Jobs = 4
  RowOf <- FourJobs
  RepeatOf <- FourRepeats
  Modes = {"failfast", "inline", "pool"}
  Workers = 2
SPECIFICATION FairSpec
INVARIANTS
  LevelsAgree
  FinalRowsHaveEvidence
  ClosedMeansComplete
  ZeroMeansPassed
PROPERTIES
  RunEnds
  ImplementsLedger
