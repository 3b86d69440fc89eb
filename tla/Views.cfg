\* Three runs of one row of two repeats, two of them of one experiment, and a
\* reader of every page.
CONSTANTS
  w1 = w1
  w2 = w2
  w3 = w3
  e1 = e1
  e2 = e2
  Run = {w1, w2, w3}
  Experiment = {e1, e2}
  ExpOf <- TwoOfOne
  Cases = 1
  RepeatsOf <- TwoEach
  Generative = {1}
  Outcomes = {"passed", "failed"}
  Filters <- TheFilters
  PageSize = 1
SPECIFICATION Spec
CONSTRAINT Followed
INVARIANTS
  FinalRowsShownWhole
  CellsShowTheirRepeat
  PagesFindTheirBlobs
  PagingMissesNone
CHECK_DEADLOCK FALSE
