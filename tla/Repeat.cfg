\* Two trials of one generative step, or one of two steps shrunk side by side.
CONSTANTS
  Turns <- Words
  Plainer <- Calmer
  Scenarios <- AllScenarios
  Agents <- Touchy
  Enabled <- AllFlags
  FixedTurn = "calm"
  MaxTurns = 2
  MaxTrials = 2
SPECIFICATION Spec
INVARIANTS
  ResultMeansAllTrials
  ReportedFailureIsShrunk
  ReplayFindsCheck
  RegressionReproducesAlone
