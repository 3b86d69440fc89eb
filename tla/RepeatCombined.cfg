\* Two shrinks, each right by itself.
CONSTANTS
  Turns <- LoudCalm
  Plainer <- LoudCalmer
  Scenarios <- TwoSegments
  Agents <- Upset
  Enabled <- BothFlags
  FixedTurn = "calm"
  MaxTurns = 1
  MaxTrials = 2
SPECIFICATION Spec
INVARIANTS
  RegressionReproduces
