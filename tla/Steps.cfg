\* Messages, segments, checks and calls, with retries, run to the end.
CONSTANTS
  Casts <- AllCasts
  StepSet <- EveryKind
  MaxSteps = 3
  MaxCalls = 1
  MaxTurns = 60
SPECIFICATION FairSpec
INVARIANTS
  ConversationIsChain
  EachMessageAnswered
  OpenCheckSeesAgent
  PassedMeansEveryStep
PROPERTIES
  SegmentStopsWhenDue
  ScenarioEnds
