\* Four calls in batches of one or two, three levels deep.
CONSTANTS
  Call = {c1, c2, c3, c4}
  Root = Root
  Adapters = {"langchain", "pydantic"}
  MaxBatch = 2
  MaxTexts = 2
SPECIFICATION TurnSpec
SYMMETRY Calls
CONSTRAINT TextsOrCalls
INVARIANTS
  OneNodePerCall
  TreeMirrorsCalls
  OuterCallsAreSiblings
  ErrorsReachStatus
CHECK_DEADLOCK FALSE
