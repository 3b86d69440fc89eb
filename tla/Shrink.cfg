\* Passes with and without a cap, and an agent that may change its mind.
CONSTANTS
  Originals <- Conversations
  Settings <- Usual
  Flaky = TRUE
  MaxProposals = 1
  MaxCount = 9
SPECIFICATION FairSpec
INVARIANTS
  ResultReproduced
  OneMinimal
  CapHolds
PROPERTIES
  ShrinkEnds
