\* Two runs at once, killed and out of disk, on one file.
CONSTANTS
  r1 = r1
  r2 = r2
  billing = billing
  sim = sim
  short = short
  long = long
  Run = {r1, r2}
  Scenario = {billing, sim}
  Conversation = {short, long}
  Policy <- Policies1
  StartsWithFuture = {billing}
  UsesSource = {billing, sim}
  SourceFirst = {billing}
  MaxPieces = 2
  MaxLog = 3
SPECIFICATION TargetSpec
SYMMETRY Symmetry
INVARIANTS
  
  SkipKeepsOut
  StaysParsable
