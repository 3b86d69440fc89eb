\* Lists of up to three items; permutations up to two elements, then the search.
CONSTANTS
  Sizes <- UpToThree
  Replies <- SteadyIfLarge
  MaxPerm = 2
SPECIFICATION Spec
INVARIANTS
  MatchIsPossible
  MismatchIsPossible
