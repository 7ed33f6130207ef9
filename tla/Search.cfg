SPECIFICATION Spec
CONSTANTS
  Count = 5
  Limit = 3
  Wide = 3
  MaxIds = 2
  MaxBytes = 4
  MaxItem = 3
  Sizes = {1, 3, 4}
  Scores = {1, 2, 3}
  Matches <- MCMatches
  Overlaps = {0, 1}
  RankConstant = 60
  Lengths = {1, 4, 9}
  Budget = 10
  Cap = 6
INVARIANT BatchesSearchAll
INVARIANT EveryResultHasItsShare
CHECK_DEADLOCK FALSE
