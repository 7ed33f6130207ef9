SPECIFICATION FairSpec
CONSTANTS
  Chunks = {c1, c2}
  Deltas = 2
  MaxChanges = 5
CHECK_DEADLOCK FALSE
INVARIANT LateIsBounded
PROPERTY EveryQuestionEnds
PROPERTY ImplementsAnswerPromise
