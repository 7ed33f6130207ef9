SPECIFICATION FairSpec
CONSTANTS
  w1 = w1
  w2 = w2
  policy = policy
  source = source
  parsed = parsed
  chunk = chunk
  event = event
  None = None
  Workers = {w1, w2}
  Searchers = {w1}
  Records = {policy, source, parsed, chunk, event}
  Policy = policy
  Core = {policy, source, parsed, chunk}
  Sources = {source}
  Chunks = {chunk}
  Links <- PolicyLinks
  Polls = 2
  MaxStale = 3
  MaxFailures = 1
  MaxCrashes = 1
INVARIANT PurgeTypeOK NotServedOncePurging
PROPERTY  PurgeCompletes
CHECK_DEADLOCK FALSE
