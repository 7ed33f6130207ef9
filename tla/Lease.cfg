SPECIFICATION FairSpec
CONSTANTS
  w1 = w1
  w2 = w2
  r1 = r1
  r2 = r2
  r3 = r3
  None = None
  Workers = {w1, w2}
  Requests = {r1, r2, r3}
  WorkerOf <- TwoAtOneWorker
  Skew <- SecondClockAhead
  Lease = 3
  Renewal = 1
  Tries = 2
  MaxSkew = 1
  MaxCrashes = 1
INVARIANT LeaseTypeOK OneWriter
PROPERTY LostLeaseIsFinal EveryRequestIsSettled
CHECK_DEADLOCK FALSE
