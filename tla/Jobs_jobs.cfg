SPECIFICATION MCSpec
CONSTANTS
  k1 = k1
  k2 = k2
  k3 = k3
  r1 = r1
  r2 = r2
  r3 = r3
  o1 = o1
  o2 = o2
  p = p
  q = q
  Keys = {k1, k2, k3}
  Calls = {r1, r2, r3}
  None = None
  L1Max = 2
  MaxActive = 1
  MaxQueue = 1
  Observers = {o1, o2}
  Attempts = 3
  MaxFaults = 4
  Dangers <- MCDangers
  Auctions = {1, 2}
  Campaigns = {p, q}
  Candidates <- MCCandidates
  UserOf <- MCUserOf
  JobAttempts = 2
  MaxMishaps = 2
INVARIANTS
  SingleFlight
  SlotsAreUsed
  PendingHasJob
  BidsAreLogged
PROPERTIES
  CallsAreAnswered
  PendingIsResolved
  QueuedIsLogged
CHECK_DEADLOCK FALSE
