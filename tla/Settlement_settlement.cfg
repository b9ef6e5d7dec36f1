SPECIFICATION Spec
CONSTANTS
  c1 = c1
  c2 = c2
  k1 = k1
  k2 = k2
  None = None
  Campaigns = {c1, c2}
  Clicks = {k1, k2}
  LastDay = 1
  StartDay <- Starts
  EndDay <- Ends
  Cost = 1
  DailyBudget = 1
  TotalBudget = 2
  Tolerance = 0
  MaxFaults = 1
  Regimes = {{"clicks", "edit", "crash"}, {"clicks", "nightly", "crash"},
             {"nightly", "race", "overlap"}, {"race", "restart"},
             {"clicks", "race", "fault"}, {"delete", "overlap"},
             {"manual", "migrate"}, {"migrate", "race", "overlap", "crash"}}
INVARIANTS
  LocksAreReleased
  StoppedIsNotSold
  SpentCoversLogs
PROPERTIES
  DocsConverge
CHECK_DEADLOCK FALSE
