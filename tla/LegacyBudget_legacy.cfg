SPECIFICATION Spec
CONSTANTS
  c1 = c1
  c2 = c2
  a1 = a1
  a2 = a2
  None = None
  Campaigns = {c1, c2}
  Auctions = {a1, a2}
  MaxViews = 2
  MaxClicks = 2
  Cost <- Costs
  DailyBudget = 1
  TotalBudget = 1
  Rankings <- TwoRankings
  RecordTtl = 2
  BackupTtl = 3
  LastTime = 3
  MaxAtOnce = 2
  MaxFaults = 1
  Regimes = {{"rush", "lost"}, {"race"}, {"race", "reload"}, {"reload"}, {"crash"}, {"missed"}, {"slow"}, {"midnight"}}
INVARIANTS
  SpentWithinBudget
  SpentCoversClicks
  SettledOnce
PROPERTIES
  ViewedIsSettled
CHECK_DEADLOCK FALSE
