SPECIFICATION DaySpec
CONSTANTS
  a1 = a1
  a2 = a2
  a3 = a3
  c1 = c1
  NoLimit = NoLimit
  Auctions = {a1, a2, a3}
  Campaigns = {c1}
  MaxCost = 2
  DailyBudget <- DailyOf
  TotalBudget <- TotalOfNone
  Rankings <- OneCampaign
  TopK = 1
  Clickers = {"click"}
  Releasers = {}
  Sweepers = {}
  DayLength = 1
  HoldTtl = 1
  MarkerTtl = 2
  RequestLife = 1
  MaxClock = 2
  ResetMode = "anytime"
  Straddling = TRUE
  MaxDisturbances = 1
SYMMETRY AuctionSymmetry
INVARIANTS
  DailyBudgetKept
  DailyReservedMatchesHolds
CHECK_DEADLOCK FALSE
