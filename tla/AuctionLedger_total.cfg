SPECIFICATION FairSpec
CONSTANTS
  a1 = a1
  a2 = a2
  c1 = c1
  NoLimit = NoLimit
  Auctions = {a1, a2}
  Campaigns = {c1}
  MaxCost = 2
  DailyBudget <- DailyOf
  TotalBudget <- TotalOf3
  Rankings <- OneCampaign
  TopK = 1
  Clickers = {"click"}
  Releasers = {}
  Sweepers = {"sweep"}
  DayLength = 1
  HoldTtl = 1
  MarkerTtl = 2
  RequestLife = 1
  MaxClock = 2
  ResetMode = "anytime"
  Straddling = TRUE
INVARIANTS
  TypeOK
  TotalsMatchLedger
  TotalBudgetKept
  HoldsAreQueued
PROPERTIES
  AnswerHasHold
  KeepsPromise
  KeysFollow
  HoldsAreSettled
CHECK_DEADLOCK FALSE
