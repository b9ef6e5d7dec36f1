SPECIFICATION MCSpec
CONSTANTS
  a1 = a1
  a2 = a2
  p1 = p1
  q1 = q1
  q2 = q2
  w1 = w1
  w2 = w2
  Auctions = {a1, a2}
  PageOf <- SamePage
  Viewers = {w1, w2}
  Clickers = {q1, q2}
  HoldTtl = 1
  MarkerTtl = 1
  ViewTtl = 2
  ClickTtl = 2
  CallLife = 1
  MaxViews = 2
  MaxClicks = 2
  MaxClock = 3
  MayCrash = FALSE
INVARIANTS
  ClicksAreBilledOnce
PROPERTIES
  BilledReachesLog
CHECK_DEADLOCK FALSE
