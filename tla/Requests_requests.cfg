SPECIFICATION Spec
CONSTANTS
  None = None
  Campaigns = {1, 2, 3}
  Cpc <- MCCpc
  FALLBACK_CAMPAIGN_ID = 3
  Copies <- MCCopies
  NoVector = None
  Tags = {"t", "u"}
  RequestTags = {"t"}
  TagSimilarity <- MCTagSimilarity
  DocumentThreshold = 300
  TagThreshold = 300
  TopL = 3
  TopM = 2
  LexicalTopM = 2
  SupplementLimit = 1
  FinalLimit = 3
  HitsPerCampaign = 2
  Settings <- MCSettings
  MaxChanges = 1
  l1 = l1
  l2 = l2
  b1 = b1
  b2 = b2
  b3 = b3
  g1 = g1
  Creations = {b1, b2, b3}
  DomainOf <- MCDomainOf
  Domains = {"x", "www.x", "y"}
  Plain <- MCPlain
  Guards = {g1}
  NoKey = "none"
  MaxBroken = 2
  Images = {1, 2, 3}
  Rows = {"a", "b"}
  NoImage = None
  Paces = {TRUE, FALSE}
  Urls = {1, 2}
  ZonesOf <- MCZonesOf
  Loads = {l1, l2}
  NoZone = None
  MaxMetrics <- MCMaxMetrics
  PageRegimes <- MCPageRegimes
  People = {"a", "b"}
  EmailOf <- MCEmailOf
  Visits = {1, 2, 3}
  Plans <- MCPlans
  Nobody = None
  MaxEnds = 1
INVARIANTS
  HybridKeepsWinner
  CandidatesAreServable
  ClickIsOfItsAd
  ViewsAreSettled
  DecisionsAreOfTheirPage
  BlogsAreServed
  UsedImagesStay
  AccountsAreSound
CHECK_DEADLOCK FALSE
