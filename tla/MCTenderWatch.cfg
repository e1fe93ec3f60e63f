SPECIFICATION CollectSpec
CONSTANTS
  w1 = w1
  w2 = w2
  Workers = {w1, w2}
  Details <- MCDetails
  Listings <- MCListings
  PageContract <- MCPageContract
  ItemContract <- MCItemContract
  DetailsContract <- MCDetailsContract
  PageShapes <- MCPageShapes
  ItemShapes <- MCItemShapes
  DetailsShapes <- MCDetailsShapes
  ExtraClaims <- MCExtraClaims
  MaxEdits = 2
  MaxImports = 2
  MaxChecks = 2
  MaxPage = 2
  MaxClock = 1
  MaxDrifts = 2
  MaxCloses = 1
  MaxAttempts = 2
  MaxVersions = 3
  Feeds <- MCFeeds
  PageSize = 2
  FeedContract <- MCFeedContract
  FeedItemContract <- MCFeedItemContract
  FeedShapes <- MCFeedShapes
  FeedItemShapes <- MCFeedItemShapes
  MaxCollects = 2
INVARIANTS NoPageSkipped  DriftReachesHuman PublishedWasDelivered CollectedOrReported
CONSTRAINTS Apart First Budget Collecting
SYMMETRY Symmetry
CHECK_DEADLOCK FALSE
