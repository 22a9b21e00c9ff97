SPECIFICATION Spec
CONSTANTS
  Call <- MCCall
  Agent <- MCAgent
  Rank <- MCRank
  Path <- MCPath
  Host <- MCHost
  Seed <- MCSeed
  PageCap = 4
  DepthCap = 2
  UrlCap = 5
  MaxSitemaps = 3
  MaxSeeds = 3
CHECK_DEADLOCK FALSE
INVARIANTS CrawlIsBreadthFirst RobotsAreObeyed NothingIsLost
PROPERTIES DiscoveryEnds
