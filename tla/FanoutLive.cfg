SPECIFICATION LiveSpec
CONSTANTS
  w1 = w1  w2 = w2  g1 = g1  s1 = s1  s2 = s2
  NULL = NULL
  Workers <- OneWorker
  Sites <- OneSite
  Campaigns <- Three
  Subscribers <- Everyone
  SiteOf <- ThirdSiteless
  Listed <- ByKind
  SourceOf <- NoSource
  Immediate = {2}
  Chunk = 1
  DueLimit = 2
  ReapAfter = 2
  MaxFanout = 2
  MaxCrashes = 1
  MaxThrows = 1
CHECK_DEADLOCK FALSE
INVARIANTS DoneIsDrained
PROPERTIES CampaignEnds CancelDrains SendingEnds
