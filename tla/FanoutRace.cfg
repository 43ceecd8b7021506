SPECIFICATION RaceSpec
CONSTANTS
  w1 = w1  w2 = w2  g1 = g1  s1 = s1  s2 = s2
  NULL = NULL
  Workers <- TwoWorkers
  Sites <- OneSite
  Campaigns <- Three
  Subscribers <- Everyone
  SiteOf <- AllOnSite
  Listed <- ByKind
  SourceOf <- ThirdAfterSecond
  Immediate = {2}
  Chunk = 1
  DueLimit = 2
  ReapAfter = 2
  MaxFanout = 1
  MaxCrashes = 2
  MaxThrows = 1
CHECK_DEADLOCK FALSE
INVARIANTS FullAudience StarterAlone
PROPERTIES CancelIsFinal SettledStays
SYMMETRY Symmetry
