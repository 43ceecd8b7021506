SPECIFICATION FairSpec
CONSTANTS
  Endpoints = {1, 2}
  NULL = NULL
  Cap = 1
  MaxActs = 2
  MaxFaults = 1
  PromptType = "firstVisit"
INVARIANTS SiteInvariant
PROPERTIES OnlySubscribeRevives PendingArrives OptOutLands
CHECK_DEADLOCK FALSE
