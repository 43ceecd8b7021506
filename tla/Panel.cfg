SPECIFICATION Spec
CONSTANTS
  ann = ann  bob = bob  s1 = s1  s2 = s2  h1 = h1  h2 = h2  d1 = d1  buy = buy
  NULL = NULL
  Emails = {ann, bob}
  Slots = {s1, s2}
  MaxIds = 2
  Parts = {"accounts", "team", "faults", "settings", "catalogue", "links", "segments", "clicks", "limits"}
  Names = {h1, h2}
  MaxSites = 3
  MaxRows = 6
  Members <- People
  Drafts <- Rules
  Deliveries = {d1}
  Buttons = {buy}
  Garbage = Garbage
  Body = Body
  Close = Close
  Gone = Gone
  DelDays = {0, 1, 2}
  EvtDays = {1, 2}
  StrandedDays = 2
  MaxDays = 3
  MaxFaults = 1
  quick = quick  slow = slow  rare = rare
  Keys = {quick, slow, rare}
  Limit = 2
  Window <- Windows
  MaxWindow = 2
  CleanupEvery = 1
  CleanupGap = 2
  MaxBuckets = 2
  MaxTime = 3
  MaxLosses = 1
INVARIANTS PanelInvariant LinksLead SegmentsResolve
PROPERTIES SecretsKept Tenancy PruningSafe LimitHolds
SYMMETRY Symmetry
CHECK_DEADLOCK FALSE
