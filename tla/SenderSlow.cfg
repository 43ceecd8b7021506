SPECIFICATION Spec
CONSTANTS
  w1 = w1  w2 = w2  c1 = c1  g1 = g1  s1 = s1
  NULL = NULL
  Workers <- TwoWorkers
  Campaigns <- OneCampaign
  Domains = {g1}
  Subscribers = {s1}
  Deliveries <- OneRow
  CampaignOf <- RowCampaign
  DomainOf <- RowDomain
  SubscriberOf <- RowSubscriber
  MaxAttempts = 2
  BatchSize = 2
  Concurrency = 2
  StaleClaim = 2
  Backoff = 1
  MaxCycle = 3
  SharedTokens = FALSE
  MaxClock = 3
  MaxFaults = 1
PROPERTIES LateResultIgnored SentIsFinal
CHECK_DEADLOCK FALSE
SYMMETRY WorkerSymmetry
