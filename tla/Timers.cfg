SPECIFICATION FairSpec
CONSTANTS
  w1 = w1 w2 = w2 p1 = p1 p2 = p2
  NULL = NULL
  Workers = {w1}
  Journeys = {1}
  Mails = {2}
  Contacts = {p1, p2}
  Listed = {p1}
  DueLimit = 2
  ClaimWindow = 2
  JourneyInterval = 2
  BackoffUnit = 1
  MaxBackoff = 3
  MaxJourneyFails = 2
  ReapAfter = 2
  MaxDelay = 1
  MaxActions = 3
  MaxFaults = 2
PROPERTIES JourneysKeepTime JourneyComesRound MailSettles
CHECK_DEADLOCK FALSE
