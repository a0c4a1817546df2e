SPECIFICATION FairSpec
CONSTANTS
  Notification = {n1, n2}
  High = {n1}
  EventId = {1, 2, 3, 4, 5, 6}
  DeliveryLimit = 1
  MaxFaults = 0
  Publisher = {p1}
  BatchSize = 1
  ClaimTimeout = 1
  OutboxMaxAttempts = 2
  ClockLead = 0
  PublisherTimely = FALSE
  Worker = {w1, w2}
  Mode <- HighAndLow
  MaxRetries = 2
  Backoff <- NoBackoff
  LockTTL = 2
  ProviderTimely = FALSE
PROPERTY EventuallySettled
