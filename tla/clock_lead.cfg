SPECIFICATION Spec
CONSTANTS
  Notification = {n1}
  High = {n1}
  EventId = {1, 2, 3, 4, 5, 6}
  DeliveryLimit = 1
  MaxFaults = 0
  Publisher = {p1}
  BatchSize = 2
  ClaimTimeout = 1
  OutboxMaxAttempts = 2
  ClockLead = 1
  PublisherTimely = TRUE
  Worker = {w1, w2}
  Mode <- AllBoth
  MaxRetries = 2
  Backoff <- OneTick
  LockTTL = 2
  ProviderTimely = TRUE
INVARIANT NotStranded
SYMMETRY Symmetry
