SPECIFICATION Spec
CONSTANTS
  Notification = {n1}
  High = {n1}
  EventId = {1, 2, 3, 4, 5, 6}
  DeliveryLimit = 1
  MaxFaults = 2
  Publisher = {p1}
  BatchSize = 2
  ClaimTimeout = 1
  OutboxMaxAttempts = 2
  ClockLead = 0
  PublisherTimely = FALSE
  Worker = {w1, w2}
  Mode <- AllBoth
  MaxRetries = 2
  Backoff <- OneTick
  LockTTL = 2
  ProviderTimely = FALSE
INVARIANTS NotStranded HistoryTellsResults ConfirmationIsTold NoticePerDrop
PROPERTY ImplementsLifecycle
SYMMETRY Symmetry
