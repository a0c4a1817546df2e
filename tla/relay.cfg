SPECIFICATION FairSpec
CONSTANTS
  Notification = {n1, n2}
  High = {n1}
  EventId = {1, 2}
  DeliveryLimit = 1
  MaxFaults = 2
  Publisher = {p1, p2}
  BatchSize = 2
  ClaimTimeout = 2
  OutboxMaxAttempts = 2
  ClockLead = 0
  PublisherTimely = FALSE
  Kinds = {"retry"}
  MaxDelay = 1
INVARIANTS TypeOK PublishedWasEmitted AttemptsAccountForMessages ClaimsAreExclusive DuplicatesNeedFaults GivingUpNeedsFaults
PROPERTIES OutcomeIsFinal EventuallyRelayed
