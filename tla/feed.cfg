SPECIFICATION Spec
CONSTANTS
  Notification = {1, 2, 3}
  CreatedAt <- TwoAtOnce
  Channel <- FirstIsEmail
  MaxRetries = 1
  Limit = 1
INVARIANTS TypeOK NothingSkipped NothingRepeated ItemsTellHistory
