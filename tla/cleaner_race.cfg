SPECIFICATION Spec
CONSTANTS
  Request = {r1, r2, r3}
  Body <- OneDiffers
  None = None
  KeyTTL = 2
  LockTTL = 2
INVARIANT ExpiredKeyCanBeReused
