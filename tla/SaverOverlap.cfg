SPECIFICATION Spec
CONSTANTS
  kMaxIters = 5
  kMinItersForGuestFileSize = 2
  GuestSize = 3
  MaxStall = 1
  MaxSessions = 2
CHECK_DEADLOCK FALSE
INVARIANT
  NotWhileSaving
