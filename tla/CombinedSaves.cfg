SPECIFICATION Spec
CONSTANTS
  kMaxIters = 4
  kMinItersForGuestFileSize = 2
  GuestSize = 2
  MaxStall = 1
  MaxSessions = 3
CHECK_DEADLOCK FALSE
INVARIANTS
  TypeOK
  WholePair
