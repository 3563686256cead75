SPECIFICATION FairSpec
CONSTANTS
  kMaxIters = 6
  kMinItersForGuestFileSize = 2
  GuestSize = 3
  MaxStall = 1
  MaxSessions = 2
  GuestDiffs <- TwoDiffs
CHECK_DEADLOCK FALSE
INVARIANTS
  TypeOK
  SaverAlone
  WholePair
  HostSaved
PROPERTIES
  SavingEnds
  Implements
