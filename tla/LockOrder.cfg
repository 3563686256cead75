SPECIFICATION FairSpec
CONSTANTS
  Threads = {t1}
  Names = {n1}
  None = None
  BufCapacity = 2
  StackMax = 1
  Ops = {"begin"}
  GuestDiffs <- NoDiff
  Quiesced = FALSE
  MaxCalls <- OneEach
  MaxSessions = 1
CHECK_DEADLOCK FALSE
PROPERTY
  ControlReturns
