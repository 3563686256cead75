SPECIFICATION FairSpec
CONSTANTS
  Threads = {t1, t2}
  Names = {n1}
  None = None
  BufCapacity = 3
  StackMax = 2
  Ops = {"begin", "end"}
  GuestDiffs <- NoDiff
  Quiesced = TRUE
  MaxCalls <- TwoAndOne
  MaxSessions = 2
INVARIANTS
  SessionIsolation
  DefinedBeforeUse
  OwnTracks
  StartsCleared
  ThreadOrder
PROPERTIES
  CallsReturn
  ControlReturns
