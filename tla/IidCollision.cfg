SPECIFICATION Spec
CONSTANTS
  Threads = {t1, t2}
  Names = {n1, n2}
  None = None
  BufCapacity = 6
  StackMax = 1
  Ops = {"begin"}
  GuestDiffs <- NoDiff
  Quiesced = TRUE
  MaxCalls <- OneEach
  MaxSessions = 1
INVARIANT
  IidsUnique
