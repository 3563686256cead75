SPECIFICATION Spec
CONSTANTS
  Threads = {t1}
  Names = {n1}
  None = None
  BufCapacity = 2
  StackMax = 2
  Ops = {"begin", "end"}
  GuestDiffs <- NoDiff
  Quiesced = FALSE
  MaxCalls <- ThreeEach
  MaxSessions = 2
CHECK_DEADLOCK FALSE
INVARIANTS
  Lossless
PROPERTY
  NoTornSave
