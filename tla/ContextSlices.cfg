SPECIFICATION Spec
CONSTANTS
  Threads = {t1}
  Names = {n1, n2}
  None = None
  BufCapacity = 3
  StackMax = 3
  Ops = {"begin", "end", "counter"}
  GuestDiffs <- TwoDiffs
  Quiesced = TRUE
  MaxCalls <- FiveEach
  MaxSessions = 2
SYMMETRY Symmetry
INVARIANTS
  TypeOK
  DefinedBeforeUse
  OwnTracks
  NestedSlices
  OneTimeBase
