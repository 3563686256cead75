SPECIFICATION Spec
CONSTANTS
  mTraceBufferSize = 44
  kTrackEventPadding = 11
  FieldSizes = {4, 50}
  MaxDepth = 3
  MaxBody = 14
  MaxPackets = 3
CHECK_DEADLOCK FALSE
INVARIANTS
  TypeOK
  WholePackets
  OwnBuffer
