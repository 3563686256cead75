SPECIFICATION Spec
CONSTANTS
  MaxSessions = 3
  MaxEvents = 2
  Files = {f1}
  Callbacks = {c1}
  NoFile = NoFile
CHECK_DEADLOCK FALSE
INVARIANTS
  TypeOK
  Asserted
  SavedOnReturn
  ToldOnReturn
  NoLateCallback
PROPERTIES
  CallsReturn
  TracingStops
