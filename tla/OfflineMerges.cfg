SPECIFICATION Spec
CONSTANTS
  Word = 64
  Precise = 20
  Nanos = 2
  Cycles = 3
  Worlds <- MCWorlds
  HostTraces <- MCHostTraces
  GuestTraces <- MCGuestTraces
  CommandLines <- MCCommandLines
  Configs <- MCConfigs
CHECK_DEADLOCK FALSE
INVARIANTS
  TypeOK
  MergesAsAsked
  Aligned
  LinedUp
