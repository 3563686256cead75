SPECIFICATION FairSpec
CONSTANTS
  MainTraces <- MCMainTraces
  AddonTraces <- MCAddonTraces
  TimeDiffs <- MCTimeDiffs
  TimeMod = 16
  FreshUuids = {21, 22}
CHECK_DEADLOCK FALSE
INVARIANTS
  TypeOK
  IdsDisjoint
  TracksFollow
PROPERTY
  MergeEnds
