SPECIFICATION Spec
CONSTANTS
  a = a
  b = b
  c1 = c1
  c2 = c2
  u1 = u1
  d1 = d1
  d2 = d2
  Aggregates <- MCAggregates
  Commands <- MCCommands
  Kind <- MCKind
  Target <- MCTarget
INVARIANTS
  EventsHaveOwner
  DuplicatesNeedOverlap
  StoreIsRecorded
PROPERTIES
  LossNeedsEarlierEnd
