SPECIFICATION Spec
CONSTANTS
  u1 = u1
  u2 = u2
  u3 = u3
  d1 = d1
  d2 = d2
  a = a
  b = b
  b5 = b5
  none = none
  Updates <- MCUpdates
  Deletes <- MCDeletes
  Fields <- MCFields
  Values <- MCValues
  NoCategory = none
  Body <- MCBody
  Start <- MCStart
  Rounded <- MCRounded
  MaxClock = 2
CHECK_DEADLOCK FALSE
PROPERTIES
  DeletedStaysDeleted
