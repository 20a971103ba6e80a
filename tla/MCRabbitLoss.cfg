SPECIFICATION Spec
CONSTANTS
  c1 = c1
  c2 = c2
  m1 = m1
  m2 = m2
  None = None
  Consumers <- MCConsumers
  Messages <- MCMessages
  MaxReturns = 2
CHECK_DEADLOCK FALSE
INVARIANT
  DispatchedAtLeastOnce
