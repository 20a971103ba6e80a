SPECIFICATION Spec
CONSTANTS
  r1 = r1
  r2 = r2
  Relay = Relay
  PoolSize = 1
  MaxOverflow = 1
  Requests <- MCRequests
INVARIANTS
  LifespanOrder
  NoHoldAndWait
  NothingLeaks
PROPERTIES
  EveryRequestAnswered
  ShutdownCompletes
