SPECIFICATION Spec
CONSTANTS
  c1 = c1
  c2 = c2
  p1 = p1
  p2 = p2
  None = None
  Consumers <- MCConsumers
  Partitions <- MCPartitions
  FromEnd = TRUE
  MaxMessages <- MCMaxMessages
  MaxRebalances = 3
CHECK_DEADLOCK FALSE
INVARIANTS
  CommittedWasDispatched
