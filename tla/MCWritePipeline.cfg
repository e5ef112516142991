CONSTANTS
  n1 = n1
  n2 = n2
  n3 = n3
  Nodes = {n1, n2, n3}
  Green = {n1}
  Shapes <- MCShapes
  Workers = 2
  QueueCap = 10
  FailedCap = 2
  Retries = 2
  MaxFaults = 4
SPECIFICATION Spec
CHECK_DEADLOCK FALSE
INVARIANT FullyReplicated
INVARIANT PublishedWhole
INVARIANT StructureInOrder
PROPERTY WriteReturns
