CONSTANTS
  a = a
  b = b
  c = c
  barrier = barrier
  m = m
  n = n
  None = None
  Ops <- MCWithBarrier
  Barriers <- MCBarriers
  Clients <- MCOne
  Program <- MCBarrierProgram
  Levels <- MCLevels
  Normal = 2
  Batches <- MCBatches
  qos <- MCNoQoS
SPECIFICATION FairSpec
CHECK_DEADLOCK FALSE
INVARIANTS
  BarrierOrder
  DependenciesFirst
PROPERTY QueueDrains
