CONSTANTS
  a = a
  b = b
  c = c
  barrier = barrier
  m = m
  n = n
  None = None
  Ops <- MCOps
  Barriers = {}
  Clients <- MCOne
  Program <- MCRacingProgram
  Levels <- MCLevels
  Normal = 2
  Batches <- MCBatches
  qos <- MCNoQoS
SPECIFICATION FairSpec
CHECK_DEADLOCK FALSE
PROPERTY QueueDrains
