CONSTANTS
  a = a
  b = b
  c = c
  barrier = barrier
  m = m
  n = n
  None = None
  Ops <- MCTwoOps
  Barriers = {}
  Clients <- MCClients
  Program <- MCProgram
  Levels <- MCLevels
  Normal = 2
  Batches <- MCTwoBatches
  qos <- MCQoS
SPECIFICATION Spec
CHECK_DEADLOCK FALSE
INVARIANTS
  TypeOK
  EnqueuedIsListed
  SlotsAreCounted
  NoDeadlock
  NoSleeperForgotten
PROPERTIES
  NoOvercommit
  ImplementsPool
