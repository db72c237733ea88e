CONSTANTS
  a = a
  b = b
  c = c
  m = m
  n = n
  None = None
  Ops <- MCOps
  Barriers = {}
  Clients <- MCClients
  Program <- MCProgram
SPECIFICATION OpFairSpec
CHECK_DEADLOCK FALSE
INVARIANTS
  OpTypeOK
  CountIsOwed
  AssertionsHold
  NoLockCycle
  NoSleeperForgotten
PROPERTY StartedFinishes
