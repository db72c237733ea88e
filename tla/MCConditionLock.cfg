CONSTANTS
  t1 = t1
  t2 = t2
  t3 = t3
  NoThread = NoThread
  AnyValue = AnyValue
  Threads <- MCThreads
  Values = {0, 1}
  Limits = {"past", "soon", "never"}
SPECIFICATION Spec
CHECK_DEADLOCK FALSE
SYMMETRY MCSymmetry
INVARIANTS
  TypeOK
  HeldAlone
  NoSleeperMissed
