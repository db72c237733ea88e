CONSTANTS
  t1 = t1
  t2 = t2
  t3 = t3
  NoThread = NoThread
  AnyValue = AnyValue
  Threads <- MCTwo
  Values = {0, 1}
  Limits = {"past", "soon"}
SPECIFICATION FairSpec
PROPERTY EveryCallReturns
