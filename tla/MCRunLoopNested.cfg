CONSTANTS
  loop = loop
  c1 = c1
  modeA = modeA
  modeB = modeB
  s1 = s1
  s2 = s2
  p1 = p1
  b1 = b1
  b2 = b2
  o1 = o1
  o2 = o2
  WakePort = WakePort
  Loop = loop
  Clients = {c1}
  Modes <- MCModes
  Manual = {s1, s2}
  Ports = {p1}
  Blocks = {b1, b2}
  Observers = {o1, o2}
  Order <- MCOrder
  InMode <- MCInMode
  Watches <- MCWatches
  OneShot = {o2}
  Members <- MCMembers
  Watching <- MCWatching
  Nesting = {"source"}
  Program <- NestedProgram
CHECK_DEADLOCK FALSE
SPECIFICATION Spec
INVARIANT WakeupIsNotLost
