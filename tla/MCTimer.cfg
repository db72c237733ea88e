CONSTANTS
  loop = loop
  c1 = c1
  modeA = modeA
  modeB = modeB
  t1 = t1
  t2 = t2
  t3 = t3
  Never = Never
  MaxTime = 5
  Loop = loop
  Clients = {c1}
  Timers = {t1, t2, t3}
  Modes <- MCModes
  Interval <- MCInterval
  First <- MCFirst
  Scheduled <- MCScheduled
  Program <- MCProgram
CHECK_DEADLOCK FALSE
SPECIFICATION Spec
INVARIANTS
  TypeOK
  TimersSorted
  ArmedInTime
  OnSchedule
