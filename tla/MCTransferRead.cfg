CONSTANTS
  r1 = r1 w1 = w1 m1 = m1
  c1 = c1
  Free = Free BadChip = BadChip
  Threads = {r1, w1, m1}
  Chips = {c1}
  Ops <- ReadSide
  FifoSize = 2
  MaxInflight = 1
  MaxRefs = 3
SPECIFICATION Spec
INVARIANTS LockDiscipline EfaultOnlyIfRobbed RefsCoverFiles
PROPERTIES AbortNotForgotten
