CONSTANTS
  r1 = r1 w1 = w1 m1 = m1
  c1 = c1
  Free = Free BadChip = BadChip
  Threads = {w1, m1}
  Chips = {c1}
  Ops <- WriteSide
  FifoSize = 2
  MaxInflight = 2
  MaxRefs = 3
SPECIFICATION FairSpec
INVARIANTS TypeOK NoLostCompletion OwnCompletion
PROPERTIES WriteReturns AbortReleasesReader
