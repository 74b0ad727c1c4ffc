CONSTANTS
  t1 = t1 t2 = t2
  Free = Free
  Threads = {t1, t2}
  Scenarios <- Programs
SPECIFICATION FairSpec
INVARIANTS SentIsArray PulledIsSent FitsBuffer
PROPERTIES CallsReturn
CHECK_DEADLOCK FALSE
