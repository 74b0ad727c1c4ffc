CONSTANTS
  t1 = t1 t2 = t2 t3 = t3
  Free = Free
  Threads = {t1, t2, t3}
  OpSets <- Calls
  Chunks = 2
  MaxDone = 2
SPECIFICATION FairSpec
INVARIANTS WokenByOwnUrb ReadIsData QuietAtRest
PROPERTIES AbortEndsRead CommandsEnd
