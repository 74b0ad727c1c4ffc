CONSTANTS
  t1 = t1 t2 = t2 c1 = c1 c2 = c2 c3 = c3
  Free = Free
  Threads = {t1}
  Chips = {c1, c2}
  Absent = {}
  Ops <- OneDownload
  Parallel = 2
  Tickets = 2
SPECIFICATION Spec
INVARIANTS DownloadAwaitsAll
