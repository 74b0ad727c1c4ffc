CONSTANTS
  d1 = d1 u1 = u1 u2 = u2 p1 = p1
  Free = Free
  Devices = {d1}
  Users = {u1}
  Probes = {}
  Dev <- SoloDev
  Jobs <- SoloJobs
  Signalled = {}
  FailAckCount = 5
  MaxOwed = 1
SPECIFICATION Spec
INVARIANTS AckMeansDone
