CONSTANTS
  d1 = d1 u1 = u1 u2 = u2 p1 = p1
  Free = Free
  Devices = {d1}
  Users = {u1, u2}
  Probes = {p1}
  Dev <- OneDevice
  Jobs <- BusyJobs
  Signalled = {u1, u2, p1}
  FailAckCount = 2
  MaxOwed = 1
SPECIFICATION FairSpec
INVARIANTS SemaphoreDiscipline NoLostAck ResultIsOwn
PROPERTIES CommandReturns
