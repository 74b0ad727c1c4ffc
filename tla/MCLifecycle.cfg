CONSTANTS
  d1 = d1 d2 = d2 u1 = u1
  Free = Free
  Devices = {d1, d2}
  Others = {0}
  Minors = {0, 1, 2, 3}
  Users = {u1}
  Vectors = 2
SYMMETRY Symmetry
SPECIFICATION Spec
INVARIANTS NothingLeaks InterruptsFindDevice UsableIsArmed InsideIsWhole NodesAndDevicesAgree
