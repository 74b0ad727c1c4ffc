CONSTANTS
  i1 = i1 i2 = i2 u1 = u1 u2 = u2
  None = None
  Interfaces = {i1, i2}
  Users = {u1, u2}
  MaxMinor = 1
  MaxRegions = 2
SYMMETRY Symmetry
SPECIFICATION Spec
CHECK_DEADLOCK FALSE
INVARIANTS ClassWithDevices GivenBack FilesAreCounted
