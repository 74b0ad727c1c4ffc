CONSTANTS
  d1 = d1 d2 = d2 d3 = d3 t1 = t1 t2 = t2 a1 = a1 a2 = a2
  Nobody = Nobody
  Devs = {d1, d2, d3}
  Tasks = {t1, t2}
  Addresses = {a1, a2}
  LogSize = 4
  Values = {"0", "5", "6", "7", "8", "9", "a", "b", "t", "Disable"}
  Scenarios <- Cases
SPECIFICATION Spec
CHECK_DEADLOCK FALSE
INVARIANTS DoneAsAsked ToldOnce
