CONSTANTS
  t1 = t1 t2 = t2
  Nothing = Nothing
  Threads = {t1, t2}
  Chips = {0, 1}
  Wirings = {"direct", "indirect", "mailbox"}
SYMMETRY Symmetry
SPECIFICATION Spec
INVARIANTS OwnPlace RestIsMpu PendingIsWhole
