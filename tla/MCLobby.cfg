SPECIFICATION Spec
CONSTANTS
  Client = {c1, c2, c3}
  Address = {a1, a2, a3}
  Room = {r1, r2}
  Thread = {t1, t2}
  Null = Null
  MaxAsk = 4
  MaxClose = 1
SYMMETRY Symmetry
CONSTRAINT Apart
CHECK_DEADLOCK FALSE
INVARIANTS OneGamePerRoom  PlaysOneGame HandOffTellsBoth
PROPERTIES FullUntilReset
