SPECIFICATION Spec
CONSTANTS
  Client = {c1, c2, c3}
  Address = {a1, a2, a3}
  Room = {r1}
  Thread = {t1}
  Null = Null
  MaxAsk = 4
  MaxClose = 0

CHECK_DEADLOCK FALSE
PROPERTY SeatIsFree
