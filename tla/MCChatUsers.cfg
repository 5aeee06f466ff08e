SPECIFICATION Spec
CONSTANTS
  Addr = {a1, a2, a3}
  Thread = {t1, t2}
  Null = Null
  MaxConnection = 1
  MaxSeed = 4
  MaxPacket = 4
SYMMETRY ChatSymmetry
CHECK_DEADLOCK FALSE
INVARIANTS CountIsExact ListedAreLive LookupFinds AdmissionBound SpeaksUnderOwnName
PROPERTY IdsAreFresh
