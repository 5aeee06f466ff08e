SPECIFICATION Spec
CONSTANTS
  Thread = {t1, t2, t3}
  NoThread = NoThread
  MaxNest = 2
SYMMETRY Symmetry
INVARIANTS MutualExclusion UnlockedByOwner
