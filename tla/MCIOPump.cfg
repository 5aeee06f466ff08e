SPECIFICATION FairSpec
CONSTANTS
  s1 = s1
  s2 = s2
  w1 = w1
  w2 = w2
  t1 = t1
  t2 = t2
  Session = {s1, s2}
  Worker = {w1, w2}
  Thread = {t1, t2}
  Null = Null
  Kind = {"ok", "exit", "nofunc", "invalid"}
  MaxPackets = 3
  Setups <- SetupsChecked
CHECK_DEADLOCK FALSE
INVARIANTS NothingLost OrderKept HangUpLosesNothing
PROPERTY EveryPacketIsTaken
