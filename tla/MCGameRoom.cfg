SPECIFICATION FairSpec
CONSTANTS
  i1 = i1
  i2 = i2
  i3 = i3
  t1 = t1
  t2 = t2
  Id = {i1, i2, i3}
  Room = {r1}
  Thread = {t1, t2}
  Null = Null
  MaxGames = 2
  MaxClose = 1
  Setups <- SetupsChecked
CHECK_DEADLOCK FALSE
INVARIANTS  GivenBackOnce EntriesBelongToRooms
PROPERTY MatchIsAnswered
