SPECIFICATION Spec
CHECK_DEADLOCK FALSE
CONSTANTS
  t1 = t1
  t2 = t2
  w1 = w1
  w2 = w2
  none = none
  Tasks = {t1, t2}
  Texts <- MCVotes
  Stated = {"synthesize"}
  Workers = {w1, w2}
  SweepLimit = 1
  NoKind = none
  MaxComments = 3
  MaxRecords = 0
  Window = 3
  MaxRounds = 2
  RatioNum = 3
  RatioDen = 5
INVARIANT GateCountsVotes
