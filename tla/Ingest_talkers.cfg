SPECIFICATION Spec
CONSTANTS
  w1 = w1
  Message = {1, 2, 3, 4}
  Talker = {1, 2}
  TalkerOf <- TwoTalkers
  TimeOf <- Untimed
  Media = {1}
  Worker = {w1}
  LateArrival = TRUE
  Clearable = {1, 3}
INVARIANTS
  NothingLost
  MediaServed
  SummariesMatch
