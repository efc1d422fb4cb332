SPECIFICATION WebSpec
CONSTANTS
  a1 = a1
  a2 = a2
  t1 = t1
  t2 = t2
  p1 = p1
  p2 = p2
  Account = {a1, a2}
  Talker = {t1, t2}
  NoAccount = NoAccount
  NoTalker = NoTalker
  Nothing = Nothing
  MaxNavigations = 3
  Listed = {a1}
  Path = {p1, p2}
  Blank = Blank
  Missing = Missing
  MaxVisits = 2
  MaxChanges = 2
CHECK_DEADLOCK FALSE
INVARIANTS
  WebTypeOK
  ShownIsSelected
  RouteIsShown
  PageMatchesServer
  NothingBlanked
PROPERTIES
  LoadingStops
  PageLoads
