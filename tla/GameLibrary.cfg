CONSTANTS
  g1 = g1
  g2 = g2
  t1 = t1
  t2 = t2
  Game = {g1, g2}
  Title = {t1, t2}
  None = None
  Config <- TwoApps
  Past <- Tables
  Request = {r1}
  Syncs = {s1, s2}
  MaxRequests = 1
  MaxStops = 1
SPECIFICATION FairSpec
INVARIANTS
  TypeOK
  MirrorsTable
  SharesHaveGame
PROPERTIES
  LibraryReturns
CHECK_DEADLOCK FALSE
