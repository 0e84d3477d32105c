CONSTANTS
  Session = {s1, s2}
  Thread = {t1, t2}
  MaxLobbies = 1
  MaxDepth = 2
  LobbiesFirst = TRUE
  None = none
SPECIFICATION FairSpec
PROPERTY
  EmptyLobbyStops
CHECK_DEADLOCK FALSE
