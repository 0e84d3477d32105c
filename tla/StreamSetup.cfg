CONSTANTS
  Client = {c1, c2}
  Kind = {video}
  Conn = {k1}
  Peer = {p1}
  MaxLaunch = 2
  MaxJobs = 1
  None = none
SPECIFICATION FairSpec
INVARIANTS
  
  StopLeavesOnlyMissed
PROPERTIES
  AnnouncedStreams
  
  
CHECK_DEADLOCK FALSE
