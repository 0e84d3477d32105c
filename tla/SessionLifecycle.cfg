CONSTANTS
  Client = {c1}
  App = {game}
  CompositorApp = {game}
  Https = https
  ApiThread = {t1}
  MaxJobs = 2
  None = none
SPECIFICATION FairSpec
INVARIANTS
  TypeOK
  RegistryHoldsLatestLaunch
  StaleQueueNeverDrained
PROPERTIES
  EndedRunnerUnregisters
  
CHECK_DEADLOCK FALSE
