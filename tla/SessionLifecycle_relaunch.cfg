CONSTANTS
  Client = {c1}
  App = {game}
  CompositorApp = {}
  Https = https
  ApiThread = {}
  MaxJobs = 2
  None = none
SPECIFICATION Spec
PROPERTY LiveContainerNeverReplaced
CHECK_DEADLOCK FALSE
