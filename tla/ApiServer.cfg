CONSTANTS
  Conn = {c1, c2}
  Endpoint = {"Events", "LobbyCreate", "UpdateClientSettings", "DockerPullImage", "Unknown"}
  Workers = 1
SPECIFICATION ServerSpec
INVARIANTS
  ServerTypeOK
  AnsweredOnce
CHECK_DEADLOCK FALSE
