\* Three clients with own ids or all with one, two managers; a client has died at the start; fair behaviours.
SPECIFICATION MCFairSpec
CONSTANTS
  c1 = c1  c2 = c2
  Clients = {c1, c2, c3}
  Managers = {m1, m2}
  Ids = {c1, c2, c3}
  IdMaps <- MCOwnOrOneId
  Careful = TRUE
  Opcodes = {"subscribe"}
  Keys = {"k", ""}
  MaxRequests = 1
  MaxDeaths = 3
  NoClient = NoClient
  NoFd = NoFd
INVARIANTS ServerSurvives
PROPERTIES ClientsServed ManagersReturn
CHECK_DEADLOCK FALSE
