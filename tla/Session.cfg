\* Two clients, with ids of their own or one after the other under one id, two managers, one death.
SPECIFICATION Spec
CONSTANTS
  c1 = c1  c2 = c2
  Clients = {c1, c2}
  Managers = {m1, m2}
  Ids = {c1, c2}
  IdMaps <- MCIdMaps
  Careful = FALSE
  Opcodes = {"subscribe"}
  Keys = {"k", ""}
  MaxRequests = 1
  MaxDeaths = 1
  NoClient = NoClient
  NoFd = NoFd
SYMMETRY Symmetry
INVARIANTS TypeOK AnswersMatch
CHECK_DEADLOCK FALSE
