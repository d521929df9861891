\* Two managers, two clients, two signals; a FIFO and a ring that are full with one message.
SPECIFICATION Spec
CONSTANTS
  Managers = {m1, m2}
  Clients = {c1, c2}
  MainThread = MainThread
  JobThread = JobThread
  FifoCapacity = 1
  MAX_BUFFER_SIZE = 1
  MaxSignals = 2
  MaxRequests = 1
  NoClient = NoClient
  NOBODY = NOBODY
INVARIANTS TypeOK CutBySignals
PROPERTY SignalEndsServer
CHECK_DEADLOCK FALSE
