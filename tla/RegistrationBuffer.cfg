\* Three clients, three managers, a buffer that fills up and wraps, no symmetry: liveness is checked too.
SPECIFICATION FairSpec
CONSTANTS
  Requests = {r1, r2, r3}
  Managers = {m1, m2, m3}
  Main = Main
  MAX_BUFFER_SIZE = 2
  MaxWakeups = 1
  NOBODY = NOBODY
  NoRequest = NoRequest
INVARIANTS TypeOK RingInv NoLostWakeup
PROPERTIES FirstComeFirstServed RequestsDispatched
CHECK_DEADLOCK FALSE
