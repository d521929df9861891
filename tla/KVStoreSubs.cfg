\* A job, two sessions whose descriptors can be exchanged, two keys.
SPECIFICATION Spec
CONSTANTS
  TABLE_SIZE = 3
  Keys <- MCSmallKeys
  Initial <- MCSmallInitial
  Values = {v1, v2}
  Pipes = {p1, p2}
  NoValue = NoValue
  Jobs = {j1}
  Managers = {m1, m2}
  Commands <- SubscriptionCommands
  PipeCapacity = 1
  MaxInputs = 8
  NOBODY = NOBODY
  NoPipe = NoPipe
  NoSub = NoSub
  NoNews = NoNews
  Gone = Gone
  NoCommand = NoCommand
SYMMETRY Symmetry
INVARIANTS TypeOK LeakMeansFailure SubscribersUpToDate
CHECK_DEADLOCK FALSE
