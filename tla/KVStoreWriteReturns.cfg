\* A write behind a request that failed.
SPECIFICATION FairSpec
CONSTANTS
  TABLE_SIZE = 3
  Keys <- MCSmallKeys
  Initial <- MCSmallInitial
  Values = {v1}
  Pipes = {p1}
  NoValue = NoValue
  Jobs = {j1}
  Managers = {m1}
  Commands <- SubscriptionCommands
  PipeCapacity = 1
  MaxInputs = 3
  NOBODY = NOBODY
  NoPipe = NoPipe
  NoSub = NoSub
  NoNews = NoNews
  Gone = Gone
  NoCommand = NoCommand
PROPERTY WriteReturns
CHECK_DEADLOCK FALSE
