\* Two jobs, batches that repeat keys, all commands, one client that reads, stalls or dies; no symmetry: liveness is checked too.
SPECIFICATION FairSpec
CONSTANTS
  TABLE_SIZE = 3
  Keys <- MCKeys
  Initial <- MCInitial
  Values = {"v", "w"}
  Pipes = {p1}
  NoValue = NoValue
  Jobs = {j1, j2}
  Managers = {m1}
  Commands <- BatchCommands
  PipeCapacity = 1
  MaxInputs = 5
  NOBODY = NOBODY
  NoPipe = NoPipe
  NoSub = NoSub
  NoNews = NoNews
  Gone = Gone
  NoCommand = NoCommand
INVARIANTS LockDiscipline ChainsWellFormed
PROPERTIES JobsAtomic EveryCallReturns
CHECK_DEADLOCK FALSE
