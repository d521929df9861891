SPECIFICATION FairSpec
CONSTANTS
  Jobs = {j1, j2, j3}
  max_backups = 2
  NOBODY = NOBODY
  MaxCommands = 2
  MaxSignals = 1
INVARIANTS TypeOK CounterInv ChildrenBounded
PROPERTY BackupPassesGate
CHECK_DEADLOCK FALSE
