\* Two threads, a buffer of two entries, directories of up to seven.
SPECIFICATION Spec
CONSTANTS
  Threads = {t1, t2}
  Directories <- MCDirectories
  Slots = 2
  TooLong <- MCTooLong
  Shortened <- MCShortened
  MaxBackups = 2
  MaxFailures = 2
  NOBODY = NOBODY
  NoName = NoName
INVARIANTS TypeOK EachFileOnce NoFileSkipped BackupsApart
PROPERTY ThreadsEnd
CHECK_DEADLOCK FALSE
