\* Typed and redirected inputs, three changes by jobs.
SPECIFICATION Spec
CONSTANTS
  TABLE_SIZE = 2
  Keys <- MCKeys
  Values = {"u"}
  Pipes = {7}
  Initial <- MCInitial
  NoValue = "none"
  UINT_MAX = 20
  StaleDigits <- MCStaleDigits
  Scripts <- MCScripts
  MAX_STRING_SIZE = 20
  F_NOTIF = 7
  Unknown <- MCUnknown
  Overlong <- MCOverlong
  PipeCapacity = 2
  MaxChanges = 3
  Garbage <- MCGarbage
INVARIANTS TypeOK PrintedAreChanges TypedIsDone TypedIsTaken
PROPERTIES ChangesPrinted ClientEnds
CHECK_DEADLOCK FALSE
