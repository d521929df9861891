\* The input of tests/client_tests.txt from a file.
SPECIFICATION Spec
CONSTANTS
  TABLE_SIZE = 2
  Keys <- MCKeys
  Values = {"u"}
  Pipes = {7}
  Initial <- MCInitial
  NoValue = "none"
  UINT_MAX = 20000
  StaleDigits <- MCStaleDigits
  Scripts <- TestScripts
  MAX_STRING_SIZE = 40
  F_NOTIF = 7
  Unknown <- MCUnknown
  Overlong <- MCOverlong
  PipeCapacity = 2
  MaxChanges = 0
  Garbage <- MCGarbage
INVARIANT FileIsDone
CHECK_DEADLOCK FALSE
