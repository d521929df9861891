\* Files of up to three lines.
CONSTANTS
  Commands <- MCCommands
  BadLines <- MCBadLines
  GreedyLines <- MCGreedyLines
  OtherLines <- MCOtherLines
  MaxLines = 3
  MAX_STRING_SIZE = 3
  MAX_WRITE_SIZE = 3
  UINT_MAX = 20
  StaleDigits <- MCStaleDigits
SPECIFICATION Spec
INVARIANTS TypeOK AtLineStart ExecutedAsWritten RejectedAlone OneLineLost
