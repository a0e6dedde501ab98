\* Every command line of at most three flags, and every combination of the
\* mail, TLS and Heartbleed flags; and the scanners' reads.
SPECIFICATION GrabSpec
CONSTANTS
  ArgSets <- AllArgs
  MaxFlags = 3
  ScanCases <- MCScans
  ReplyBuffer = 6
  READ_BUFFER_LENGTH = 6
  ModbusBuffer = 20
  BACNetQueries = 4
  MaxDuplicates = 2
INVARIANTS
  TLSDiscipline
  DialogueKept
  RecordTellsHowFar
  ReadInPieces
  AnswersMatch
PROPERTIES
  NoPlaintextAfterTLS
