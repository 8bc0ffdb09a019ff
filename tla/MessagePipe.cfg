SPECIFICATION Spec
CONSTANTS
  MaxMessage = 2
  Hooked = {2}
  MaxRetries = 1
  MaxFiles = 2
  MaxFrames = 2
  MaxFaults = 2
  TrackAnswers = FALSE
INVARIANTS
  TypeOK
  HandedBeforePassed
  NothingForgotten
  ReceiptedNotReplayed
PROPERTIES
  CursorMonotone
CHECK_DEADLOCK FALSE
