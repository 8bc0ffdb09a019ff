SPECIFICATION FairSpec
CONSTANTS
  MaxMessage = 3
  MaxCrashes = 2
  MaxThrows = 1
INVARIANTS
  TypeOK
  NeverRepeated
PROPERTIES
  ClaimedEndsWithWord
