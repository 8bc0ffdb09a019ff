SPECIFICATION FairSpec
CONSTANTS
  mode <- MCMode
  files <- MCFiles
  MaxEvent = 2
  MaxPart = 2
  RowLimit = 2
  SendLimit = 2
  MaxFaults = 1
INVARIANTS
  TypeOK
  SentAtMostOnce
PROPERTIES
  NoSupersededSent
  PublishedSettles
