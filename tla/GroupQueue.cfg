SPECIFICATION FairSpec
CONSTANTS
  Groups = {g1, g2}
  Tasks = {t1, t2}
  NoTask = NoTask
  MaxConcurrent = 1
  MaxRetries = 1
  MaxTimers = 1
INVARIANTS
  TypeOK
  OneRunPerGroup
  WorkConserving
  TaskHeldOnce
  FailedTurnRemembered
  StopReachesProcess
  IdleRunYieldsToTask
PROPERTIES
  ImplementsRunSlots
  WaitersServed
  MessagesServed
CHECK_DEADLOCK FALSE
