SPECIFICATION Spec
CONSTANTS
  t1 = t1
  Tasks = {t1}
  NoTask = NoTask
  MaxFailures = 2
  LeaseTtl = 2
  GateTtl = 1
  MaxCrashes = 1
  MaxGates = 1
PROPERTY CancelledIsFinal
