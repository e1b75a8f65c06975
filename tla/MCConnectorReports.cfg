SPECIFICATION MCSpec
CONSTANTS
  idle = idle
  degraded = degraded
  full = full
  drained = drained
  None = None
  Instances = {idle, degraded}
  Healthy = {idle}
  Capabilities = {full, drained}
  Handlers = {1}
  Ids = 4
  QueueBound = 2
  MaxChanges = 1
  MaxFaults = 1
INVARIANTS
  TypesAreCorrect
PROPERTIES
  RowsSettle
CHECK_DEADLOCK FALSE
