SPECIFICATION MCSpec
CONSTANTS
  c1 = c1
  c2 = c2
  m1 = m1
  m2 = m2
  None = None
  Callers <- MCCallers
  Capacity = 1
  MaxRetired = 1
  MaxGeneration = 3
  Panics = {0}
INVARIANTS
  TypesAreCorrect
  ThreadsAreBounded
  WaitIsHeard
  ConnectIsSound
  ManagerIsTrue
  NothingIsLeft
PROPERTIES
  WaitsEnd
  RestartIsFair
CHECK_DEADLOCK FALSE
