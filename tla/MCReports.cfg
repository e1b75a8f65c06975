SPECIFICATION MCSpec
CONSTANTS
  r1 = r1
  r2 = r2
  r3 = r3
  Requests = {r1, r2, r3}
  Timed = TRUE
  t1 = t1
  t2 = t2
  t3 = t3
  root = root
  kid = kid
  kid2 = kid2
  other = other
  None = None
SYMMETRY Symmetry
INVARIANTS
  TypesAreCorrect
  ResolutionIsTrue
  FullMeansWhole
  SyncIsTrue
  ThreadFits
PROPERTIES
  NothingElseChanges
CHECK_DEADLOCK FALSE
