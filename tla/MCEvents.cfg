CONSTANTS
    h1 = h1
    h2 = h2
    h3 = h3
    e1 = e1
    e2 = e2
    s1 = s1
    s2 = s2
    None = None
    Handlers = {h1, h2, h3}
    History = {e1, e2}
    MaxSeq = 3
    MayFail = TRUE
SPECIFICATION MCSpec
SYMMETRY Symmetry
INVARIANTS
  TypesAreCorrect
  NumbersAreFresh
  ImportIsComplete
  UsageNeverOvercounts
  HistoryIsTold
CHECK_DEADLOCK FALSE
