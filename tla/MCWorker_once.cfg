CONSTANTS
    h1 = h1
    h2 = h2
    c1 = c1
    c2 = c2
    k1 = k1
    s1 = s1
    l1 = l1
    None = None
    Parts = {"sockets", "refresh", "fallback", "backlog"}
    NumSockets = 2
    NumCommands = 1
    MaxWaiting = 1
    Handlers = {h1, h2}
    MayExpire = TRUE
    Postures = {"conservative"}
    MayDie = TRUE
SPECIFICATION MCSpec
SYMMETRY Symmetry
INVARIANTS
  TypeOK
  ExecutionIsSound
  OneRefreshPending
  EndsAreTrue
CHECK_DEADLOCK FALSE
