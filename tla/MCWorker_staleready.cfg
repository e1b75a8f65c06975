CONSTANTS
    h1 = h1
    h2 = h2
    c1 = c1
    c2 = c2
    k1 = k1
    s1 = s1
    l1 = l1
    None = None
    Parts = {"sockets"}
    NumSockets = 2
    NumCommands = 0
    MaxWaiting = 1
    Handlers = {h1, h2}
    MayExpire = FALSE
    Postures = {"conservative"}
    MayDie = FALSE
SPECIFICATION MCSpec
INVARIANTS
    SettledReadyIsOnline
CHECK_DEADLOCK FALSE
