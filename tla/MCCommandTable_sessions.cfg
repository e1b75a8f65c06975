CONSTANTS
    c1 = c1
    c2 = c2
    s1 = s1
    s2 = s2
    l1 = l1
    h1 = h1
    h2 = h2
    None = None
    Connectors = {c1, c2}
    SessionIds = {s1, s2}
    HostSessions <- TwoSessions
    Lanes = {l1}
    OwnLane <- TwoSessionsLane
    Heirs = {}
    Handlers = {h1, h2}
    NumCommands = 1
    Modes = {"app_server"}
    EventKinds = {"started", "finished"}
    CapSets = {{"codex_exec", "codex_app_server_exec"}}
    MayDie = TRUE
SPECIFICATION Spec
SYMMETRY ConnectorSymmetry
INVARIANTS
  TypeOK
  AppServerKeepsSession
PROPERTIES
  StartsWhereAttached
CHECK_DEADLOCK FALSE
