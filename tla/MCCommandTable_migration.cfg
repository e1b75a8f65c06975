CONSTANTS
    c1 = c1
    c2 = c2
    s1 = s1
    s2 = s2
    l1 = l1
    h1 = h1
    h2 = h2
    None = None
    Connectors = {c1, c2}
    SessionIds = {s1}
    HostSessions <- OneSession
    Lanes = {l1}
    OwnLane <- OneSessionLane
    Heirs <- Replacement
    Handlers = {h1, h2}
    NumCommands = 1
    Modes = {"app_server"}
    EventKinds = {"started"}
    CapSets = {{"codex_app_server_exec"}}
    MayDie = FALSE
SPECIFICATION Spec
SYMMETRY HandlerSymmetry
INVARIANTS
    OwnerIsTarget
PROPERTIES
    RunningIsNotMoved
    LeaseProtocol
CHECK_DEADLOCK FALSE
