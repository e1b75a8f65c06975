CONSTANTS
    c1 = c1
    c2 = c2
    s1 = s1
    s2 = s2
    l1 = l1
    h1 = h1
    h2 = h2
    None = None
    Connectors = {c1}
    SessionIds = {}
    HostSessions <- NoSession
    Lanes = {l1}
    OwnLane <- NoLane
    Heirs = {}
    Handlers = {h1, h2}
    NumCommands = 1
    Modes = {"cli_fallback"}
    EventKinds = {"started"}
    CapSets = {{"codex_exec"}}
    MayDie = FALSE
SPECIFICATION Spec
INVARIANTS
    FailedCommandFailsTask
CHECK_DEADLOCK FALSE
