SPECIFICATION Spec
CONSTANTS
    SessionId = {s1, s2}
    Name = {n1, n2}
    Proc = {p1, p2}
    Null = Null
    Mux = {"tmux", "zellij", "none"}
    AutoStart = {"zellij"}
    QuietClose = {"zellij"}
    MaxMessages = 0
    MaxStamps = 1
    Kinds = {"create", "init", "close", "delete", "refresh"}
    Faults = {"create", "script", "run", "cleanup", "busy", "files", "close", "pane", "crash"}
    Probed = {"exited"}
SYMMETRY Symmetry
INVARIANTS
    TreeAcyclic
    PointerHasToken
PROPERTIES
    NoRowComesBack
    OnlyDeadRowsDeleted
    HostPaneUntouched
CHECK_DEADLOCK FALSE
