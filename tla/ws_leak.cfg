SPECIFICATION Spec
CONSTANTS
    SessionId = {s1}
    Name = {n1}
    Proc = {p1}
    Null = Null
    Mux = {"tmux"}
    AutoStart = {}
    QuietClose = {}
    MaxMessages = 0
    MaxStamps = 1
    Kinds = {"create"}
    Faults = {"create", "script", "busy"}
    Probed = {}
INVARIANTS
    PaneAccounted
CHECK_DEADLOCK FALSE
