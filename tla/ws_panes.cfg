SPECIFICATION Spec
CONSTANTS
    SessionId = {s1, s2, s3}
    Name = {n1, n2}
    Proc = {p1, p2}
    Null = Null
    Mux = {"tmux"}
    AutoStart = {}
    QuietClose = {}
    MaxMessages = 0
    MaxStamps = 1
    Kinds = {"create", "close", "delete", "refresh"}
    Faults = {"run", "pane"}
    Probed = {}
SYMMETRY Symmetry
INVARIANTS
    TypeOK
    PaneAccounted
    RowsWereLaunched
PROPERTIES
    ClosedIsFinal
CHECK_DEADLOCK FALSE
