SPECIFICATION FairSpec
CONSTANTS
    SessionId = {s1, s2}
    Name = {n1, n2}
    Proc = {p1, p2}
    Null = Null
    Mux = {"tmux", "none"}
    AutoStart = {}
    QuietClose = {}
    MaxMessages = 1
    MaxStamps = 1
    Kinds = {"init", "close", "delete", "send", "report"}
    Faults = {"send"}
    Probed = {}
INVARIANTS
    DeliveredWasTyped
PROPERTIES
    OutcomeRecorded
CHECK_DEADLOCK FALSE
