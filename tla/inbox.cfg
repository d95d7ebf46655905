SPECIFICATION FairSpec
CONSTANTS
    Session = {a, b}
    Reader = {a}
    View = {"inbox", "undelivered"}
    Null = Null
    MaxMessages = 2
    Sizes = {1}
    Limits = {1, 2}
    TailLimit = 1
    Budget = 3
    MaxPolls = 1
PROPERTIES
    ReceivesReliably
    InsertsAheadOfCursors
    WaitHandsOver
CHECK_DEADLOCK FALSE
