SPECIFICATION Spec
CONSTANTS
    Session = {1, 2, 3, 4}
    Message = {1}
    Null = Null
    ActivityCap = 3
    Parent <- Family
    Before = {1, 2, 3}
    Exited = {1}
    Worktree = {1, 4}
    ScopeMode = "workspace"
    Fates = {"missing"}
    Routes <- Mail2
    Typed = {"down", "tab", "f", "c", "D", "s", "y", "ctrl+return", "backspace", "a", "r", "q"}
    MaxKeys = 3
    MaxQueue = 1
    MaxChanges = 1
    MaxFailures = 1
INVARIANTS
    ScreenIsCoherent
    MutationsHitWhatWasAsked
PROPERTIES
    BadgesAreEarned
    StripTellsEveryChange
    ScreenCatchesUp
    CloseEndsTheLoop
CHECK_DEADLOCK FALSE
