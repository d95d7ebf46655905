SPECIFICATION Spec
CONSTANTS
    Opener = {p1, p2}
    MaxMessages = 3
    Crashes = TRUE
INVARIANTS
    OpenMeansLatest
PROPERTIES
    VersionNeverFalls
    LegacyOrder
CHECK_DEADLOCK FALSE
