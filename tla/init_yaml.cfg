SPECIFICATION Spec
CONSTANTS
    p1 = p1
    p2 = p2
    Procs = {p1, p2}
    Scenarios <- McScalars
    EditsOf <- McEditsOf
    Selections <- McSelections
    MaxEdits = 1
    MaxFaults = 1
INVARIANTS
    ConfigSaysWhatWasSelected
CHECK_DEADLOCK FALSE
