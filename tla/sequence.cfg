SPECIFICATION FairSpec
CONSTANTS
    c1 = c1
    c2 = c2
    Caller = {c1, c2}
    Plans <- McPlans
    Refs <- McRefs
    MaxFaults = 2
INVARIANTS
    TemplatesFitTogether
    ResultMeetsDefinition
    LinesAreWhole
    DeliveredIsSubmitted
PROPERTIES
    TimedSequencesEnd
CHECK_DEADLOCK FALSE
