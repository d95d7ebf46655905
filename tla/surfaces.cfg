SPECIFICATION Spec
CONSTANTS
    s1 = s1
    s2 = s2
    w1 = w1
    w2 = w2
    NoOne = NoOne
    Sessions = {s1, s2}
    Workspaces = {w1, w2}
    CommandLines <- McCommandLines
    Worlds <- McWorlds
    Credentials <- McCredentials
    Scripts <- McScripts
    MaxEdits = 1
INVARIANTS
    VerdictsHaveACause
    WordsMeanOneThing
    PortsSuffice
    AnswersFollowTheLines
PROPERTIES
    EveryRequestAnswered
