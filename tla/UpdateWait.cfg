SPECIFICATION Spec
CONSTANTS
    Controllers <- Two
    Images <- Two2
    Wants <- TwoImages
    Resume <- NoneOf
    ActiveMax = 2
    Interactive = TRUE
    Background = TRUE
    Announced <- NoneOf
    Quick = TRUE
    MaxBegins = 4
    MaxRestarts = 0
INVARIANT
    InitiatedBeforeStaged
CHECK_DEADLOCK FALSE
