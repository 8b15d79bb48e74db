SPECIFICATION Spec
CONSTANTS
    Controllers <- Two
    Images <- Two2
    Wants <- SameImage
    Resume <- NoneOf
    ActiveMax = 2
    Interactive = FALSE
    Background = TRUE
    Announced <- NoneOf
    Quick = FALSE
    MaxBegins = 3
    MaxRestarts = 0
INVARIANT
    StageFindsArchive
CHECK_DEADLOCK FALSE
