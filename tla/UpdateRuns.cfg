SPECIFICATION FairSpec
CONSTANTS
    Controllers <- Three
    Images <- Three3
    Wants <- SharedImage
    Resume <- OnlyR
    ActiveMax = 2
    Interactive = FALSE
    Background = TRUE
    Announced <- NewFile
    Quick = TRUE
    MaxBegins = 3
    MaxRestarts = 1
INVARIANT
    UpdateSound
PROPERTIES
    FinishedEnds
    SessionEnds
CHECK_DEADLOCK FALSE
