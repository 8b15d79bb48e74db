SPECIFICATION FairSpec
CONSTANTS
    Remotes <- RemotesAB
    Ids <- Two2
    Modes <- AllModes
    Precommissioned <- Second
    Room = 1
    CodeLength = 2
    MaxWrong = 2
    Prompt = TRUE
    Leftovers = FALSE
    MaxPairs = 4
    MaxPending = 3
INVARIANT
    PairingSound
PROPERTIES
    BoundKept
    PairingEnds
CHECK_DEADLOCK FALSE
