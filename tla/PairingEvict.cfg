SPECIFICATION Spec
CONSTANTS
    Remotes <- RemotesAB
    Ids <- Two2
    Modes <- AllModes
    Precommissioned <- NoneOf
    Room = 1
    CodeLength = 2
    MaxWrong = 2
    Prompt = TRUE
    Leftovers = TRUE
    MaxPairs = 3
    MaxPending = 2
PROPERTIES
    EvictedForRoom
CHECK_DEADLOCK FALSE
