SPECIFICATION Spec
CONSTANTS
    Keys = {"left", "right"}
    MaxFrames = 5
    MaxValidations = 2
    Remotes = {"r1","r2"}
    FailThreshold = 2
    RebootThreshold = 2
    MaxQueued = 1
    Addresses = {"a1", "a2"}
    Ids = {1, 2, 3}
    NoOne = "none"
    MaxWrites = 1
    MaxEnds = 2
    MaxRollbacks = 1
    Finders = {"r1", "r2", "r3"}
    MaxFound = 2
    MaxCommands = 3
    MaxUnpaired = 2
    RibValues = {0, 1}
    MaxJobs = 4
    MaxSets = 4
    MaxStarts = 1
    Volts = {136, 150, 163, 175, 187}
    Sags = {3, 12}
    Levels <- XrLevels
    MaxReports = 3
    MaxBatteryStarts = 1
    KeySets <- SomeKeySets
    WrittenSlots <- SomeSlots
    MaxCodes = 3
    MaxIrWrites = 1
    MaxTimers = 2
    MaxIrStarts = 1
    Polled = {"r1"}
    Sources <- PollSources
    FirstConf <- CodedConf
    Nothing = Nothing
    Gaps = {1, 2}
    HbToSave = 2
    HbLimit = 3
    MaxActions = 2
    MaxClock = 2
    MaxRestarts = 1
    MaxRfc = 1
INVARIANTS
    
    DiscoverySound
    SyncSound
    FindSound
    RibSound
    BatterySound
    IrSound
    PollSound
CHECK_DEADLOCK FALSE
