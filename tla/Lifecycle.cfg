SPECIFICATION Spec
CONSTANTS
    Threshold = 2
    Present = TRUE
    MaxData = 2
    MaxCrashes = 2
    MaxDamage = 1
    Nets <- ThreeNets
    Locked = {"rf4ce", "ble"}
    Required = {"rf4ce", "ble"}
    MaxNotes = 2
    BusThreads = {"b1", "b2"}
    BusNetworks = {"rf4ce", "ble"}
    MaxCalls = 2
INVARIANTS
    CountBounded
    
    BusSound
PROPERTIES
    RecoveryComesUp
    HangIsFound
    
    
    StreamsEnd
CHECK_DEADLOCK FALSE
