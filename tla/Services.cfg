SPECIFICATION Spec
CONSTANTS
    Networks = {n}
    AllNetworks = all
    MaxTimers = 3
    MaxPosted = 2
    MaxRequests = 2
    Callers = {a, b}
    MaxMessages = 3
    Direct = {"database"}
    SatEvents = FALSE
    RecentlyBooted = TRUE
    MaxPollRetries = 1
    MaxMain = 1
    MaxPolls = 1
    MaxHung = 1
    StoredIds = {"c1"}
    CloseInSleep = TRUE
    MaxWrites = 2
    MaxQueued = 3
    MaxRestarts = 1
    IrRemotes = {"xr15"}
    RfNames = {"XR11-20"}
    Sights = {"line_of_sight"}
    MaxDay = 2
    MaxSightTimers = 2
    Rcus = {1, 2}
    Products = {{1}, {2}}
    MaxRetries = 1
    Pausable = TRUE
    MaxPosts = 2
    MaxImages = 1
    MaxTouches = 1
    BleRemotes = {"r1"}
    MaxLine = 2
    MaxSignals = 2
    MaxChanges = 2
    MaxIrs = 1
    MaxDowns = 1
    VoiceDevices = {"ptt", "mic"}
    Urls = {"u1", "u2"}
    Configs <- EnabledConfigs
    MaxSets = 2
    MaxTurns = 1
    MaxBoots = 1
INVARIANTS
    
    
    LoopSound
    DbSound
    
    UpgradeSound
    LinkSound
    SettingsSound
SYMMETRY Alike
CHECK_DEADLOCK FALSE
