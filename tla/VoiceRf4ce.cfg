SPECIFICATION Spec
CONSTANTS
    rf = rf
    ble = ble
    Rf4ce = {rf}
    Ble = {ble}
    NoController = NoController
    ControllerId <- DistinctIds
    ByText = TRUE
    IdMax = 1
    MaxRequests = 2
    MaxRouter = 2
    QueueMax = 2
INVARIANTS
    ActiveCountBalanced
    AudioHeldByStreamingSource
    PacketWatchdog
    WaitingHasOwner
    EventsBegunAndEndedOnce
PROPERTY
    ImplementsLease
CHECK_DEADLOCK FALSE
