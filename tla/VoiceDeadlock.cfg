SPECIFICATION Spec
CONSTANTS
    rf = rf
    ble = ble
    Rf4ce = {rf}
    Ble = {ble}
    NoController = NoController
    ControllerId <- DistinctIds
    ByText = FALSE
    IdMax = 5
    MaxRequests = 3
    MaxRouter = 2
    QueueMax = 2
INVARIANT
    RequestNeverDeadlocks
CHECK_DEADLOCK FALSE
