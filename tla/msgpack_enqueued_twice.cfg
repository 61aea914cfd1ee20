SPECIFICATION Spec
CONSTANTS
    MaxReq = 6
    MaxQueue = 4
    InactiveLimits = {9}
    IdleTimeoutSet = FALSE
    Ways <- LateFaultWays
    Unserializable = {}
    AuxReq = {}
    AuxOnError = {}
    AuxRaises = {}
    NoData = NoData
INVARIANT EnqueuedOnce
CHECK_DEADLOCK FALSE
