SPECIFICATION FairSpec
CONSTANTS
    MaxReq = 4
    MaxQueue = 2
    InactiveLimits = {9}
    IdleTimeoutSet = FALSE
    Ways <- FaultyWays
    Unserializable = {2}
    AuxReq = {3}
    AuxOnError = {}
    AuxRaises = {3}
    NoData = NoData
INVARIANTS QueuesAgree NothingWithheld OnlyBrokenLost
CHECK_DEADLOCK FALSE
