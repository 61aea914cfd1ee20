SPECIFICATION FairSpec
CONSTANTS
    MaxReq = 4
    MaxQueue = 2
    InactiveLimits = {1, 9}
    IdleTimeoutSet = TRUE
    Ways <- SoundWays
    Unserializable = {}
    AuxReq = {1}
    AuxOnError = {}
    AuxRaises = {}
    NoData = NoData
INVARIANTS TypeOK OnlyInputRaises SentIsClosed FifoPipeline
PROPERTIES Answered ImplementsOrderedResponses
CHECK_DEADLOCK FALSE
