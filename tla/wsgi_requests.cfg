SPECIFICATION FairSpec
CONSTANTS
    Req = {r1, r2}
    NAux = 3
    ThreadAux = {1}
    AuxOnError = {2}
    PoolSize = 1
    LazyOutput = TRUE
    CloseListenersRaise = TRUE
INVARIANTS OneResponse AuxContract PoolExact
PROPERTY Served
CHECK_DEADLOCK FALSE
